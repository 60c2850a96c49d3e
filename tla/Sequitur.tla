------------------------------ MODULE Sequitur ------------------------------
(***************************************************************************)
(* The grammar builder behind the motifs of the impact waves               *)
(* (sequitur/builder.rs, grammar.rs): symbols are appended one by one to   *)
(* the start sequence; a digram the index has at several places is         *)
(* replaced by a new rule, a rule left with one use is expanded again.     *)
(*                                                                         *)
(* The methods call each other recursively.  Their calls are the steps of  *)
(* the specification: `work' holds the calls still to be made, the next    *)
(* one first.  The start sequence is rule 0 and positions count from 1.    *)
(* A substitution shifts the symbols behind it, but the index keeps the    *)
(* old positions of their digrams; so does the model.                      *)
(***************************************************************************)
EXTENDS Integers, Sequences, SequencesExt

CONSTANTS Terminals,   \* natural numbers
          MaxDepth,    \* recursion guard of enforce_digram_uniqueness_depth
          MaxLength    \* bound on the length of the input

ASSUME TerminalsAreNumbers == Terminals \subseteq Nat
ASSUME BoundsAreNat == MaxDepth \in Nat /\ MaxLength \in Nat

VARIABLES input,       \* symbols appended so far
          seqs,        \* Grammar.start and Grammar.rules
          next,        \* Grammar.next_rule_id
          index,       \* digram_index: digram -> positions, in insertion order
          work,        \* calls to be made
          phase,       \* "append", "finalize" or "done"
          panicked     \* a method indexed a rule that is gone

build_vars == << input, seqs, next, index, work, phase, panicked >>

Terminal(t) == <<"T", t>>
NonTerminal(r) == <<"N", r>>
StartRule == 0
None == << >>

-----------------------------------------------------------------------------
(* Sequences and the digram index, of a grammar g                          *)

digram_at(g, r, p) ==
  IF r \in DOMAIN g /\ p < Len(g[r]) THEN << g[r][p], g[r][p + 1] >> ELSE None

PositionsOf(x, d) == IF d \in DOMAIN x THEN x[d] ELSE << >>

\* A digram without positions leaves the index.
SetPositions(x, d, ps) ==
  [e \in IF ps = << >> THEN DOMAIN x \ {d} ELSE DOMAIN x \cup {d} |->
     IF e = d THEN ps ELSE x[e]]

\* Vec::retain of the positions other than q.
Retained(ps, q) ==
  LET kept[n \in 0 .. Len(ps)] ==
        IF n = 0 THEN << >>
        ELSE IF ps[n] = q THEN kept[n - 1] ELSE Append(kept[n - 1], ps[n])
  IN kept[Len(ps)]

add_digram(g, x, r, p) ==
  LET d == digram_at(g, r, p) IN
    IF d = None THEN x ELSE SetPositions(x, d, Append(PositionsOf(x, d), <<r, p>>))

\* The same for `count' places from p on.
add_digrams(g, x, r, p, count) ==
  LET added[n \in 0 .. count] ==
        IF n = 0 THEN x ELSE add_digram(g, added[n - 1], r, p + (n - 1))
  IN added[count]

remove_digram(g, x, r, p) ==
  LET d == digram_at(g, r, p) IN
    IF d = None THEN x
    ELSE SetPositions(x, d, Retained(PositionsOf(x, d), <<r, p>>))

\* The uses of a rule.
RuleRefs(g, id) ==
  {q \in UNION {{<<r, p>> : p \in DOMAIN g[r]} : r \in DOMAIN g} :
     g[q[1]][q[2]] = NonTerminal(id)}

count_rule_refs(id) == Cardinality(RuleRefs(seqs, id))

Rules == DOMAIN seqs \ {StartRule}

\* The digrams at a place and on both sides of it leave the index.
Unindexed(r, p) ==
  LET left == IF p > 1 THEN remove_digram(seqs, index, r, p - 1) ELSE index
      here == remove_digram(seqs, left, r, p)
  IN IF p + 2 <= Len(seqs[r]) THEN remove_digram(seqs, here, r, p + 1) ELSE here

-----------------------------------------------------------------------------
(* Calls                                                                   *)

Call(do, r, p, depth) == [do |-> do, r |-> r, p |-> p, depth |-> depth]
SubstituteCall(q, d, id, depth) ==
  [do |-> "substitute", r |-> q[1], p |-> q[2], depth |-> depth, d |-> d, id |-> id]
RuleCall(do, id, depth) == [do |-> do, id |-> id, depth |-> depth]

Turn(do) == work # << >> /\ Head(work).do = do /\ ~panicked
Replaced(calls) == work' = calls \o Tail(work)

\* enforce_digram_uniqueness_depth on entry: nothing to do.
Unique(c) ==
  \/ c.depth > MaxDepth
  \/ digram_at(seqs, c.r, c.p) = None
  \/ Len(PositionsOf(index, digram_at(seqs, c.r, c.p))) < 2

\* The rest of it: a new rule, a substitution for every place the index knows,
\* last first, and a look at how often the rule is used then.  The body of the
\* rule is not indexed.
Enforce ==
  /\ Turn("enforce")
  /\ LET c == Head(work)
         d == digram_at(seqs, c.r, c.p)
         places == Reverse(PositionsOf(index, d))
     IN IF Unique(c) THEN Replaced(<< >>) /\ UNCHANGED << seqs, next, index >>
        ELSE /\ next' = next + 1
             /\ seqs' = [r \in DOMAIN seqs \cup {next} |-> IF r = next THEN d ELSE seqs[r]]
             /\ Replaced([n \in DOMAIN places |->
                            SubstituteCall(places[n], d, next, c.depth + 1)]
                         \o << RuleCall("utility", next, c.depth) >>)
             /\ UNCHANGED index
  /\ UNCHANGED << input, phase, panicked >>

\* The same without a second look: the index is trusted.
StillThere_trusted(c) == digram_at(seqs, c.r, c.p) # None

\* Earlier substitutions may have destroyed or moved the digram.
StillThere(c) == digram_at(seqs, c.r, c.p) = c.d

\* substitute_digram_depth, up to the digram on the left.
Substitute ==
  /\ Turn("substitute")
  /\ LET c == Head(work)
         s == seqs[c.r]
         g == [seqs EXCEPT ![c.r] = SubSeq(s, 1, c.p - 1) \o << NonTerminal(c.id) >>
                                      \o SubSeq(s, c.p + 2, Len(s))]
     IN IF ~StillThere(c)
        THEN Replaced(<< >>) /\ UNCHANGED << seqs, index >>
        ELSE /\ seqs' = g
             /\ index' = IF c.p > 1 THEN add_digram(g, Unindexed(c.r, c.p), c.r, c.p - 1)
                         ELSE Unindexed(c.r, c.p)
             /\ Replaced((IF c.p > 1 THEN << Call("enforce", c.r, c.p - 1, c.depth + 1) >>
                          ELSE << >>)
                         \o << Call("right", c.r, c.p, c.depth) >>)
  /\ UNCHANGED << input, next, phase, panicked >>

\* The rest of it, for the digram on the right.  The call in between may have
\* removed the rule.
SubstituteRight ==
  /\ Turn("right")
  /\ LET c == Head(work) IN
       /\ index' = add_digram(seqs, index, c.r, c.p)
       /\ panicked' = (c.r \notin DOMAIN seqs)
       /\ Replaced(IF ~panicked' /\ c.p + 1 <= Len(seqs[c.r])
                   THEN << Call("enforce", c.r, c.p, c.depth + 1) >> ELSE << >>)
  /\ UNCHANGED << input, seqs, next, phase >>

Underused(id) == count_rule_refs(id) < 2

\* The rule utility check after the substitutions.
Utility ==
  /\ Turn("utility")
  /\ LET c == Head(work) IN
       Replaced(IF Underused(c.id) THEN << RuleCall("expand", c.id, c.depth + 1) >>
                ELSE << >>)
  /\ UNCHANGED << input, seqs, next, index, phase, panicked >>

\* The rule leaves the grammar before its use is looked at.
Without(id) == [r \in DOMAIN seqs \ {id} |-> seqs[r]]

\* expand_rule_depth: the body takes the place of the use there is, if there is
\* one, and the digrams around it are indexed and enforced from left to right.
ExpandRule ==
  /\ Turn("expand")
  /\ LET c == Head(work)
         gone == Without(c.id)
     IN IF c.id \notin DOMAIN seqs \/ RuleRefs(seqs, c.id) = {}
        THEN /\ seqs' = gone
             /\ Replaced(<< >>)
             /\ UNCHANGED << index, panicked >>
        ELSE LET q == CHOOSE u \in RuleRefs(seqs, c.id) : TRUE
                 r == q[1]
                 p == q[2]
                 body == seqs[c.id]
                 first == IF p > 1 THEN p - 1 ELSE p
                 count == p + Len(body) - first
                 left == IF p > 1 THEN remove_digram(gone, index, r, p - 1) ELSE index
                 g == [gone EXCEPT ![r] = SubSeq(@, 1, p - 1) \o body
                                            \o SubSeq(@, p + 1, Len(@))]
             IN IF r = c.id
                THEN /\ panicked' = TRUE
                     /\ UNCHANGED << seqs, index, work >>
                ELSE /\ seqs' = g
                     /\ index' = add_digrams(g, remove_digram(gone, left, r, p), r, first, count)
                     /\ Replaced([n \in 1 .. count |->
                                    Call("recheck", r, first + (n - 1), c.depth + 1)])
                     /\ UNCHANGED panicked
  /\ UNCHANGED << input, next, phase >>

\* The same until the digram is unique.
Recheck_until ==
  /\ Turn("recheck")
  /\ LET c == Head(work) IN
       /\ panicked' = (c.r \notin DOMAIN seqs)
       /\ Replaced(IF ~panicked' /\ c.p + 1 <= Len(seqs[c.r])
                   THEN << Call("enforce", c.r, c.p, c.depth) >>
                          \o (IF Unique([c EXCEPT !.depth = 0]) THEN << >> ELSE << c >>)
                   ELSE << >>)
  /\ UNCHANGED << input, seqs, next, index, phase >>

\* One turn of the last loop of expand_rule_depth.
Recheck ==
  /\ Turn("recheck")
  /\ LET c == Head(work) IN
       /\ panicked' = (c.r \notin DOMAIN seqs)
       /\ Replaced(IF ~panicked' /\ c.p + 1 <= Len(seqs[c.r])
                   THEN << Call("enforce", c.r, c.p, c.depth) >> ELSE << >>)
  /\ UNCHANGED << input, seqs, next, index, phase >>

\* Builder::append
AppendSymbol(t) ==
  /\ phase = "append" /\ work = << >> /\ ~panicked
  /\ Len(input) < MaxLength
  /\ input' = Append(input, t)
  /\ seqs' = [seqs EXCEPT ![StartRule] = Append(@, Terminal(t))]
  /\ LET p == Len(seqs[StartRule]) IN
       /\ index' = IF p = 0 THEN index ELSE add_digram(seqs', index, StartRule, p)
       /\ work' = IF p = 0 THEN << >> ELSE << Call("enforce", StartRule, p, 0) >>
  /\ UNCHANGED << next, phase, panicked >>

\* Builder::finalize is called after the last symbol.
Finalize ==
  /\ phase = "append" /\ work = << >> /\ ~panicked
  /\ phase' = "finalize"
  /\ UNCHANGED << input, seqs, next, index, work, panicked >>

\* enforce_global_rule_utility: underused rules are expanded, lowest id first.
EnforceGlobalRuleUtility ==
  /\ phase = "finalize" /\ work = << >> /\ ~panicked
  /\ LET underused == {r \in Rules : Underused(r)} IN
       IF underused = {} THEN phase' = "done" /\ UNCHANGED work
       ELSE /\ work' = << RuleCall("expand", Min(underused), 0) >>
            /\ UNCHANGED phase
  /\ UNCHANGED << input, seqs, next, index, panicked >>

Work ==
  \/ Enforce \/ Substitute \/ SubstituteRight \/ Utility \/ ExpandRule \/ Recheck
  \/ EnforceGlobalRuleUtility

BuildNext == Work \/ Finalize \/ \E t \in Terminals : AppendSymbol(t)

BuildInit ==
  /\ input = << >>
  /\ seqs = [r \in {StartRule} |-> << >>]
  /\ next = 1
  /\ index = [d \in {} |-> << >>]
  /\ work = << >>
  /\ phase = "append"
  /\ panicked = FALSE

\* The builder is one thread that makes its calls to the end.
BuildSpec == BuildInit /\ [][BuildNext]_build_vars /\ WF_build_vars(Work)

-----------------------------------------------------------------------------
(* Properties                                                              *)

\* What a sequence stands for, given what the rules stand for: one that is
\* missing stands for nothing.
SymbolText(y, text) ==
  IF y[1] = "T" THEN << y[2] >>
  ELSE IF y[2] \in DOMAIN text THEN text[y[2]] ELSE << >>

expand_seq(seq, text) ==
  LET out[n \in 0 .. Len(seq)] ==
        IF n = 0 THEN << >> ELSE out[n - 1] \o SymbolText(seq[n], text)
  IN out[Len(seq)]

\* Grammar::expand of grammar g: a rule stands for nothing inside itself, which
\* the rules on the stack tell.
expand(g) ==
  LET inside[stack \in SUBSET (DOMAIN g \ {StartRule})] ==
        [r \in DOMAIN g \ {StartRule} |->
           IF r \in stack THEN << >> ELSE expand_seq(g[r], inside[stack \cup {r}])]
  IN expand_seq(g[StartRule], inside[{}])

\* The grammar expands to the input, at every step and after the cleanup,
\* whatever stale positions the index holds (check_expansion), and no call
\* panics because a nested one removed its rule.  The motif of a wave is
\* identified by this expansion.
ExpandsToInput == ~panicked /\ expand(seqs) = input

\* Expanding and enforcing, which undo each other, come to an end after every
\* symbol, and the cleanup does.
BuildTerminates ==
  (work # << >> \/ phase = "finalize") ~> (work = << >> /\ phase # "finalize")

=============================================================================
