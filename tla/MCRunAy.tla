------------------------------- MODULE MCRunAy -------------------------------
EXTENDS RunAy, TLC

CONSTANTS c1, c2, k1

(* A query with nothing special about it. *)
Plain == [horn |-> FALSE, checks |-> {c1, c2},
          class |-> (c1 :> "panic" @@ c2 :> "other"),
          viol |-> {}, reach |-> {c1, c2}, reachFlags |-> {c2}, feasible |-> TRUE,
          covers |-> {k1}, satisfiable |-> {}, coverReach |-> {k1}, coverFlags |-> {k1},
          alone |-> {k1}, shape |-> "general", acyclic |-> FALSE, scalar |-> FALSE,
          table |-> TRUE, vacuous |-> FALSE, unwind |-> FALSE]

(* Bounded queries: every way for two checks to be reached and violated, with and
   without reach flags and feasibility, and every way for a cover. *)
CheckQueries ==
    {x \in {[Plain EXCEPT !.viol = v, !.reach = r, !.reachFlags = f, !.feasible = b] :
              v \in SUBSET {c1, c2}, r \in SUBSET {c1, c2}, f \in {{}, {c1, c2}},
              b \in BOOLEAN} : x \in Query}
CoverQueries ==
    {x \in {[Plain EXCEPT !.viol = v, !.satisfiable = s, !.coverReach = p] :
              v \in {{}, {c2}}, s \in SUBSET {k1}, p \in SUBSET {k1}} : x \in Query}
Bare == {[Plain EXCEPT !.checks = {}, !.reach = {}, !.reachFlags = {}],
         [Plain EXCEPT !.covers = {}, !.coverReach = {}, !.coverFlags = {}]}

(* Clause sets: every shape, safe and unsafe, with and without the features the
   ladder looks at. *)
Horn == [Plain EXCEPT !.horn = TRUE]
ChcQueries ==
    {x \in {[Horn EXCEPT !.viol = v, !.acyclic = a, !.scalar = s] :
              v \in {{}, {c2}}, a \in BOOLEAN, s \in BOOLEAN} : x.scalar => x.acyclic}

(* Shortcuts and reports, on an otherwise plain clause set. *)
ReportQueries ==
    {x \in {[Horn EXCEPT !.viol = v, !.shape = sh, !.table = t, !.unwind = u, !.alone = k] :
              v \in {{}, {c2}, {c1, c2}}, sh \in {"noRule", "falseRule", "nullary", "general"},
              t \in BOOLEAN, u \in BOOLEAN, k \in SUBSET {k1}} : x \in Query}
    \union {[Horn EXCEPT !.shape = "falseRule", !.vacuous = TRUE, !.reach = {}, !.table = t] :
              t \in BOOLEAN}
    \union {[Horn EXCEPT !.checks = {}, !.reach = {}, !.reachFlags = {}],
            [Horn EXCEPT !.covers = {}, !.coverReach = {}, !.coverFlags = {}]}

Usual == [ay |-> TRUE, reachChecks |-> TRUE, coverage |-> FALSE, strict |-> FALSE,
          adaptive |-> TRUE, skipVerify |-> FALSE, proofCore |-> FALSE, demoted |-> FALSE,
          pct |-> 100]
BmcOptions == {Usual, [Usual EXCEPT !.reachChecks = FALSE]}
ChcOptions ==
    {Usual, [Usual EXCEPT !.strict = TRUE], [Usual EXCEPT !.ay = FALSE],
     [Usual EXCEPT !.adaptive = FALSE, !.pct = 50], [Usual EXCEPT !.skipVerify = TRUE],
     [Usual EXCEPT !.proofCore = TRUE], [Usual EXCEPT !.demoted = TRUE]}

AllCalls == (CheckQueries \X BmcOptions) \union (CoverQueries \X BmcOptions)
            \union (Bare \X {[Usual EXCEPT !.coverage = TRUE], [Usual EXCEPT !.ay = FALSE]})
            \union (ChcQueries \X ChcOptions)
            \union (ReportQueries \X {[Usual EXCEPT !.adaptive = FALSE], [Usual EXCEPT !.strict = TRUE]})
UsualCalls == (CoverQueries \union {Horn}) \X {Usual}
SomeEnds == {0, 2, 5}
LaterEnds == {2, 5}
=============================================================================
