--------------------------- MODULE MCHarnessRunner ---------------------------
(* Small instances of a verification run. *)
EXTENDS HarnessRunner

Plain == [failFast |-> FALSE, quiet |-> FALSE, exact |-> FALSE,
          configFree |-> FALSE, failUnvalidated |-> FALSE, auto |-> FALSE,
          filters |-> 0]
(* --harness and autoharness exclude one another, --exact needs --harness. *)
Filtered(cs, n) == {[c EXCEPT !.filters = n, !.exact = e] : c \in cs, e \in BOOLEAN}
Quietly == [Plain EXCEPT !.quiet = TRUE, !.failUnvalidated = TRUE]
Lean == [Plain EXCEPT !.configFree = TRUE]
Hasty == [Plain EXCEPT !.failFast = TRUE]
FailFast == {Hasty}
AllCommands == {Plain, Quietly, Lean, Hasty} \union Filtered({Plain, Hasty}, 1)
               \union Filtered({Quietly}, 2)
               \union {[c EXCEPT !.auto = TRUE] : c \in {Plain, Hasty}}

Profile(a, p, c) == [auto |-> a, shouldPanic |-> p, needsConfig |-> c]
WithPanics == {Profile(FALSE, p, FALSE) : p \in BOOLEAN}
AllProfiles == WithPanics \union {Profile(FALSE, FALSE, TRUE), Profile(TRUE, FALSE, FALSE)}

Verdict(s, f, v) == [status |-> s, failed |-> f, valid |-> v]
ValidVerdicts == {Verdict("Success", "None", TRUE), Verdict("Failure", "Other", TRUE),
                  Verdict("Failure", "PanicsOnly", TRUE)}
SomeVerdicts == {Verdict("Success", "None", v) : v \in BOOLEAN}
                \union {Verdict("Failure", "PanicsOnly", TRUE),
                        Verdict("Failure", "Other", FALSE)}
=============================================================================
