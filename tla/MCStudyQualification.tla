------------------------ MODULE MCStudyQualification ------------------------
(* Two E0 seeds and the E1 run, two checkpoints each; an inference gives metrics that pass *)
(* or fail the keep gates against each other.                                              *)
EXTENDS StudyQualification

MCArmOrder == <<"e0-first", "e0-second", "e1">>
MCDraws == {[top |-> 60, detL |-> 50, detT |-> 50, wrong |-> 10],
            [top |-> 62, detL |-> 49, detT |-> 50, wrong |-> 9]}
=============================================================================
