---------------------------- MODULE MCEnrollment ----------------------------
(***************************************************************************)
(* The instances of Enrollment that TLC checks, and what the documents say *)
(* of it that the code does not keep.                                      *)
(***************************************************************************)
EXTENDS Enrollment, TLC

CONSTANTS s1, s2, c1, c2

MCSymmetry == Permutations({s1, s2}) \cup Permutations({c1, c2})

(* "agent token file ... already exists; remove it before enrolling"       *)
(* (src/src/agent.rs:136): the agent that refuses for that reason can      *)
(* enroll with its code once the file is removed.                          *)
RefusedKeepsCode ==
  \A s \in Sessions :
    agent[s] = "refused" => ~db.enrollments[ask[s].code].consumed
=============================================================================
