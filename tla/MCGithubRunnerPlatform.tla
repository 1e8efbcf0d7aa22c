----------------------- MODULE MCGithubRunnerPlatform -----------------------
(***************************************************************************)
(* Two units, one with a name that continues the other's, the first        *)
(* with a server of an old release, and a runner that belongs to neither.  *)
(* The first creates and deletes in every way; the second is asked for the *)
(* state of its runners meanwhile.                                         *)
(***************************************************************************)
EXTENDS GithubRunnerPlatformProofs

Runner == [app |-> <<"runner">>, number |-> "0"]
RunnerOne == [app |-> <<"runner", "one">>, number |-> "0"]

MCUnits == {Runner, RunnerOne}
MCCalls == [u \in MCUnits |->
               IF u = Runner THEN AllCalls \ {"check"} ELSE {"check"}]

OldRunner == <<"runner", "0", "n", "a">>
OldRunnerOne == <<"runner", "one", "0", "a">>

MCEarlier == [u \in MCUnits |->
                 IF u = Runner THEN {OldRunner} ELSE {OldRunnerOne}]
MCLegacy == {OldRunner}
MCAtStart == <<OldRunnerOne, <<"other">>, OldRunner>>
=============================================================================
