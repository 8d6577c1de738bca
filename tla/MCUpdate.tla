------------------------------ MODULE MCUpdate ------------------------------
(* Update on a small instance: four releases, one of which hangs. *)
EXTENDS Update, TLC

SomeTrials == <<0, 7, 1>> :> "runs" @@ <<0, 8, 0>> :> "runs"
                @@ <<0, 9, 0>> :> "hangs" @@ <<1, 0, 0>> :> "runs"
SomeVersions == DOMAIN SomeTrials
=============================================================================
