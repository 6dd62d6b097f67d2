----------------------------- MODULE HostConfig -----------------------------
(***************************************************************************)
(* What internal/webserver/webserver.go promises of Apply, as one atomic   *)
(* step: a configuration is either accepted, and is then both what is on   *)
(* disk and what is served, or refused, and then nothing has happened.     *)
(*                                                                         *)
(* The host may go dark and come back with what is on disk; an interrupted *)
(* change tears what is on disk, until the next one is accepted.           *)
(***************************************************************************)
CONSTANTS Configs,     \* every configuration the disk may hold
          Acceptable,  \* those a server agrees to start with
          Dark         \* nothing is served

(* What it is for Dark to be dark; assumed by name where it is needed.     *)
DarkIsApart == Acceptable \subseteq Configs /\ Dark \notin Configs

VARIABLES stored,  \* what is on disk
          served,  \* what the host answers with
          torn     \* whether a change was interrupted since the last one accepted

config == <<stored, served, torn>>

TypeOK == stored \in Configs /\ served \in Configs \cup {Dark} /\ torn \in BOOLEAN

Init == stored \in Acceptable /\ served = stored /\ torn = FALSE

Accept == stored' \in Acceptable /\ served' = stored' /\ torn' = FALSE

Adopt == stored \in Acceptable /\ served' = stored /\ UNCHANGED <<stored, torn>>

Darken == served' = Dark /\ UNCHANGED <<stored, torn>>

Tear ==
  /\ torn' = TRUE /\ stored' \in Configs
  /\ served' \in {served, Dark} \cup ({stored'} \cap Acceptable)

Next == Accept \/ Adopt \/ Darken \/ Tear

Spec == Init /\ [][Next]_config

(* What a reader of the code may rely on: what is served was accepted, and *)
(* unless a change was interrupted it is what is on disk, which a server   *)
(* can be started with.                                                    *)
Sound ==
  /\ served # Dark => served \in Acceptable
  /\ ~torn => stored \in Acceptable /\ served \in {stored, Dark}
=============================================================================
