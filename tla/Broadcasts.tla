----------------------------- MODULE Broadcasts -----------------------------
(***************************************************************************)
(* What HLS playback promises of its FFmpeg processes and of the clients   *)
(* that wait for a playlist, without saying how: no books, no lock, no     *)
(* monitor, no clock.                                                      *)
(***************************************************************************)
EXTENDS Naturals

CONSTANTS Clients, Sessions, NoSession

VARIABLES
    launched,   \* how many processes were launched; each is known by its number
    process,    \* of each session, the processes not waited for yet
    playlist,   \* the process that wrote the playlist of a session, 0 for none
    waits       \* what each client waits for, and whether that has failed

vars == <<launched, process, playlist, waits>>

NoWait == [session |-> NoSession, run |-> 0, state |-> "none"]

Init ==
    /\ launched = 0
    /\ process = [s \in Sessions |-> {}]
    /\ playlist = [s \in Sessions |-> 0]
    /\ waits = [c \in Clients |-> NoWait]

\* A client launches a process: the one before is gone, and so is its playlist.
Launch(c, s) ==
    /\ waits[c] = NoWait
    /\ launched' = launched + 1
    /\ process' = [process EXCEPT ![s] = {launched'}]
    /\ playlist' = [playlist EXCEPT ![s] = 0]
    /\ waits' = [waits EXCEPT ![c] =
                   [session |-> s, run |-> launched', state |-> "waiting"]]

\* A client waits for the process that is there.
Join(c, s) ==
    /\ waits[c] = NoWait
    /\ \E r \in process[s] :
         waits' = [waits EXCEPT ![c] =
                     [session |-> s, run |-> r, state |-> "waiting"]]
    /\ UNCHANGED <<launched, process, playlist>>

\* The playlist of a session is written by its process.
Publish(s) ==
    /\ \E r \in process[s] : playlist' = [playlist EXCEPT ![s] = r]
    /\ UNCHANGED <<launched, process, waits>>

\* A client is answered with the playlist of the process it waited for, or of
\* a later one.
Answer(c) ==
    LET wait == waits[c] IN
    /\ wait.state = "waiting"
    /\ playlist[wait.session] >= wait.run
    /\ waits' = [waits EXCEPT ![c] = NoWait]
    /\ UNCHANGED <<launched, process, playlist>>

\* A wait fails: the process ended, perhaps noticed only now, or took too long.
Fail(c) ==
    LET s == waits[c].session IN
    /\ waits[c].state = "waiting"
    /\ waits' = [waits EXCEPT ![c].state = "failed"]
    /\ process' \in {process, [process EXCEPT ![s] = {}]}
    /\ UNCHANGED <<launched, playlist>>

\* The session of a failed wait is stopped before the client goes on.
GiveUp(c) ==
    LET s == waits[c].session IN
    /\ waits[c].state = "failed"
    /\ waits' = [waits EXCEPT ![c] = NoWait]
    /\ process' = [process EXCEPT ![s] = {}]
    /\ playlist' = [playlist EXCEPT ![s] = 0]
    /\ UNCHANGED launched

\* A session is stopped: its playlist goes, or stays after a process that died.
Stop(s) ==
    /\ process' = [process EXCEPT ![s] = {}]
    /\ playlist' \in {playlist, [playlist EXCEPT ![s] = 0]}
    /\ UNCHANGED <<launched, waits>>

\* Processes that have ended are waited for.
Collect(ended) ==
    /\ process' = [s \in Sessions |-> IF s \in ended THEN {} ELSE process[s]]
    /\ UNCHANGED <<launched, playlist, waits>>

Next ==
    \/ \E ended \in SUBSET Sessions : Collect(ended)
    \/ \E s \in Sessions : Publish(s) \/ Stop(s)
    \/ \E c \in Clients : Answer(c) \/ Fail(c) \/ GiveUp(c)
    \/ \E c \in Clients, s \in Sessions : Launch(c, s) \/ Join(c, s)

Spec == Init /\ [][Next]_vars
=============================================================================
