------------------------- MODULE ReceiverSupervisor -------------------------
(***************************************************************************)
(* The script that runs the receiver and the audio player as one pipeline  *)
(* (deploy/radio-ft8/receive).  Signals and exits of the two come at any   *)
(* moment; a child may ignore SIGTERM.  systemd starts the script again    *)
(* after it ends, which is not modelled, nor is SIGKILL of the script.     *)
(***************************************************************************)
VARIABLES
    stage,    \* where run_pipeline is
    stopped,  \* a signal was handled
    child,    \* what became of each child
    result    \* what is returned: "none", "stopped" (128 + signal) or "failed" (1)

supervisorVars == <<stage, stopped, child, result>>

Children == {"receiver", "audio"}
Alive(c) == child[c] \in {"running", "asked"}

SupervisorTypeOK ==
    /\ stage \in {"begin", "receiver", "audio", "watch", "ask", "wait", "kill", "last", "over"}
    /\ stopped \in BOOLEAN
    /\ child \in [Children -> {"none", "running", "asked", "killed", "exited"}]
    /\ result \in {"none", "stopped", "failed"}
    /\ child["audio"] # "none" => child["receiver"] # "none"

SupervisorInit ==
    /\ stage = "begin" /\ stopped = FALSE /\ child = [c \in Children |-> "none"]
    /\ result = "none"

-----------------------------------------------------------------------------
\* request_stop; before the handlers are there the script dies, without children.
Signal ==
    /\ IF stage = "begin"
       THEN stage' = "over" /\ UNCHANGED stopped
       ELSE stage # "over" /\ stopped' = TRUE /\ UNCHANGED stage
    /\ UNCHANGED <<child, result>>

SetHandlers ==
    /\ stage = "begin" /\ stage' = "receiver"
    /\ UNCHANGED <<stopped, child, result>>

Return(value) == stage' = "ask" /\ result' = value

\* Popen of c, which fails, or goes on to the next stage.
Start(c, next) ==
    \/ child' = [child EXCEPT ![c] = "running"] /\ stage' = next /\ UNCHANGED result
    \/ Return("failed") /\ UNCHANGED child

StartReceiver ==
    /\ stage = "receiver" /\ Start("receiver", "audio")
    /\ UNCHANGED stopped

\* The second child, unless a signal came meanwhile.
StartAudio ==
    /\ stage = "audio"
    /\ IF stopped THEN Return("stopped") /\ UNCHANGED child ELSE Start("audio", "watch")
    /\ UNCHANGED stopped

SomeEnded == \E c \in Children : child[c] = "exited"

\* A turn of the loop.
Watch ==
    /\ stage = "watch"
    /\ \/ stopped /\ Return("stopped")
       \/ ~stopped /\ SomeEnded /\ Return("failed")
    /\ UNCHANGED <<stopped, child>>

\* stop_children: SIGTERM
AskToStop ==
    /\ stage = "ask" /\ stage' = "wait"
    /\ child' = [c \in Children |-> IF child[c] = "running" THEN "asked" ELSE child[c]]
    /\ UNCHANGED <<stopped, result>>

\* wait_for_children: all have ended, or the 3 s have passed.
Wait ==
    /\ stage = "wait" /\ stage' = "kill"
    /\ UNCHANGED <<stopped, child, result>>

\* (mutant) SIGKILL for the receiver only.
KillReceiver == [child EXCEPT !["receiver"] = IF Alive("receiver") THEN "killed" ELSE @]

KillAll == [c \in Children |-> IF Alive(c) THEN "killed" ELSE child[c]]

Kill ==
    /\ stage = "kill" /\ stage' = "last"
    /\ child' = KillAll
    /\ UNCHANGED <<stopped, result>>

\* All have ended, or 1 s has passed.
LastWait ==
    /\ stage = "last" /\ stage' = "over"
    /\ UNCHANGED <<stopped, child, result>>

\* (external) A child ends by itself, or as it is told to.
ChildEnds(c) ==
    /\ child[c] \in {"running", "asked", "killed"}
    /\ child' = [child EXCEPT ![c] = "exited"]
    /\ UNCHANGED <<stage, stopped, result>>

SupervisorStep ==
    \/ SetHandlers \/ StartReceiver \/ StartAudio \/ Watch \/ AskToStop \/ Wait \/ Kill \/ LastWait

SupervisorNext == SupervisorStep \/ Signal \/ \E c \in Children : ChildEnds(c)

\* The script is scheduled, and its waits have deadlines.
SupervisorFairness == WF_supervisorVars(SupervisorStep)

-----------------------------------------------------------------------------
\* When the script has ended, no child is left that was not at least killed, at
\* whatever moment signals came and children ended.
NothingLeftRunning == stage = "over" => \A c \in Children : ~Alive(c)

\* A signal is never lost, and one child that ends takes the other with it.
PipelineEnds ==
    /\ stopped ~> stage = "over"
    /\ \A c \in Children : child[c] = "exited" ~> stage = "over"
=============================================================================
