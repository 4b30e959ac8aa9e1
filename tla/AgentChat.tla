------------------------------- MODULE AgentChat -------------------------------
(***************************************************************************)
(* The modelling conversation of MARS Agent: one chat panel                *)
(* (src/frontend/src/MarsModePanel.tsx) that sends one request at a time,  *)
(* and MarsAgentService (src/backend/app/agent_service.py), which runs     *)
(* every request in a thread of its own on the session object of the       *)
(* conversation.  Only the dictionary of sessions is locked: a panel that  *)
(* gives up after 50 seconds goes on while the server's turn goes on too,  *)
(* and both work on the same object.                                       *)
(*                                                                         *)
(* A message is the number of the turn that brings it; a plan is the turn  *)
(* that made it with the messages it was made from.                        *)
(***************************************************************************)
EXTENDS Naturals, SequencesExt

CONSTANTS
  MaxTurns,  \* bound on the requests of the panel
  Actions,   \* what it may send: "message", "confirm" and "restart"
  None

ASSUME ChatAssumption ==
  /\ MaxTurns \in Nat /\ Actions \subseteq {"message", "confirm", "restart"}
  /\ None \notin 1 .. MaxTurns

VARIABLES
  turn,      \* the requests, in the order in which they were sent
  sessions,  \* _sessions: the session object of each thread, or None
  memory,    \* the session objects
  thread,    \* the panel's threadId
  answers,   \* what the panel shows: the user's turns (None) and the answers
  waiting    \* the request the panel waits for, or None

serverVars == <<sessions, memory>>
panelVars == <<thread, answers, waiting>>
vars == <<turn, serverVars, panelVars>>

Ids == 1..MaxTurns

NewSession == [phase |-> "discovery", tasks |-> None, messages |-> 0, heard |-> {}]

Init ==
  /\ turn = <<>> /\ sessions = [t \in Ids |-> None] /\ memory = [s \in Ids |-> NewSession]
  /\ thread = None /\ answers = <<>> /\ waiting = None

At(n, where) == n \in DOMAIN turn /\ turn[n].at = where
Session(n) == memory[turn[n].session]
Goto(n, where) == turn' = [turn EXCEPT ![n].at = where]
Update(n, s) == memory' = [memory EXCEPT ![turn[n].session] = s]

---------------------------------------------------------------------------
(* The panel. *)

\* Bug: every answer under review has its button, not only the last one.
CanConfirm_Any(i) == answers[i] # None /\ answers[i].phase = "review" /\ answers[i].scene = None

\* The answer i has a button that confirms its plan.
CanConfirm(i) ==
  i = Len(answers) /\ answers[i] # None /\ answers[i].phase = "review" /\ answers[i].scene = None

\* A request; its conversation is a new one until an answer has named it.
Send(action, confirmed) ==
  LET n == Len(turn) + 1
      conversation == IF thread = None THEN n ELSE thread
  IN /\ waiting = None /\ n \in Ids /\ action \in Actions
     /\ turn' = Append(turn,
          [action |-> action, at |-> "sent", thread |-> conversation, session |-> None,
           knows |-> {}, scene |-> None, answer |-> None, confirmed |-> confirmed,
           alone |-> \A m \in DOMAIN turn : turn[m].thread = conversation => turn[m].at = "over"])
     /\ waiting' = n /\ answers' = Append(answers, None)
     /\ UNCHANGED <<serverVars, thread>>

Ask == Send("message", None)
Restart == Send("restart", None)
Confirm == \E i \in DOMAIN answers : CanConfirm(i) /\ Send("confirm", answers[i])

\* After 50 seconds the panel aborts the request; nothing tells the server's turn.
GiveUp ==
  /\ waiting # None /\ waiting' = None
  /\ UNCHANGED <<turn, serverVars, thread, answers>>

---------------------------------------------------------------------------
(* A turn of the server. *)

Lose(n) ==
  /\ At(n, "sent") /\ Goto(n, "over")
  /\ waiting' = IF waiting = n THEN None ELSE waiting
  /\ UNCHANGED <<serverVars, thread, answers>>

\* chat, under the lock: the session is looked up or made.
Enter(n) ==
  /\ At(n, "sent")
  /\ LET t == turn[n].thread
         found == IF turn[n].action = "restart" \/ sessions[t] = None THEN n ELSE sessions[t]
     IN sessions' = [sessions EXCEPT ![t] = found]
        /\ turn' = [turn EXCEPT ![n].at = "entered", ![n].session = found]
  /\ UNCHANGED <<memory, panelVars>>

Hear(n) ==
  /\ At(n, "entered") /\ Goto(n, "routing")
  /\ IF turn[n].action = "message"
     THEN Update(n, [Session(n) EXCEPT !.messages = @ + 1, !.heard = @ \cup {n}])
     ELSE UNCHANGED memory
  /\ UNCHANGED <<sessions, panelVars>>

\* _turn_node: the first message is asked back about, a plan under review is
\* compiled when it is confirmed, anything else is planned.
Discovers(n) ==
  \/ turn[n].action = "restart"
  \/ turn[n].action = "message" /\ Session(n).phase = "discovery" /\ Session(n).messages = 1

Compiles(n) ==
  turn[n].action = "confirm" /\ Session(n).phase = "review" /\ Session(n).tasks # None

Discover(n) ==
  /\ At(n, "routing") /\ Discovers(n)
  /\ Update(n, [Session(n) EXCEPT !.phase = "discovery"]) /\ Goto(n, "answering")
  /\ UNCHANGED <<sessions, panelVars>>

\* The model is asked with the requirements of this moment.
Consult(n) ==
  /\ At(n, "routing") /\ ~Discovers(n) /\ ~Compiles(n)
  /\ turn' = [turn EXCEPT ![n].at = "planning", ![n].knows = Session(n).heard]
  /\ UNCHANGED <<serverVars, panelVars>>

\* Its answer becomes the plan; if there is none, the plan is made here, from the
\* requirements of that moment.
StorePlan(n) ==
  /\ At(n, "planning") /\ Goto(n, "review")
  /\ \E known \in {turn[n].knows, Session(n).heard} :
       Update(n, [Session(n) EXCEPT !.tasks = [by |-> n, from |-> known]])
  /\ UNCHANGED <<sessions, panelVars>>

Review(n) ==
  /\ At(n, "review") /\ Goto(n, "answering")
  /\ Update(n, [Session(n) EXCEPT !.phase = "review", !.messages = @ + 1])
  /\ UNCHANGED <<sessions, panelVars>>

\* The scene is made from the tasks of the session.
Compile(n) ==
  /\ At(n, "routing") /\ Compiles(n)
  /\ turn' = [turn EXCEPT ![n].at = "compiled", ![n].scene = Session(n).tasks]
  /\ UNCHANGED <<serverVars, panelVars>>

\* It cannot be scheduled or is not valid: the request is refused.
CompileRaises(n) ==
  /\ At(n, "compiled") /\ Goto(n, "over")
  /\ waiting' = IF waiting = n THEN None ELSE waiting
  /\ UNCHANGED <<serverVars, thread, answers>>

MarkReady(n) ==
  /\ At(n, "compiled") /\ Goto(n, "answering")
  /\ Update(n, [Session(n) EXCEPT !.phase = "ready"])
  /\ UNCHANGED <<sessions, panelVars>>

\* _response: what the session holds now.
Answer(n) ==
  /\ At(n, "answering")
  /\ turn' = [turn EXCEPT ![n].at = "leaving",
       ![n].answer = [plan |-> Session(n).tasks, phase |-> Session(n).phase,
                      scene |-> turn[n].scene, turn |-> n]]
  /\ UNCHANGED <<serverVars, panelVars>>

\* The session is stored again; the answer reaches the panel if that still waits
\* for it and the connection holds.
Leave(n) ==
  /\ At(n, "leaving") /\ Goto(n, "over")
  /\ sessions' = [sessions EXCEPT ![turn[n].thread] = turn[n].session]
  /\ waiting' = IF waiting = n THEN None ELSE waiting
  /\ \/ UNCHANGED <<thread, answers>>
     \/ waiting = n /\ thread' = turn[n].thread /\ answers' = Append(answers, turn[n].answer)
  /\ UNCHANGED memory

Turn(n) ==
  Lose(n) \/ Enter(n) \/ Hear(n) \/ Discover(n) \/ Consult(n) \/ StorePlan(n) \/ Review(n)
  \/ Compile(n) \/ CompileRaises(n) \/ MarkReady(n) \/ Answer(n) \/ Leave(n)

Next == Ask \/ Restart \/ Confirm \/ GiveUp \/ \E n \in Ids : Turn(n)

Spec == Init /\ [][Next]_vars

---------------------------------------------------------------------------

\* The scenes the panel has received, each with the turn that confirmed it.
Received == {answers[i] : i \in {j \in DOMAIN answers : answers[j] # None /\ answers[j].scene # None}}

\* What is compiled is what the user confirmed: the plan the answer showed whose
\* button was pressed.
ConfirmedIsCompiled == \A a \in Received : a.scene = turn[a.turn].confirmed.plan

\* That is so whenever the user has not gone on while an abandoned turn of the
\* conversation was still at work: losses, refused scenes, model failures, restarts
\* and abandoned turns that end in time do no harm.  And the plan was then made
\* from every message that has reached the session.
CompiledIsAgreed ==
  \A a \in Received :
    LET agreed == turn[a.turn].confirmed
    IN turn[agreed.turn].alone =>
         /\ a.scene = agreed.plan /\ a.plan = agreed.plan
         /\ a.scene.from = {m \in DOMAIN turn : turn[m].session = turn[a.turn].session
                                                /\ turn[m].action = "message" /\ m < a.turn}
=============================================================================
