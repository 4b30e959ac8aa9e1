--------------------------- MODULE AgentChatProofs ---------------------------
(***************************************************************************)
(* Proofs about AgentChat: a scene the panel receives was compiled from    *)
(* the plan whose button was pressed, unless the user had gone on while an *)
(* abandoned turn of the conversation was still at work.                   *)
(*                                                                         *)
(* The property is about answers that have arrived, and three of its       *)
(* actors hold no lock; what makes it inductive is who can still move.     *)
(* The panel waits for its last request only, so an answer with a button   *)
(* is that of the last turn, and the turn that confirms it is the next     *)
(* one.  A session belongs to one conversation.  If the turn that made the *)
(* plan was alone in its conversation when it was sent, it stays alone     *)
(* until a later request is sent, and so does the turn that confirms it as *)
(* long as the panel waits for it: between the two nobody else touches the *)
(* session.                                                                *)
(***************************************************************************)
EXTENDS AgentChat, SequenceTheorems, TLAPS

Stages == {"sent", "entered", "routing", "planning", "review", "compiled", "answering",
           "leaving", "over"}
Phases == {"discovery", "review", "ready"}
Plans == [by : Ids, from : SUBSET Ids]
Replies == [plan : Plans \cup {None}, phase : Phases, scene : Plans \cup {None}, turn : Ids]
Turns == [action : Actions, at : Stages, thread : Ids, session : Ids \cup {None},
          knows : SUBSET Ids, scene : Plans \cup {None}, answer : Replies \cup {None},
          confirmed : Replies \cup {None}, alone : BOOLEAN]
Objects == [phase : Phases, tasks : Plans \cup {None}, messages : Nat, heard : SUBSET Ids]

ChatShape ==
  /\ turn \in Seq(Turns) /\ Len(turn) <= MaxTurns
  /\ sessions \in [Ids -> Ids \cup {None}] /\ memory \in [Ids -> Objects]
  /\ thread \in Ids \cup {None} /\ answers \in Seq(Replies \cup {None})
  /\ waiting \in {None, Len(turn)}

\* A turn has a session from its entry on; the session was made by a turn of the
\* same conversation.
SessionsApart ==
  /\ \A n \in DOMAIN turn :
       /\ turn[n].at = "sent" => turn[n].session = None
       /\ turn[n].session = None => turn[n].at \in {"sent", "over"}
       /\ turn[n].session # None =>
            turn[n].session \in DOMAIN turn /\ turn[turn[n].session].thread = turn[n].thread
  /\ \A t \in Ids : sessions[t] # None =>
       sessions[t] \in DOMAIN turn /\ turn[sessions[t]].thread = t

\* A session has heard the messages of the turns that got that far.
HeardIsReached ==
  \A s \in Ids :
    memory[s].heard = {m \in DOMAIN turn : turn[m].session = s /\ turn[m].action = "message"
                                           /\ turn[m].at # "entered"}

\* Only a confirmed plan is compiled, and the answer says so.
InOrder(n, t) ==
  /\ t.action = "confirm" <=> t.confirmed # None
  /\ t.scene # None => t.action = "confirm"
  /\ t.at \in {"sent", "entered", "routing", "planning", "review"} => t.scene = None
  /\ t.at = "compiled" => t.scene # None
  /\ t.answer # None => /\ t.at \in {"leaving", "over"} /\ t.session # None
                        /\ t.answer.turn = n /\ t.answer.scene = t.scene
  /\ t.at = "leaving" => t.answer \in Replies

TurnsInOrder == \A n \in DOMAIN turn : InOrder(n, turn[n])

\* A turn that was sent alone finds every earlier one of its conversation over.
AloneIsAlone ==
  \A n \in DOMAIN turn : turn[n].alone =>
    \A m \in DOMAIN turn : m < n /\ turn[m].thread = turn[n].thread => turn[m].at = "over"

\* The turn that confirms a plan follows the one that showed it.
ConfirmsLast ==
  \A n \in DOMAIN turn : turn[n].confirmed # None =>
    LET k == turn[n].confirmed.turn
    IN /\ turn[n].confirmed \in Replies
       /\ k \in DOMAIN turn /\ n = k + 1 /\ turn[k].session # None
       /\ turn[n].thread = turn[k].thread
       /\ turn[k].alone => turn[n].alone

\* What the panel shows are answers of turns that are over, the last one that of the
\* last request.
ShownIsOver ==
  /\ \A i \in DOMAIN answers : answers[i] # None =>
       /\ answers[i].turn \in DOMAIN turn /\ turn[answers[i].turn].at = "over"
       /\ answers[i] = turn[answers[i].turn].answer
  /\ answers # <<>> /\ answers[Len(answers)] # None =>
       /\ waiting = None /\ answers[Len(answers)].turn = Len(turn)
       /\ thread = turn[Len(turn)].thread

Complete(p, s) == p.from = memory[s].heard

\* What the last turn has done to its session, if it was sent alone: it is still so.
LastStands ==
  LET n == Len(turn)
      s == turn[n].session
  IN turn # <<>> /\ turn[n].alone =>
       /\ turn[n].at = "planning" => turn[n].knows = memory[s].heard
       /\ turn[n].at = "review" => Complete(memory[s].tasks, s)
       /\ (turn[n].at = "answering" \/ turn[n].answer # None) /\ memory[s].phase = "review" =>
            Complete(memory[s].tasks, s)
       /\ turn[n].answer # None =>
            turn[n].answer.plan = memory[s].tasks /\ turn[n].answer.phase = memory[s].phase
       /\ turn[n].answer # None /\ turn[n].at = "over" => sessions[turn[n].thread] = s

\* The last turn, if it confirms a plan, has that plan before it until it is compiled.
AgreedStands ==
  LET n == Len(turn)
      a == turn[n].confirmed
      s == turn[a.turn].session
  IN turn # <<>> /\ a # None /\ turn[a.turn].alone /\ turn[n].at # "over" =>
       /\ turn[n].at = "sent" => sessions[turn[n].thread] = s
       /\ turn[n].at # "sent" => turn[n].session = s
       /\ turn[n].at \in {"sent", "entered", "routing"} \/ turn[n].scene # None =>
            memory[s].tasks = a.plan /\ Complete(a.plan, s)
       /\ turn[n].scene # None => turn[n].scene = a.plan

ChatInv ==
  /\ ChatShape /\ SessionsApart /\ HeardIsReached /\ TurnsInOrder /\ AloneIsAlone
  /\ ConfirmsLast /\ ShownIsOver /\ LastStands /\ AgreedStands /\ CompiledIsAgreed

---------------------------------------------------------------------------

\* A step of the turn n, which becomes e: whose it is stays, and it touches no
\* session object but its own and no entry but that of its conversation.
Moved(n, e) ==
  /\ n \in DOMAIN turn /\ turn[n].at # "over"
  /\ e \in Turns /\ InOrder(n, e)
  /\ e.action = turn[n].action /\ e.thread = turn[n].thread
  /\ e.confirmed = turn[n].confirmed /\ e.alone = turn[n].alone
  /\ turn[n].session # None => e.session = turn[n].session
  /\ turn' = [turn EXCEPT ![n] = e]
  /\ memory' \in [Ids -> Objects] /\ sessions' \in [Ids -> Ids \cup {None}]
  /\ \A s \in Ids : s # turn[n].session => memory'[s] = memory[s]
  /\ \A t \in Ids : t # turn[n].thread => sessions'[t] = sessions[t]

\* What such a step leaves of every turn.
LEMMA MovedFacts ==
  ASSUME ChatShape, NEW n, NEW e, Moved(n, e)
  PROVE  /\ turn' \in Seq(Turns) /\ Len(turn') = Len(turn) /\ DOMAIN turn' = DOMAIN turn
         /\ DOMAIN turn = 1 .. Len(turn) /\ Len(turn) \in Nat /\ DOMAIN turn \subseteq Ids
         /\ n \in Ids /\ turn'[n] = e /\ \A m \in DOMAIN turn : m # n => turn'[m] = turn[m]
         /\ \A m \in DOMAIN turn :
              /\ turn[m] \in Turns /\ turn'[m] \in Turns
              /\ turn'[m].action = turn[m].action /\ turn'[m].thread = turn[m].thread
              /\ turn'[m].confirmed = turn[m].confirmed /\ turn'[m].alone = turn[m].alone
              /\ turn[m].session # None => turn'[m].session = turn[m].session
              /\ turn[m].at = "over" => turn'[m] = turn[m]
<1>1. /\ turn \in Seq(Turns) /\ n \in DOMAIN turn /\ e \in Turns /\ turn' = [turn EXCEPT ![n] = e]
      /\ Len(turn) <= MaxTurns
  BY DEF Moved, ChatShape
<1>2. /\ turn' \in Seq(Turns) /\ Len(turn') = Len(turn) /\ DOMAIN turn' = DOMAIN turn
      /\ DOMAIN turn = 1 .. Len(turn) /\ Len(turn) \in Nat
      /\ turn'[n] = e /\ \A m \in DOMAIN turn : m # n => turn'[m] = turn[m]
      /\ \A m \in DOMAIN turn : turn[m] \in Turns
  BY <1>1
<1>3. DOMAIN turn \subseteq Ids
  BY <1>1, <1>2, ChatAssumption DEF Ids
<1>4. QED
  BY <1>1, <1>2, <1>3 DEF Moved

\* The order of the turns and who was alone.
LEMMA MovedKeeps ==
  ASSUME ChatInv, NEW n, NEW e, Moved(n, e)
  PROVE  TurnsInOrder' /\ AloneIsAlone' /\ ConfirmsLast'
<1>1. ChatShape /\ TurnsInOrder /\ AloneIsAlone /\ ConfirmsLast
  BY DEF ChatInv
<1>2. TurnsInOrder'
  BY <1>1, MovedFacts DEF TurnsInOrder, Moved, InOrder
<1>3. AloneIsAlone'
  BY <1>1, MovedFacts DEF AloneIsAlone
<1>4. ConfirmsLast'
  BY <1>1, MovedFacts DEF ConfirmsLast
<1>5. QED
  BY <1>2, <1>3, <1>4

\* If another turn than the last moves, it is not of the conversation of the last one
\* if that was sent alone.
LEMMA MovedElsewhere ==
  ASSUME ChatInv, NEW n, NEW e, Moved(n, e), n # Len(turn)
  PROVE  LastStands' /\ AgreedStands'
<1>1. /\ ChatShape /\ SessionsApart /\ AloneIsAlone /\ ConfirmsLast /\ LastStands /\ AgreedStands
  BY DEF ChatInv
<1>2. /\ Len(turn') = Len(turn) /\ Len(turn) \in Nat /\ DOMAIN turn = 1 .. Len(turn)
      /\ DOMAIN turn' = DOMAIN turn /\ DOMAIN turn \subseteq Ids /\ n \in DOMAIN turn
      /\ turn[n].at # "over"
      /\ \A m \in DOMAIN turn : turn[m] \in Turns /\ (m # n => turn'[m] = turn[m])
  BY <1>1, MovedFacts DEF Moved
<1>3. PICK z \in Ids : z = Len(turn) /\ z \in DOMAIN turn /\ n < z /\ turn'[z] = turn[z]
  BY <1>2
<1>4. /\ Len(turn') = z /\ turn # <<>>
  BY <1>2, <1>3
<1>5. turn[z].alone => turn[n].thread # turn[z].thread
  BY <1>1, <1>2, <1>3 DEF AloneIsAlone
<1>6. \A m \in DOMAIN turn : turn[m].thread \in Ids /\ turn[m].session \in Ids \cup {None}
  BY <1>2 DEF Turns
<1>7. \A m \in DOMAIN turn : turn[m].thread # turn[n].thread /\ turn[m].session # None =>
         /\ m # n /\ turn[m].session \in Ids
         /\ memory'[turn[m].session] = memory[turn[m].session]
         /\ sessions'[turn[m].thread] = sessions[turn[m].thread]
  <2> SUFFICES ASSUME NEW m \in DOMAIN turn,
                      turn[m].thread # turn[n].thread, turn[m].session # None
               PROVE  turn[m].session # turn[n].session
    BY <1>6 DEF Moved
  <2>1. turn[turn[m].session].thread = turn[m].thread
    BY <1>1 DEF SessionsApart
  <2>2. turn[n].session # None => turn[turn[n].session].thread = turn[n].thread
    BY <1>1, <1>2 DEF SessionsApart
  <2>3. QED
    BY <2>1, <2>2
<1>8. sessions'[turn[z].thread] = sessions[turn[z].thread] \/ ~turn[z].alone
  BY <1>3, <1>5, <1>6 DEF Moved
<1>9. LastStands'
  <2> SUFFICES ASSUME turn[z].alone
               PROVE  LastStands'
    BY <1>3, <1>4 DEF LastStands
  <2>1. CASE turn[z].session = None
    <3>1. turn[z].at \in {"sent", "over"} /\ turn[z].answer = None
      BY <1>1, <1>3, <2>1 DEF ChatInv, SessionsApart, TurnsInOrder, InOrder
    <3>2. QED
      BY <1>3, <1>4, <3>1 DEF LastStands
  <2>2. CASE turn[z].session # None
    <3>1. memory'[turn[z].session] = memory[turn[z].session]
      BY <1>3, <1>5, <1>7, <2>2
    <3>2. QED
      BY <1>1, <1>3, <1>4, <1>8, <3>1 DEF LastStands, Complete
  <2>3. QED
    BY <2>1, <2>2
<1>10. AgreedStands'
  <2> SUFFICES ASSUME turn[z].confirmed # None, turn'[turn[z].confirmed.turn].alone,
                      turn[z].at # "over"
               PROVE  AgreedStands'
    BY <1>3, <1>4 DEF AgreedStands
  <2>1. PICK k \in DOMAIN turn : k = turn[z].confirmed.turn
    BY <1>1, <1>3 DEF ConfirmsLast
  <2>2. /\ turn[z].thread = turn[k].thread /\ turn[k].session # None
        /\ turn[k].alone => turn[z].alone
    BY <1>1, <1>3, <2>1 DEF ConfirmsLast
  <2>3. turn'[k].alone = turn[k].alone
    BY <1>1, <2>1, MovedFacts
  <2>4. turn[k].alone /\ turn[z].alone
    BY <2>1, <2>2, <2>3
  <2>5. /\ k # n /\ turn'[k] = turn[k] /\ memory'[turn[k].session] = memory[turn[k].session]
        /\ sessions'[turn[z].thread] = sessions[turn[z].thread]
    BY <1>2, <1>3, <1>5, <1>7, <1>8, <2>2, <2>4
  <2>6. QED
    BY <1>1, <1>3, <1>4, <2>1, <2>2, <2>4, <2>5 DEF AgreedStands, Complete
<1>11. QED
  BY <1>9, <1>10

\* What no step takes from the turns there are.
Onward ==
  /\ DOMAIN turn = 1 .. Len(turn) /\ DOMAIN turn' = 1 .. Len(turn')
  /\ Len(turn) \in Nat /\ Len(turn') \in Nat /\ Len(turn) <= Len(turn')
  /\ \A m \in DOMAIN turn :
       /\ turn'[m].action = turn[m].action /\ turn'[m].thread = turn[m].thread
       /\ turn'[m].confirmed = turn[m].confirmed /\ turn'[m].alone = turn[m].alone
       /\ turn[m].session # None => turn'[m].session = turn[m].session
       /\ turn[m].at = "over" => turn'[m] = turn[m]

LEMMA MovedOnward ==
  ASSUME ChatInv, NEW n, NEW e, Moved(n, e)
  PROVE  Onward
BY MovedFacts DEF ChatInv, Onward

\* What the property says of one answer.
AgreedFor(a) ==
  LET agreed == turn[a.turn].confirmed
  IN turn[agreed.turn].alone =>
       /\ a.scene = agreed.plan /\ a.plan = agreed.plan
       /\ a.scene.from = {m \in DOMAIN turn : turn[m].session = turn[a.turn].session
                                              /\ turn[m].action = "message" /\ m < a.turn}

\* An answer with a scene is that of a turn which is over, which confirmed a plan, and
\* which was alone if the turn that made the plan was.
LEMMA ReceivedFacts ==
  ASSUME ChatInv, NEW a \in Received
  PROVE  /\ a # None /\ a.scene # None /\ \E i \in DOMAIN answers : a = answers[i]
         /\ a.turn \in DOMAIN turn /\ turn[a.turn].at = "over"
         /\ a = turn[a.turn].answer /\ turn[a.turn].session # None
         /\ turn[a.turn].confirmed # None
         /\ turn[a.turn].confirmed.turn \in DOMAIN turn
         /\ turn[turn[a.turn].confirmed.turn].alone => turn[a.turn].alone
<1>1. PICK i \in DOMAIN answers : a = answers[i] /\ a # None /\ a.scene # None
  BY DEF Received
<1>2. a.turn \in DOMAIN turn /\ turn[a.turn].at = "over" /\ a = turn[a.turn].answer
  BY <1>1 DEF ChatInv, ShownIsOver
<1>3. InOrder(a.turn, turn[a.turn])
  BY <1>2 DEF ChatInv, TurnsInOrder
<1>4. turn[a.turn].session # None /\ turn[a.turn].confirmed # None
  BY <1>1, <1>2, <1>3 DEF InOrder
<1>5. QED
  BY <1>1, <1>2, <1>4 DEF ChatInv, ConfirmsLast

\* What holds of a received answer stays: who is still at work is of another
\* conversation, and enters another session.
LEMMA ReceivedKept ==
  ASSUME ChatInv, Onward, SessionsApart', NEW a \in Received, AgreedFor(a)
  PROVE  AgreedFor(a)'
<1>1. PICK x \in DOMAIN turn : x = a.turn
  BY ReceivedFacts
<1>2. /\ turn[x].at = "over" /\ turn'[x] = turn[x] /\ turn[x].session # None
      /\ turn[x].confirmed.turn \in DOMAIN turn
      /\ turn[turn[x].confirmed.turn].alone => turn[x].alone
      /\ turn'[turn[x].confirmed.turn].alone = turn[turn[x].confirmed.turn].alone
  BY <1>1, ReceivedFacts DEF Onward
<1> SUFFICES ASSUME turn[turn[x].confirmed.turn].alone
             PROVE  {m \in DOMAIN turn' : turn'[m].session = turn[x].session
                                          /\ turn'[m].action = "message" /\ m < x}
                    = {m \in DOMAIN turn : turn[m].session = turn[x].session
                                           /\ turn[m].action = "message" /\ m < x}
  BY <1>1, <1>2 DEF AgreedFor
<1>3. \A m \in DOMAIN turn' : m < x => m \in DOMAIN turn
  BY DEF Onward
<1>4. x \in DOMAIN turn'
  BY DEF Onward
<1>5. ASSUME NEW m \in DOMAIN turn, m < x
      PROVE  turn'[m].session = turn[x].session <=> turn[m].session = turn[x].session
  <2>1. m \in DOMAIN turn' /\ turn'[m].thread = turn[m].thread
    BY DEF Onward
  <2>2. CASE turn[m].at = "over"
    BY <2>2 DEF Onward
  <2>3. CASE turn[m].at # "over"
    <3>1. turn[m].thread # turn[x].thread
      BY <1>2, <1>5, <2>3 DEF ChatInv, AloneIsAlone
    <3>2. turn[m].session # turn[x].session
      BY <1>2, <3>1 DEF ChatInv, SessionsApart
    <3>3. turn'[m].session # turn'[x].session
      BY <1>2, <1>4, <2>1, <3>1 DEF SessionsApart
    <3>4. QED
      BY <1>2, <3>2, <3>3
  <2>4. QED
    BY <2>2, <2>3
<1>6. QED
  BY <1>3, <1>5 DEF Onward

\* The panel's part of the invariant, when the panel has not moved.
LEMMA PanelQuiet ==
  ASSUME ChatInv, Onward, SessionsApart', Len(turn') = Len(turn),
         UNCHANGED <<answers, thread>>, waiting' \in {waiting, None}
  PROVE  ShownIsOver' /\ CompiledIsAgreed'
<1>1. ShownIsOver /\ ChatShape
  BY DEF ChatInv
<1>2. ShownIsOver'
  <2>1. \A i \in DOMAIN answers : answers[i] # None =>
          /\ answers[i].turn \in DOMAIN turn' /\ turn'[answers[i].turn].at = "over"
          /\ answers[i] = turn'[answers[i].turn].answer
    BY <1>1 DEF ShownIsOver, Onward
  <2>2. answers # <<>> /\ answers[Len(answers)] # None =>
          /\ waiting' = None /\ answers[Len(answers)].turn = Len(turn)
          /\ thread = turn'[Len(turn)].thread
    <3> SUFFICES ASSUME answers # <<>>, answers[Len(answers)] # None
                 PROVE  /\ waiting' = None /\ answers[Len(answers)].turn = Len(turn)
                        /\ thread = turn'[Len(turn)].thread
      OBVIOUS
    <3>1. Len(answers) \in DOMAIN answers
      BY <1>1 DEF ChatShape
    <3>2. QED
      BY <1>1, <3>1 DEF ShownIsOver, Onward
  <2>3. QED
    BY <2>1, <2>2 DEF ShownIsOver
<1>3. CompiledIsAgreed'
  <2> SUFFICES ASSUME NEW a \in Received'
               PROVE  AgreedFor(a)'
    BY DEF CompiledIsAgreed, AgreedFor
  <2>1. a \in Received
    BY DEF Received
  <2>2. AgreedFor(a)
    BY <2>1 DEF ChatInv, CompiledIsAgreed, AgreedFor
  <2>3. QED
    BY <2>1, <2>2, ReceivedKept
<1>4. QED
  BY <1>2, <1>3

---------------------------------------------------------------------------

\* What LastStands and AgreedStands say of a turn t, its session object o and the
\* answer a it confirms.
Standing(t, o) ==
  t.alone =>
    /\ t.at = "planning" => t.knows = o.heard
    /\ t.at = "review" => o.tasks.from = o.heard
    /\ (t.at = "answering" \/ t.answer # None) /\ o.phase = "review" => o.tasks.from = o.heard
    /\ t.answer # None => t.answer.plan = o.tasks /\ t.answer.phase = o.phase

Before(t, o, a) ==
  /\ t.at \in {"entered", "routing"} \/ t.scene # None =>
       o.tasks = a.plan /\ a.plan.from = o.heard
  /\ t.scene # None => t.scene = a.plan

\* A turn at work has a session.
LEMMA Acting ==
  ASSUME ChatInv, NEW n \in DOMAIN turn, turn[n].at \notin {"sent", "over"}
  PROVE  /\ turn[n] \in Turns /\ turn[n].session \in Ids /\ memory[turn[n].session] \in Objects
         /\ InOrder(n, turn[n]) /\ n \in Ids
<1>1. turn[n] \in Turns /\ n \in Ids
  BY ChatAssumption DEF ChatInv, ChatShape, Ids
<1>2. turn[n].session \in Ids
  BY <1>1 DEF ChatInv, SessionsApart, Turns
<1>3. QED
  BY <1>1, <1>2 DEF ChatInv, ChatShape, TurnsInOrder

\* For these two parts it is enough to look at the turn that moves.
LEMMA LastMoved ==
  ASSUME ChatInv, NEW n, NEW e, Moved(n, e), turn[n].at # "sent", e.at # "sent",
         e.at = "over" => e.answer = None,
         Standing(turn[n], memory[turn[n].session]) => Standing(e, memory'[turn[n].session]),
         \A a \in Replies : e.at # "over" /\ Before(turn[n], memory[turn[n].session], a) =>
                            Before(e, memory'[turn[n].session], a)
  PROVE  LastStands' /\ AgreedStands'
<1>1. /\ n \in DOMAIN turn /\ turn[n].at # "over" /\ e.alone = turn[n].alone
      /\ e.confirmed = turn[n].confirmed
  BY DEF Moved
<1>2. turn[n].session \in Ids /\ turn[n].session # None
  BY <1>1, Acting, ChatAssumption DEF Ids
<1>3. e.session = turn[n].session
  BY <1>2 DEF Moved
<1>4. SUFFICES ASSUME n = Len(turn)
               PROVE  LastStands' /\ AgreedStands'
  BY MovedElsewhere
<1>5. Len(turn') = n /\ turn'[n] = e /\ turn # <<>> /\ turn' # <<>>
  BY <1>1, <1>4, MovedFacts DEF ChatInv, ChatShape
<1>6. LastStands'
  <2> SUFFICES ASSUME e.alone
               PROVE  LastStands'
    BY <1>5 DEF LastStands
  <2>1. Standing(turn[n], memory[turn[n].session])
    BY <1>1, <1>4, <1>5 DEF ChatInv, LastStands, Complete, Standing
  <2>2. Standing(e, memory'[turn[n].session])
    BY <2>1
  <2>3. QED
    BY <1>3, <1>5, <2>2 DEF LastStands, Complete, Standing
<1>7. AgreedStands'
  <2> SUFFICES ASSUME e.confirmed # None, turn'[e.confirmed.turn].alone, e.at # "over"
               PROVE  AgreedStands'
    BY <1>5 DEF AgreedStands
  <2>1. PICK a \in Replies : a = turn[n].confirmed
    BY <1>1 DEF ChatInv, ConfirmsLast
  <2>2. PICK k \in DOMAIN turn : k = a.turn /\ k # n /\ turn[k].session # None
    BY <1>1, <2>1, MovedFacts DEF ChatInv, ConfirmsLast
  <2>3. turn'[k] = turn[k]
    BY <2>2, MovedFacts DEF ChatInv
  <2>4. turn[k].alone
    BY <1>1, <2>1, <2>2, <2>3
  <2>5. turn[n].session = turn[k].session /\ Before(turn[n], memory[turn[n].session], a)
    BY <1>1, <1>4, <1>5, <2>1, <2>2, <2>4 DEF ChatInv, AgreedStands, Before, Complete
  <2>6. Before(e, memory'[turn[n].session], a)
    BY <2>5
  <2>7. QED
    BY <1>1, <1>3, <1>5, <2>1, <2>2, <2>3, <2>5, <2>6 DEF AgreedStands, Before, Complete
<1>8. QED
  BY <1>6, <1>7

\* A step that makes no session, brings no message and shows nothing.
LEMMA QuietInv ==
  ASSUME ChatInv, NEW n, NEW e, Moved(n, e), LastStands', AgreedStands',
         e.session = turn[n].session, e.at \notin {"sent", "entered"},
         e.session = None => e.at = "over",
         turn[n].at # "entered", \A s \in Ids : memory'[s].heard = memory[s].heard,
         UNCHANGED <<sessions, answers, thread>>, waiting' \in {waiting, None}
  PROVE  ChatInv'
<1>1. ChatShape /\ SessionsApart /\ HeardIsReached
  BY DEF ChatInv
<1>2. ChatShape'
  BY <1>1, MovedFacts DEF ChatShape, Moved
<1>3. \A m \in DOMAIN turn : /\ turn'[m].session = turn[m].session
                             /\ turn'[m].thread = turn[m].thread
                             /\ turn'[m].action = turn[m].action
                             /\ turn'[m].at = "entered" <=> turn[m].at = "entered"
                             /\ turn'[m].at = "sent" => turn[m].at = "sent"
  BY <1>1, MovedFacts
<1>4. DOMAIN turn' = DOMAIN turn
  BY <1>1, MovedFacts
<1>5. SessionsApart'
  <2>1. \A m \in DOMAIN turn :
          turn'[m].session = None => turn'[m].at \in {"sent", "over"}
    BY <1>1, MovedFacts DEF SessionsApart
  <2>2. \A m \in DOMAIN turn :
          turn'[m].session # None =>
            turn'[m].session \in DOMAIN turn /\ turn'[turn'[m].session].thread = turn'[m].thread
    BY <1>1, <1>3 DEF SessionsApart
  <2>3. QED
    BY <1>1, <1>3, <1>4, <2>1, <2>2 DEF SessionsApart
<1>6. HeardIsReached'
  BY <1>1, <1>3, <1>4 DEF HeardIsReached
<1>7. ShownIsOver' /\ CompiledIsAgreed'
  BY <1>1, <1>5, MovedOnward, MovedFacts, PanelQuiet
<1>8. QED
  BY <1>2, <1>5, <1>6, <1>7, MovedKeeps DEF ChatInv

\* A turn that becomes e and leaves its session object as o.
LEMMA WorkInv ==
  ASSUME ChatInv, NEW n \in DOMAIN turn, NEW e \in Turns, NEW o \in Objects,
         turn[n].at \notin {"sent", "entered", "over"}, e.at \notin {"sent", "entered"},
         e.action = turn[n].action, e.thread = turn[n].thread, e.session = turn[n].session,
         e.confirmed = turn[n].confirmed, e.alone = turn[n].alone,
         InOrder(n, turn[n]) => InOrder(n, e), e.at = "over" => e.answer = None,
         turn' = [turn EXCEPT ![n] = e], memory' = [memory EXCEPT ![turn[n].session] = o],
         o.heard = memory[turn[n].session].heard,
         Standing(turn[n], memory[turn[n].session]) => Standing(e, o),
         \A a \in Replies : e.at # "over" /\ Before(turn[n], memory[turn[n].session], a) =>
                            Before(e, o, a),
         UNCHANGED <<sessions, answers, thread>>, waiting' \in {waiting, None}
  PROVE  ChatInv'
<1>1. turn[n].session \in Ids /\ InOrder(n, turn[n]) /\ ChatShape /\ None \notin Ids
  BY Acting, ChatAssumption DEF ChatInv, Ids
<1>2. memory' \in [Ids -> Objects] /\ sessions' \in [Ids -> Ids \cup {None}]
  BY <1>1 DEF ChatShape
<1>3. /\ \A s \in Ids : s # turn[n].session => memory'[s] = memory[s]
      /\ memory'[turn[n].session] = o
  BY <1>1 DEF ChatShape
<1>4. Moved(n, e)
  BY <1>1, <1>2, <1>3 DEF Moved
<1>5. LastStands' /\ AgreedStands'
  BY <1>3, <1>4, LastMoved
<1>6. \A s \in Ids : memory'[s].heard = memory[s].heard
  BY <1>3
<1>7. QED
  BY <1>1, <1>4, <1>5, <1>6, QuietInv

\* The question asked back at the first message.
LEMMA DiscoverInv ==
  ASSUME ChatInv, NEW n \in Ids, Discover(n)
  PROVE  ChatInv'
<1>1. n \in DOMAIN turn /\ turn[n].at = "routing" /\ Discovers(n)
  BY DEF Discover, At
<1>2. turn[n] \in Turns /\ memory[turn[n].session] \in Objects /\ InOrder(n, turn[n])
  BY <1>1, Acting
<1>3. PICK e : e = [turn[n] EXCEPT !.at = "answering"]
  OBVIOUS
<1>4. PICK o : o = [memory[turn[n].session] EXCEPT !.phase = "discovery"]
  OBVIOUS
<1>5. /\ e \in Turns /\ e.action = turn[n].action /\ e.at = "answering" /\ e.thread = turn[n].thread
      /\ e.session = turn[n].session /\ e.knows = turn[n].knows /\ e.scene = turn[n].scene
      /\ e.answer = turn[n].answer /\ e.confirmed = turn[n].confirmed /\ e.alone = turn[n].alone
  BY <1>2, <1>3 DEF Turns, Stages
<1>6. /\ o \in Objects /\ o.phase = "discovery" /\ o.tasks = memory[turn[n].session].tasks
      /\ o.heard = memory[turn[n].session].heard
  BY <1>2, <1>4 DEF Objects, Phases
<1>7. /\ turn' = [turn EXCEPT ![n] = e] /\ memory' = [memory EXCEPT ![turn[n].session] = o]
      /\ UNCHANGED <<sessions, answers, thread, waiting>>
  BY <1>3, <1>4 DEF Discover, Update, Goto, Session, panelVars
<1>8. InOrder(n, e) /\ turn[n].answer = None /\ turn[n].scene = None
  BY <1>1, <1>2, <1>5 DEF InOrder
<1>9. QED
  BY <1>1, <1>5, <1>6, <1>7, <1>8, WorkInv DEF Standing, Before

\* The call of the model.
LEMMA ConsultInv ==
  ASSUME ChatInv, NEW n \in Ids, Consult(n)
  PROVE  ChatInv'
<1>1. n \in DOMAIN turn /\ turn[n].at = "routing"
  BY DEF Consult, At
<1>2. /\ turn[n] \in Turns /\ turn[n].session \in Ids /\ memory[turn[n].session] \in Objects
      /\ InOrder(n, turn[n]) /\ memory \in [Ids -> Objects]
  BY <1>1, Acting DEF ChatInv, ChatShape
<1>3. PICK e : e = [turn[n] EXCEPT !.at = "planning", !.knows = Session(n).heard]
  OBVIOUS
<1>4. PICK o \in Objects : o = memory[turn[n].session]
  BY <1>2
<1>5. /\ e \in Turns /\ e.action = turn[n].action /\ e.at = "planning" /\ e.thread = turn[n].thread
      /\ e.session = turn[n].session /\ e.knows = o.heard /\ e.scene = turn[n].scene
      /\ e.answer = turn[n].answer /\ e.confirmed = turn[n].confirmed /\ e.alone = turn[n].alone
  BY <1>2, <1>3, <1>4 DEF Turns, Stages, Objects, Session
<1>6. /\ turn' = [turn EXCEPT ![n] = e] /\ memory' = [memory EXCEPT ![turn[n].session] = o]
      /\ UNCHANGED <<sessions, answers, thread, waiting>>
  BY <1>2, <1>3, <1>4 DEF Consult, serverVars, panelVars
<1>7. InOrder(n, e) /\ turn[n].answer = None /\ turn[n].scene = None
  BY <1>1, <1>2, <1>5 DEF InOrder
<1>8. Standing(e, o) /\ \A a \in Replies : Before(e, o, a)
  BY <1>5, <1>7 DEF Standing, Before
<1>9. QED
  BY <1>1, <1>4, <1>5, <1>6, <1>7, <1>8, WorkInv

\* The plan, which is the session's.
LEMMA StorePlanInv ==
  ASSUME ChatInv, NEW n \in Ids, StorePlan(n)
  PROVE  ChatInv'
<1>1. n \in DOMAIN turn /\ turn[n].at = "planning"
  BY DEF StorePlan, At
<1>2. turn[n] \in Turns /\ memory[turn[n].session] \in Objects /\ InOrder(n, turn[n])
  BY <1>1, Acting
<1>3. PICK known \in {turn[n].knows, Session(n).heard} :
        Update(n, [Session(n) EXCEPT !.tasks = [by |-> n, from |-> known]])
  BY DEF StorePlan
<1>4. PICK e : e = [turn[n] EXCEPT !.at = "review"]
  OBVIOUS
<1>5. PICK o : o = [memory[turn[n].session] EXCEPT !.tasks = [by |-> n, from |-> known]]
  OBVIOUS
<1>6. /\ e \in Turns /\ e.action = turn[n].action /\ e.at = "review" /\ e.thread = turn[n].thread
      /\ e.session = turn[n].session /\ e.knows = turn[n].knows /\ e.scene = turn[n].scene
      /\ e.answer = turn[n].answer /\ e.confirmed = turn[n].confirmed /\ e.alone = turn[n].alone
  BY <1>2, <1>4 DEF Turns, Stages
<1>7. known \in SUBSET Ids
  BY <1>2, <1>3 DEF Turns, Objects, Session
<1>8. /\ o \in Objects /\ o.phase = memory[turn[n].session].phase /\ o.tasks.from = known
      /\ o.heard = memory[turn[n].session].heard
  <2>1. [by |-> n, from |-> known] \in Plans
    BY <1>7 DEF Plans
  <2>2. QED
    BY <1>2, <1>5, <2>1 DEF Objects
<1>9. /\ turn' = [turn EXCEPT ![n] = e] /\ memory' = [memory EXCEPT ![turn[n].session] = o]
      /\ UNCHANGED <<sessions, answers, thread, waiting>>
  BY <1>3, <1>4, <1>5 DEF StorePlan, Update, Goto, Session, panelVars
<1>10. InOrder(n, e) /\ turn[n].answer = None /\ turn[n].scene = None
  BY <1>1, <1>2, <1>6 DEF InOrder
<1>11. Standing(turn[n], memory[turn[n].session]) => Standing(e, o)
  BY <1>1, <1>3, <1>6, <1>8, <1>10 DEF Standing, Session
<1>12. \A a \in Replies : Before(e, o, a)
  BY <1>6, <1>10 DEF Before
<1>13. QED
  BY <1>1, <1>6, <1>8, <1>9, <1>10, <1>11, <1>12, WorkInv

\* The plan is put under review.
LEMMA ReviewInv ==
  ASSUME ChatInv, NEW n \in Ids, Review(n)
  PROVE  ChatInv'
<1>1. n \in DOMAIN turn /\ turn[n].at = "review"
  BY DEF Review, At
<1>2. turn[n] \in Turns /\ memory[turn[n].session] \in Objects /\ InOrder(n, turn[n])
  BY <1>1, Acting
<1>3. PICK e : e = [turn[n] EXCEPT !.at = "answering"]
  OBVIOUS
<1>4. PICK o : o = [memory[turn[n].session] EXCEPT !.phase = "review", !.messages = @ + 1]
  OBVIOUS
<1>5. /\ e \in Turns /\ e.action = turn[n].action /\ e.at = "answering" /\ e.thread = turn[n].thread
      /\ e.session = turn[n].session /\ e.knows = turn[n].knows /\ e.scene = turn[n].scene
      /\ e.answer = turn[n].answer /\ e.confirmed = turn[n].confirmed /\ e.alone = turn[n].alone
  BY <1>2, <1>3 DEF Turns, Stages
<1>6. /\ o \in Objects /\ o.tasks = memory[turn[n].session].tasks
      /\ o.heard = memory[turn[n].session].heard
  <2>1. PICK c \in Nat : c = memory[turn[n].session].messages + 1
    BY <1>2 DEF Objects
  <2>2. o = [memory[turn[n].session] EXCEPT !.phase = "review", !.messages = c]
    BY <1>2, <1>4, <2>1 DEF Objects
  <2>3. QED
    BY <1>2, <2>2 DEF Objects, Phases
<1>7. /\ turn' = [turn EXCEPT ![n] = e] /\ memory' = [memory EXCEPT ![turn[n].session] = o]
      /\ UNCHANGED <<sessions, answers, thread, waiting>>
  BY <1>3, <1>4 DEF Review, Update, Goto, Session, panelVars
<1>8. InOrder(n, e) /\ turn[n].answer = None /\ turn[n].scene = None
  BY <1>1, <1>2, <1>5 DEF InOrder
<1>9. Standing(turn[n], memory[turn[n].session]) => Standing(e, o)
  BY <1>1, <1>5, <1>6, <1>8 DEF Standing
<1>10. \A a \in Replies : Before(e, o, a)
  BY <1>5, <1>8 DEF Before
<1>11. QED
  BY <1>1, <1>5, <1>6, <1>7, <1>8, <1>9, <1>10, WorkInv

\* The scene of the tasks the session holds.
LEMMA CompileInv ==
  ASSUME ChatInv, NEW n \in Ids, Compile(n)
  PROVE  ChatInv'
<1>1. n \in DOMAIN turn /\ turn[n].at = "routing" /\ Compiles(n)
  BY DEF Compile, At
<1>2. /\ turn[n] \in Turns /\ turn[n].session \in Ids /\ memory[turn[n].session] \in Objects
      /\ InOrder(n, turn[n]) /\ memory \in [Ids -> Objects]
  BY <1>1, Acting DEF ChatInv, ChatShape
<1>3. PICK e : e = [turn[n] EXCEPT !.at = "compiled", !.scene = Session(n).tasks]
  OBVIOUS
<1>4. PICK o \in Objects : o = memory[turn[n].session]
  BY <1>2
<1>5. o.tasks # None /\ o.tasks \in Plans \cup {None} /\ turn[n].action = "confirm"
  BY <1>1, <1>4 DEF Compiles, Session, Objects
<1>6. /\ e \in Turns /\ e.action = turn[n].action /\ e.at = "compiled" /\ e.thread = turn[n].thread
      /\ e.session = turn[n].session /\ e.knows = turn[n].knows /\ e.scene = o.tasks
      /\ e.answer = turn[n].answer /\ e.confirmed = turn[n].confirmed /\ e.alone = turn[n].alone
  BY <1>2, <1>3, <1>4, <1>5 DEF Turns, Stages, Session
<1>7. /\ turn' = [turn EXCEPT ![n] = e] /\ memory' = [memory EXCEPT ![turn[n].session] = o]
      /\ UNCHANGED <<sessions, answers, thread, waiting>>
  BY <1>2, <1>3, <1>4 DEF Compile, serverVars, panelVars
<1>8. InOrder(n, e) /\ turn[n].answer = None
  BY <1>1, <1>2, <1>5, <1>6 DEF InOrder
<1>9. Standing(e, o)
  BY <1>6, <1>8 DEF Standing
<1>10. \A a \in Replies : Before(turn[n], o, a) => Before(e, o, a)
  BY <1>1, <1>6 DEF Before
<1>11. QED
  BY <1>1, <1>4, <1>6, <1>7, <1>8, <1>9, <1>10, WorkInv

\* The scene is made.
LEMMA MarkReadyInv ==
  ASSUME ChatInv, NEW n \in Ids, MarkReady(n)
  PROVE  ChatInv'
<1>1. n \in DOMAIN turn /\ turn[n].at = "compiled"
  BY DEF MarkReady, At
<1>2. turn[n] \in Turns /\ memory[turn[n].session] \in Objects /\ InOrder(n, turn[n])
  BY <1>1, Acting
<1>3. PICK e : e = [turn[n] EXCEPT !.at = "answering"]
  OBVIOUS
<1>4. PICK o : o = [memory[turn[n].session] EXCEPT !.phase = "ready"]
  OBVIOUS
<1>5. /\ e \in Turns /\ e.action = turn[n].action /\ e.at = "answering" /\ e.thread = turn[n].thread
      /\ e.session = turn[n].session /\ e.knows = turn[n].knows /\ e.scene = turn[n].scene
      /\ e.answer = turn[n].answer /\ e.confirmed = turn[n].confirmed /\ e.alone = turn[n].alone
  BY <1>2, <1>3 DEF Turns, Stages
<1>6. /\ o \in Objects /\ o.phase = "ready" /\ o.tasks = memory[turn[n].session].tasks
      /\ o.heard = memory[turn[n].session].heard
  BY <1>2, <1>4 DEF Objects, Phases
<1>7. /\ turn' = [turn EXCEPT ![n] = e] /\ memory' = [memory EXCEPT ![turn[n].session] = o]
      /\ UNCHANGED <<sessions, answers, thread, waiting>>
  BY <1>3, <1>4 DEF MarkReady, Update, Goto, Session, panelVars
<1>8. InOrder(n, e) /\ turn[n].answer = None /\ turn[n].scene # None
  BY <1>1, <1>2, <1>5 DEF InOrder
<1>9. Standing(e, o)
  BY <1>5, <1>6, <1>8 DEF Standing
<1>10. \A a \in Replies : Before(turn[n], memory[turn[n].session], a) => Before(e, o, a)
  BY <1>5, <1>6, <1>8 DEF Before
<1>11. QED
  BY <1>1, <1>5, <1>6, <1>7, <1>8, <1>9, <1>10, WorkInv

\* The scene is refused.
LEMMA CompileRaisesInv ==
  ASSUME ChatInv, NEW n \in Ids, CompileRaises(n)
  PROVE  ChatInv'
<1>1. n \in DOMAIN turn /\ turn[n].at = "compiled"
  BY DEF CompileRaises, At
<1>2. /\ turn[n] \in Turns /\ turn[n].session \in Ids /\ memory[turn[n].session] \in Objects
      /\ InOrder(n, turn[n]) /\ memory \in [Ids -> Objects]
  BY <1>1, Acting DEF ChatInv, ChatShape
<1>3. PICK e : e = [turn[n] EXCEPT !.at = "over"]
  OBVIOUS
<1>4. PICK o \in Objects : o = memory[turn[n].session]
  BY <1>2
<1>5. /\ e \in Turns /\ e.action = turn[n].action /\ e.at = "over" /\ e.thread = turn[n].thread
      /\ e.session = turn[n].session /\ e.knows = turn[n].knows /\ e.scene = turn[n].scene
      /\ e.answer = turn[n].answer /\ e.confirmed = turn[n].confirmed /\ e.alone = turn[n].alone
  BY <1>2, <1>3 DEF Turns, Stages
<1>6. /\ turn' = [turn EXCEPT ![n] = e] /\ memory' = [memory EXCEPT ![turn[n].session] = o]
      /\ UNCHANGED <<sessions, answers, thread>> /\ waiting' \in {waiting, None}
  BY <1>2, <1>3, <1>4 DEF CompileRaises, Goto, serverVars
<1>7. InOrder(n, e) /\ e.answer = None
  BY <1>1, <1>2, <1>5 DEF InOrder
<1>8. Standing(e, o)
  BY <1>5, <1>7 DEF Standing
<1>9. QED
  BY <1>1, <1>4, <1>5, <1>6, <1>7, <1>8, WorkInv

\* The answer says what the session holds.
LEMMA AnswerInv ==
  ASSUME ChatInv, NEW n \in Ids, Answer(n)
  PROVE  ChatInv'
<1>1. n \in DOMAIN turn /\ turn[n].at = "answering"
  BY DEF Answer, At
<1>2. /\ turn[n] \in Turns /\ turn[n].session \in Ids /\ memory[turn[n].session] \in Objects
      /\ InOrder(n, turn[n]) /\ memory \in [Ids -> Objects] /\ None \notin Ids
  BY <1>1, Acting, ChatAssumption DEF ChatInv, ChatShape, Ids
<1>3. PICK o \in Objects : o = memory[turn[n].session]
  BY <1>2
<1>4. PICK p : p = [plan |-> Session(n).tasks, phase |-> Session(n).phase,
                    scene |-> turn[n].scene, turn |-> n]
  OBVIOUS
<1>5. /\ p \in Replies /\ p.plan = o.tasks /\ p.phase = o.phase /\ p.scene = turn[n].scene
      /\ p.turn = n
  BY <1>2, <1>3, <1>4 DEF Replies, Turns, Objects, Session
<1>6. PICK e : e = [turn[n] EXCEPT !.at = "leaving", !.answer = p]
  OBVIOUS
<1>7. /\ e \in Turns /\ e.action = turn[n].action /\ e.at = "leaving" /\ e.thread = turn[n].thread
      /\ e.session = turn[n].session /\ e.knows = turn[n].knows /\ e.scene = turn[n].scene
      /\ e.answer = p /\ e.confirmed = turn[n].confirmed /\ e.alone = turn[n].alone
  BY <1>2, <1>5, <1>6 DEF Turns, Stages
<1>8. /\ turn' = [turn EXCEPT ![n] = e] /\ memory' = [memory EXCEPT ![turn[n].session] = o]
      /\ UNCHANGED <<sessions, answers, thread, waiting>>
  BY <1>2, <1>3, <1>4, <1>6 DEF Answer, serverVars, panelVars
<1>9. InOrder(n, e) /\ turn[n].answer = None
  BY <1>1, <1>2, <1>5, <1>7 DEF InOrder
<1>10. Standing(turn[n], o) => Standing(e, o)
  BY <1>1, <1>5, <1>7, <1>9 DEF Standing
<1>11. \A a \in Replies : Before(turn[n], o, a) => Before(e, o, a)
  BY <1>7 DEF Before
<1>12. QED
  BY <1>1, <1>3, <1>7, <1>8, <1>9, <1>10, <1>11, WorkInv

\* The message is heard by the session it has reached.
LEMMA HearInv ==
  ASSUME ChatInv, NEW n \in Ids, Hear(n)
  PROVE  ChatInv'
<1>1. n \in DOMAIN turn /\ turn[n].at = "entered"
  BY DEF Hear, At
<1>2. /\ turn[n] \in Turns /\ turn[n].session \in Ids /\ memory[turn[n].session] \in Objects
      /\ InOrder(n, turn[n]) /\ memory \in [Ids -> Objects] /\ None \notin Ids /\ ChatShape
  BY <1>1, Acting, ChatAssumption DEF ChatInv, ChatShape, Ids
<1>3. PICK e : e = [turn[n] EXCEPT !.at = "routing"]
  OBVIOUS
<1>4. PICK o : o = IF turn[n].action = "message"
                   THEN [Session(n) EXCEPT !.messages = @ + 1, !.heard = @ \cup {n}]
                   ELSE Session(n)
  OBVIOUS
<1>5. /\ e \in Turns /\ e.action = turn[n].action /\ e.at = "routing" /\ e.thread = turn[n].thread
      /\ e.session = turn[n].session /\ e.knows = turn[n].knows /\ e.scene = turn[n].scene
      /\ e.answer = turn[n].answer /\ e.confirmed = turn[n].confirmed /\ e.alone = turn[n].alone
  BY <1>2, <1>3 DEF Turns, Stages
<1>6. /\ o \in Objects /\ o.tasks = Session(n).tasks
      /\ o.heard = Session(n).heard \cup (IF turn[n].action = "message" THEN {n} ELSE {})
  <2>1. PICK c \in Nat : c = Session(n).messages + 1
    BY <1>2 DEF Objects, Session
  <2>2. PICK h \in SUBSET Ids : h = Session(n).heard \cup {n}
    BY <1>2 DEF Objects, Session
  <2>3. turn[n].action = "message" => o = [Session(n) EXCEPT !.messages = c, !.heard = h]
    BY <1>2, <1>4, <2>1, <2>2 DEF Objects, Session
  <2>4. QED
    BY <1>2, <1>4, <2>2, <2>3 DEF Objects, Session
<1>7. /\ turn' = [turn EXCEPT ![n] = e] /\ memory' = [memory EXCEPT ![turn[n].session] = o]
      /\ UNCHANGED <<sessions, answers, thread, waiting>>
  BY <1>2, <1>3, <1>4 DEF Hear, Update, Goto, Session, panelVars
<1>8. InOrder(n, e) /\ turn[n].answer = None /\ turn[n].scene = None
  BY <1>1, <1>2, <1>5 DEF InOrder
<1>9. /\ memory' \in [Ids -> Objects] /\ memory'[turn[n].session] = o
      /\ \A s \in Ids : s # turn[n].session => memory'[s] = memory[s]
  BY <1>2, <1>6, <1>7
<1>10. Moved(n, e)
  BY <1>1, <1>2, <1>5, <1>7, <1>8, <1>9 DEF Moved, ChatShape
<1>11. LastStands' /\ AgreedStands'
  <2>1. Standing(e, o)
    BY <1>5, <1>8 DEF Standing
  <2>2. turn[n].confirmed # None => turn[n].action # "message"
    BY <1>2 DEF InOrder
  <2>3. CASE n # Len(turn)
    BY <1>10, <2>3, MovedElsewhere
  <2>4. CASE turn[n].action = "message"
    <3>1. LastStands'
      BY <1>1, <1>5, <1>8, <1>10, MovedFacts, <1>2, <2>3 DEF LastStands
    <3>2. AgreedStands'
      BY <1>2, <1>5, <1>10, <2>2, <2>3, <2>4, MovedFacts DEF AgreedStands
    <3>3. QED
      BY <3>1, <3>2
  <2>5. CASE turn[n].action # "message"
    <3>1. \A a \in Replies : Before(turn[n], memory[turn[n].session], a) => Before(e, o, a)
      BY <1>1, <1>4, <1>5, <1>8, <2>5 DEF Before, Session
    <3>2. QED
      BY <1>1, <1>5, <1>9, <1>10, <2>1, <3>1, LastMoved
  <2>6. QED
    BY <2>4, <2>5
<1>12. /\ DOMAIN turn' = DOMAIN turn /\ Len(turn') = Len(turn)
       /\ \A m \in DOMAIN turn : /\ turn'[m].session = turn[m].session
                                 /\ turn'[m].thread = turn[m].thread
                                 /\ turn'[m].action = turn[m].action
                                 /\ m # n => turn'[m].at = turn[m].at
       /\ turn'[n].at = "routing"
  BY <1>2, <1>5, <1>10, MovedFacts
<1>13. ChatShape'
  BY <1>2, <1>7, <1>9, <1>10, MovedFacts DEF ChatShape
<1>14. SessionsApart'
  <2>1. SessionsApart
    BY DEF ChatInv
  <2>2. \A m \in DOMAIN turn :
          /\ turn'[m].at = "sent" => turn'[m].session = None
          /\ turn'[m].session = None => turn'[m].at \in {"sent", "over"}
    BY <1>2, <1>12, <2>1 DEF SessionsApart
  <2>3. \A m \in DOMAIN turn : turn'[m].session # None =>
          turn'[m].session \in DOMAIN turn /\ turn'[turn'[m].session].thread = turn'[m].thread
    BY <1>12, <2>1 DEF SessionsApart
  <2>4. QED
    BY <1>7, <1>12, <2>1, <2>2, <2>3 DEF SessionsApart
<1>15. HeardIsReached'
  <2> SUFFICES ASSUME NEW s \in Ids
               PROVE  memory'[s].heard =
                        {m \in DOMAIN turn : turn'[m].session = s /\ turn'[m].action = "message"
                                             /\ turn'[m].at # "entered"}
    BY <1>12 DEF HeardIsReached
  <2>1. memory[s].heard =
          {m \in DOMAIN turn : turn[m].session = s /\ turn[m].action = "message"
                               /\ turn[m].at # "entered"}
    BY DEF ChatInv, HeardIsReached
  <2>2. memory'[s].heard = memory[s].heard \cup
          (IF s = turn[n].session /\ turn[n].action = "message" THEN {n} ELSE {})
    BY <1>6, <1>9 DEF Session
  <2>3. QED
    BY <1>1, <1>12, <2>1, <2>2
<1>16. ShownIsOver' /\ CompiledIsAgreed'
  BY <1>7, <1>10, <1>12, <1>14, MovedOnward, PanelQuiet
<1>17. QED
  BY <1>10, <1>11, <1>13, <1>14, <1>15, <1>16, MovedKeeps DEF ChatInv

\* The request is lost on its way.
LEMMA LoseInv ==
  ASSUME ChatInv, NEW n \in Ids, Lose(n)
  PROVE  ChatInv'
<1>1. n \in DOMAIN turn /\ turn[n].at = "sent"
  BY DEF Lose, At
<1>2. /\ turn[n] \in Turns /\ turn[n].session = None /\ InOrder(n, turn[n]) /\ ChatShape
  BY <1>1 DEF ChatInv, ChatShape, SessionsApart, TurnsInOrder
<1>3. PICK e : e = [turn[n] EXCEPT !.at = "over"]
  OBVIOUS
<1>4. /\ e \in Turns /\ e.action = turn[n].action /\ e.at = "over" /\ e.thread = turn[n].thread
      /\ e.session = turn[n].session /\ e.knows = turn[n].knows /\ e.scene = turn[n].scene
      /\ e.answer = turn[n].answer /\ e.confirmed = turn[n].confirmed /\ e.alone = turn[n].alone
  BY <1>2, <1>3 DEF Turns, Stages
<1>5. /\ turn' = [turn EXCEPT ![n] = e] /\ UNCHANGED <<memory, sessions, answers, thread>>
      /\ waiting' \in {waiting, None}
  BY <1>3 DEF Lose, Goto, serverVars
<1>6. InOrder(n, e) /\ e.answer = None
  BY <1>1, <1>2, <1>4 DEF InOrder
<1>7. Moved(n, e)
  BY <1>1, <1>2, <1>4, <1>5, <1>6 DEF Moved, ChatShape
<1>8. LastStands' /\ AgreedStands'
  <2>1. CASE n = Len(turn)
    <3>1. Len(turn') = n /\ turn'[n] = e
      BY <1>2, <1>7, <2>1, MovedFacts
    <3>2. QED
      BY <1>4, <1>6, <3>1 DEF LastStands, AgreedStands
  <2>2. QED
    BY <1>7, <2>1, MovedElsewhere
<1>9. QED
  BY <1>1, <1>4, <1>5, <1>7, <1>8, QuietInv

\* The session of the conversation is looked up, or made.
LEMMA EnterInv ==
  ASSUME ChatInv, NEW n \in Ids, Enter(n)
  PROVE  ChatInv'
<1>1. n \in DOMAIN turn /\ turn[n].at = "sent"
  BY DEF Enter, At
<1>2. /\ turn[n] \in Turns /\ turn[n].session = None /\ InOrder(n, turn[n]) /\ ChatShape
      /\ SessionsApart /\ None \notin Ids /\ turn[n].thread \in Ids
  <2>1. turn[n] \in Turns /\ turn[n].session = None /\ InOrder(n, turn[n])
    BY <1>1 DEF ChatInv, ChatShape, SessionsApart, TurnsInOrder
  <2>2. turn[n].thread \in Ids /\ None \notin Ids
    BY <2>1, ChatAssumption DEF Turns, Ids
  <2>3. QED
    BY <2>1, <2>2 DEF ChatInv
<1>3. PICK found : found = IF turn[n].action = "restart" \/ sessions[turn[n].thread] = None
                           THEN n ELSE sessions[turn[n].thread]
  OBVIOUS
<1>4. PICK e : e = [turn[n] EXCEPT !.at = "entered", !.session = found]
  OBVIOUS
<1>5. /\ found \in Ids /\ found # None /\ found \in DOMAIN turn
      /\ turn[found].thread = turn[n].thread
  BY <1>1, <1>2, <1>3 DEF ChatShape, SessionsApart
<1>6. /\ e \in Turns /\ e.action = turn[n].action /\ e.at = "entered" /\ e.thread = turn[n].thread
      /\ e.session = found /\ e.knows = turn[n].knows /\ e.scene = turn[n].scene
      /\ e.answer = turn[n].answer /\ e.confirmed = turn[n].confirmed /\ e.alone = turn[n].alone
  BY <1>2, <1>4, <1>5 DEF Turns, Stages
<1>7. /\ turn' = [turn EXCEPT ![n] = e] /\ sessions' = [sessions EXCEPT ![turn[n].thread] = found]
      /\ UNCHANGED <<memory, answers, thread, waiting>>
  BY <1>3, <1>4 DEF Enter, panelVars
<1>8. InOrder(n, e) /\ e.answer = None
  BY <1>1, <1>2, <1>6 DEF InOrder
<1>9. /\ sessions' \in [Ids -> Ids \cup {None}] /\ sessions'[turn[n].thread] = found
      /\ \A t \in Ids : t # turn[n].thread => sessions'[t] = sessions[t]
  BY <1>2, <1>5, <1>7 DEF ChatShape
<1>10. Moved(n, e)
  BY <1>1, <1>2, <1>6, <1>7, <1>8, <1>9 DEF Moved, ChatShape
<1>11. /\ DOMAIN turn' = DOMAIN turn /\ Len(turn') = Len(turn) /\ turn'[n] = e
       /\ \A m \in DOMAIN turn : /\ m # n => turn'[m] = turn[m]
                                 /\ turn'[m].thread = turn[m].thread
  BY <1>2, <1>10, MovedFacts
<1>12. LastStands' /\ AgreedStands'
  <2>1. CASE n = Len(turn)
    <3>1. LastStands'
      BY <1>6, <1>8, <1>11, <2>1 DEF LastStands
    <3>2. AgreedStands'
      <4> SUFFICES ASSUME e.confirmed # None, turn'[e.confirmed.turn].alone
                   PROVE  AgreedStands'
        BY <1>11, <2>1 DEF AgreedStands
      <4>1. PICK a \in Replies : a = turn[n].confirmed
        BY <1>1, <1>6 DEF ChatInv, ConfirmsLast
      <4>2. PICK k \in DOMAIN turn : k = a.turn /\ k # n /\ turn[k].session # None
        BY <1>1, <1>6, <4>1, <1>10, MovedFacts DEF ChatInv, ConfirmsLast
      <4>3. turn'[k] = turn[k] /\ turn[k].alone
        BY <1>6, <1>11, <4>1, <4>2
      <4>4. /\ sessions[turn[n].thread] = turn[k].session
            /\ memory[turn[k].session].tasks = a.plan
            /\ a.plan.from = memory[turn[k].session].heard
        BY <1>1, <1>6, <2>1, <4>1, <4>2, <4>3 DEF ChatInv, AgreedStands, Complete
      <4>5. found = turn[k].session
        BY <1>2, <1>3, <1>6, <4>1, <4>2, <4>4 DEF InOrder
      <4>6. e.scene = None
        BY <1>6, <1>8 DEF InOrder
      <4>7. QED
        BY <1>6, <1>7, <1>11, <2>1, <4>1, <4>2, <4>3, <4>4, <4>5, <4>6 DEF AgreedStands, Complete
    <3>3. QED
      BY <3>1, <3>2
  <2>2. QED
    BY <1>10, <2>1, MovedElsewhere
<1>13. ChatShape'
  BY <1>2, <1>7, <1>9, <1>10, MovedFacts DEF ChatShape
<1>14. SessionsApart'
  <2>1. \A m \in DOMAIN turn :
          /\ turn'[m].at = "sent" => turn'[m].session = None
          /\ turn'[m].session = None => turn'[m].at \in {"sent", "over"}
          /\ turn'[m].session # None => /\ turn'[m].session \in DOMAIN turn
                                        /\ turn[turn'[m].session].thread = turn[m].thread
    BY <1>2, <1>5, <1>6, <1>11 DEF SessionsApart
  <2>2. \A t \in Ids : sessions'[t] # None =>
          sessions'[t] \in DOMAIN turn /\ turn[sessions'[t]].thread = t
    BY <1>2, <1>5, <1>9 DEF SessionsApart
  <2>3. QED
    BY <1>11, <2>1, <2>2 DEF SessionsApart
<1>15. HeardIsReached'
  <2> SUFFICES ASSUME NEW s \in Ids
               PROVE  memory[s].heard =
                        {m \in DOMAIN turn : turn'[m].session = s /\ turn'[m].action = "message"
                                             /\ turn'[m].at # "entered"}
    BY <1>7, <1>11 DEF HeardIsReached
  <2>1. memory[s].heard =
          {m \in DOMAIN turn : turn[m].session = s /\ turn[m].action = "message"
                               /\ turn[m].at # "entered"}
    BY DEF ChatInv, HeardIsReached
  <2>2. QED
    BY <1>1, <1>2, <1>6, <1>11, <2>1
<1>16. ShownIsOver' /\ CompiledIsAgreed'
  BY <1>7, <1>10, <1>11, <1>14, MovedOnward, PanelQuiet
<1>17. QED
  BY <1>10, <1>12, <1>13, <1>14, <1>15, <1>16, MovedKeeps DEF ChatInv

\* The answer of the request the panel waits for: what it compiled is what was
\* confirmed.
LEMMA ArrivesAgreed ==
  ASSUME ChatInv, NEW n \in DOMAIN turn, n = Len(turn), turn[n].at = "leaving",
         NEW a, a = turn[n].answer, a # None, a.scene # None,
         DOMAIN turn' = DOMAIN turn, turn'[n].session = turn[n].session,
         \A m \in DOMAIN turn : m # n => turn'[m] = turn[m],
         turn'[n].confirmed = turn[n].confirmed
  PROVE  AgreedFor(a)'
<1>1. InOrder(n, turn[n]) /\ DOMAIN turn = 1 .. Len(turn) /\ Len(turn) \in Nat /\ turn # <<>>
  BY DEF ChatInv, ChatShape, TurnsInOrder
<1>2. a.turn = n /\ turn[n].session \in Ids /\ turn[n].scene = a.scene
  BY <1>1, Acting DEF InOrder
<1>3. turn[n].action = "confirm" /\ turn[n].confirmed # None
  BY <1>1, <1>2 DEF InOrder
<1>4. PICK c \in Replies : c = turn[n].confirmed
  BY <1>3 DEF ChatInv, ConfirmsLast
<1>5. PICK k \in DOMAIN turn : k = c.turn /\ k # n /\ (turn[k].alone => turn[n].alone)
  BY <1>1, <1>3, <1>4 DEF ChatInv, ConfirmsLast
<1> SUFFICES ASSUME turn[k].alone
             PROVE  /\ a.scene = c.plan /\ a.plan = c.plan
                    /\ a.scene.from = {m \in DOMAIN turn : turn'[m].session = turn[n].session
                                                           /\ turn'[m].action = "message" /\ m < n}
  BY <1>2, <1>4, <1>5 DEF AgreedFor
<1>6. /\ turn[n].session = turn[k].session /\ turn[n].scene = c.plan
      /\ memory[turn[n].session].tasks = c.plan /\ c.plan.from = memory[turn[n].session].heard
  BY <1>1, <1>2, <1>3, <1>4, <1>5 DEF ChatInv, AgreedStands, Complete
<1>7. a.plan = memory[turn[n].session].tasks
  BY <1>1, <1>5 DEF ChatInv, LastStands
<1>8. memory[turn[n].session].heard =
        {m \in DOMAIN turn : turn[m].session = turn[n].session /\ turn[m].action = "message"
                             /\ turn[m].at # "entered"}
  BY <1>2 DEF ChatInv, HeardIsReached
<1>9. \A m \in DOMAIN turn : m < n /\ turn[m].session = turn[n].session => turn[m].at = "over"
  <2>1. \A m \in DOMAIN turn :
          turn[m].session = turn[n].session => turn[m].thread = turn[n].thread
    BY <1>2, ChatAssumption DEF ChatInv, SessionsApart, Ids
  <2>2. QED
    BY <1>5, <2>1 DEF ChatInv, AloneIsAlone
<1>10. \A m \in DOMAIN turn : m < n <=> m # n
  BY <1>1
<1>11. QED
  BY <1>2, <1>3, <1>6, <1>7, <1>8, <1>9, <1>10

\* The turn ends; its answer is lost, or shown.
LEMMA LeaveInv ==
  ASSUME ChatInv, NEW n \in Ids, Leave(n)
  PROVE  ChatInv'
<1>1. n \in DOMAIN turn /\ turn[n].at = "leaving"
  BY DEF Leave, At
<1>2. /\ turn[n] \in Turns /\ turn[n].session \in Ids /\ InOrder(n, turn[n]) /\ None \notin Ids
  BY <1>1, Acting, ChatAssumption DEF Ids
<1>3. ChatShape /\ SessionsApart /\ ShownIsOver
  BY DEF ChatInv
<1>4. PICK e : e = [turn[n] EXCEPT !.at = "over"]
  OBVIOUS
<1>5. /\ e \in Turns /\ e.action = turn[n].action /\ e.at = "over" /\ e.thread = turn[n].thread
      /\ e.session = turn[n].session /\ e.knows = turn[n].knows /\ e.scene = turn[n].scene
      /\ e.answer = turn[n].answer /\ e.confirmed = turn[n].confirmed /\ e.alone = turn[n].alone
      /\ turn[n].thread \in Ids /\ turn[n].answer \in Replies \cup {None}
  BY <1>2, <1>4 DEF Turns, Stages
<1>6. /\ turn' = [turn EXCEPT ![n] = e] /\ memory' = memory
      /\ sessions' = [sessions EXCEPT ![turn[n].thread] = turn[n].session]
      /\ waiting' = IF waiting = n THEN None ELSE waiting
      /\ \/ UNCHANGED <<thread, answers>>
         \/ /\ waiting = n /\ thread' = turn[n].thread
            /\ answers' = Append(answers, turn[n].answer)
  BY <1>4 DEF Leave, Goto
<1>7. InOrder(n, e)
  BY <1>1, <1>2, <1>5 DEF InOrder
<1>8. /\ sessions' \in [Ids -> Ids \cup {None}]
      /\ sessions'[turn[n].thread] = turn[n].session
      /\ \A t \in Ids : t # turn[n].thread => sessions'[t] = sessions[t]
  BY <1>2, <1>3, <1>5, <1>6 DEF ChatShape
<1>9. Moved(n, e)
  BY <1>1, <1>3, <1>5, <1>6, <1>7, <1>8 DEF Moved, ChatShape
<1>10. /\ DOMAIN turn' = DOMAIN turn /\ Len(turn') = Len(turn) /\ turn'[n] = e
       /\ \A m \in DOMAIN turn : /\ m # n => turn'[m] = turn[m]
                                 /\ turn'[m].session = turn[m].session
                                 /\ turn'[m].thread = turn[m].thread
                                 /\ turn'[m].action = turn[m].action
                                 /\ turn'[m].at = "entered" <=> turn[m].at = "entered"
  <2>1. /\ DOMAIN turn' = DOMAIN turn /\ Len(turn') = Len(turn) /\ turn'[n] = e
        /\ \A m \in DOMAIN turn : m # n => turn'[m] = turn[m]
    BY <1>3, <1>9, MovedFacts
  <2>2. QED
    BY <1>1, <1>5, <2>1
<1>11. LastStands' /\ AgreedStands'
  <2>1. CASE n = Len(turn)
    <3>1. LastStands'
      BY <1>1, <1>5, <1>6, <1>8, <1>10, <2>1 DEF ChatInv, LastStands, Complete
    <3>2. AgreedStands'
      BY <1>5, <1>10, <2>1 DEF AgreedStands
    <3>3. QED
      BY <3>1, <3>2
  <2>2. QED
    BY <1>9, <2>1, MovedElsewhere
<1>12. ChatShape'
  <2>1. answers' \in Seq(Replies \cup {None}) /\ thread' \in Ids \cup {None}
    <3>1. PICK R : R = Replies \cup {None}
      OBVIOUS
    <3>2. turn[n].answer \in R /\ answers \in Seq(R) /\ thread \in Ids \cup {None}
      BY <1>3, <1>5, <3>1 DEF ChatShape
    <3>3. Append(answers, turn[n].answer) \in Seq(R)
      BY <3>2
    <3>4. QED
      BY <1>5, <1>6, <3>1, <3>2, <3>3
  <2>2. QED
    BY <1>3, <1>6, <1>8, <1>9, <2>1, MovedFacts DEF ChatShape
<1>13. SessionsApart'
  <2>1. \A m \in DOMAIN turn :
          /\ turn'[m].at = "sent" => turn'[m].session = None
          /\ turn'[m].session = None => turn'[m].at \in {"sent", "over"}
    BY <1>3, <1>5, <1>10 DEF SessionsApart
  <2>2. \A m \in DOMAIN turn : turn'[m].session # None =>
          turn'[m].session \in DOMAIN turn /\ turn'[turn'[m].session].thread = turn'[m].thread
    BY <1>3, <1>10 DEF SessionsApart
  <2>3. \A t \in Ids : sessions'[t] # None =>
          sessions'[t] \in DOMAIN turn /\ turn'[sessions'[t]].thread = t
    BY <1>1, <1>2, <1>3, <1>8, <1>10 DEF SessionsApart
  <2>4. QED
    BY <1>10, <2>1, <2>2, <2>3 DEF SessionsApart
<1>14. HeardIsReached'
  BY <1>6, <1>10 DEF ChatInv, HeardIsReached
<1>15. ShownIsOver' /\ CompiledIsAgreed'
  <2>1. CASE UNCHANGED <<thread, answers>>
    BY <1>6, <1>9, <1>10, <1>13, <2>1, MovedOnward, PanelQuiet
  <2>2. CASE /\ waiting = n /\ thread' = turn[n].thread
             /\ answers' = Append(answers, turn[n].answer)
    <3>1. PICK a \in Replies \cup {None} : a = turn[n].answer
      BY <1>5
    <3>2. n = Len(turn) /\ waiting' = None
      BY <1>2, <1>3, <1>6, <2>2 DEF ChatShape
    <3>3. /\ DOMAIN answers' = 1 .. (Len(answers) + 1) /\ Len(answers') = Len(answers) + 1
          /\ Len(answers) \in Nat /\ DOMAIN answers = 1 .. Len(answers) /\ answers' # <<>>
          /\ answers'[Len(answers) + 1] = a /\ \A i \in DOMAIN answers : answers'[i] = answers[i]
      BY <1>3, <2>2, <3>1 DEF ChatShape
    <3>4. a # None => a.turn = n
      BY <1>2, <3>1 DEF InOrder
    <3>5. \A i \in DOMAIN answers : answers[i] # None =>
            /\ answers[i].turn \in DOMAIN turn' /\ turn'[answers[i].turn].at = "over"
            /\ answers[i] = turn'[answers[i].turn].answer
      BY <1>1, <1>3, <1>10 DEF ShownIsOver
    <3>6. ShownIsOver'
      BY <1>1, <1>5, <1>10, <2>2, <3>1, <3>2, <3>3, <3>4, <3>5 DEF ShownIsOver
    <3>7. CompiledIsAgreed'
      <4> SUFFICES ASSUME NEW b \in Received'
                   PROVE  AgreedFor(b)'
        BY DEF CompiledIsAgreed, AgreedFor
      <4>1. CASE b \in Received
        <5>1. AgreedFor(b)
          BY <4>1 DEF ChatInv, CompiledIsAgreed, AgreedFor
        <5>2. QED
          BY <1>9, <1>13, <4>1, <5>1, MovedOnward, ReceivedKept
      <4>2. CASE b \notin Received
        <5>1. b = a /\ b # None /\ b.scene # None
          BY <3>3, <4>2 DEF Received
        <5>2. QED
          BY <1>1, <1>5, <1>10, <3>1, <3>2, <5>1, ArrivesAgreed
      <4>3. QED
        BY <4>1, <4>2
    <3>8. QED
      BY <3>6, <3>7
  <2>3. QED
    BY <1>6, <2>1, <2>2
<1>16. QED
  BY <1>9, <1>11, <1>12, <1>13, <1>14, <1>15, MovedKeeps DEF ChatInv

---------------------------------------------------------------------------

\* A new request: if it confirms a plan, nothing has happened in its conversation
\* since the plan was made.
LEMMA SendInv ==
  ASSUME ChatInv, NEW action, NEW confirmed, Send(action, confirmed),
         action = "confirm" <=> confirmed # None,
         confirmed # None => \E i \in DOMAIN answers : CanConfirm(i) /\ confirmed = answers[i]
  PROVE  ChatInv'
<1>1. PICK n \in Ids : n = Len(turn) + 1
  BY DEF Send
<1>2. PICK conversation : conversation = IF thread = None THEN n ELSE thread
  OBVIOUS
<1>3. PICK r : r =
        [action |-> action, at |-> "sent", thread |-> conversation, session |-> None,
         knows |-> {}, scene |-> None, answer |-> None, confirmed |-> confirmed,
         alone |-> \A m \in DOMAIN turn : turn[m].thread = conversation => turn[m].at = "over"]
  OBVIOUS
<1>4. /\ turn' = Append(turn, r) /\ waiting = None /\ waiting' = n /\ action \in Actions
      /\ answers' = Append(answers, None) /\ UNCHANGED <<sessions, memory, thread>>
  BY <1>1, <1>2, <1>3 DEF Send, serverVars
<1>5. /\ ChatShape /\ SessionsApart /\ HeardIsReached /\ TurnsInOrder /\ AloneIsAlone
      /\ ConfirmsLast /\ ShownIsOver
  BY DEF ChatInv
<1>6. conversation \in Ids /\ None \notin Ids
  BY <1>1, <1>2, <1>5, ChatAssumption DEF ChatShape, Ids
<1>7. /\ Len(answers) \in Nat /\ DOMAIN answers = 1 .. Len(answers)
      /\ \A i \in DOMAIN answers : answers[i] \in Replies \cup {None}
  BY <1>5 DEF ChatShape
<1>8. confirmed \in Replies \cup {None}
  BY <1>7
<1>9. /\ r.action = action /\ r.at = "sent" /\ r.thread = conversation /\ r.session = None
      /\ r.scene = None /\ r.answer = None /\ r.confirmed = confirmed
      /\ r.alone = (\A m \in DOMAIN turn : turn[m].thread = conversation => turn[m].at = "over")
  BY <1>3
<1>10. r \in Turns
  <2>1. (\A m \in DOMAIN turn : turn[m].thread = conversation => turn[m].at = "over") \in BOOLEAN
    OBVIOUS
  <2>2. QED
    BY <1>3, <1>4, <1>6, <1>8, <2>1 DEF Turns, Stages
<1>11. /\ turn' \in Seq(Turns) /\ Len(turn) \in Nat /\ Len(turn') = n /\ n = Len(turn) + 1
       /\ DOMAIN turn = 1 .. Len(turn) /\ DOMAIN turn' = 1 .. n /\ turn'[n] = r /\ turn' # <<>>
       /\ \A m \in DOMAIN turn : turn'[m] = turn[m] /\ turn[m] \in Turns
  BY <1>1, <1>4, <1>5, <1>10 DEF ChatShape
<1>12. Onward
  BY <1>11 DEF Onward
<1>13. n <= MaxTurns
  BY <1>1, ChatAssumption DEF Ids
<1>14. ChatShape'
  <2>1. PICK R : R = Replies \cup {None}
    OBVIOUS
  <2>2. Append(answers, None) \in Seq(R)
    BY <1>5, <2>1 DEF ChatShape
  <2>3. QED
    BY <1>4, <1>5, <1>11, <1>13, <2>1, <2>2 DEF ChatShape
<1>15. SessionsApart'
  BY <1>4, <1>5, <1>9, <1>11 DEF SessionsApart
<1>16. HeardIsReached'
  <2> SUFFICES ASSUME NEW s \in Ids
               PROVE  memory[s].heard =
                        {m \in DOMAIN turn' : turn'[m].session = s /\ turn'[m].action = "message"
                                              /\ turn'[m].at # "entered"}
    BY <1>4 DEF HeardIsReached
  <2>1. memory[s].heard =
          {m \in DOMAIN turn : turn[m].session = s /\ turn[m].action = "message"
                               /\ turn[m].at # "entered"}
    BY <1>5 DEF HeardIsReached
  <2>2. \A m : m \in DOMAIN turn' <=> m \in DOMAIN turn \/ m = n
    BY <1>11
  <2>3. QED
    BY <1>6, <1>9, <1>11, <2>1, <2>2
<1>17. TurnsInOrder'
  <2>1. InOrder(n, r)
    BY <1>9 DEF InOrder
  <2>2. \A m \in DOMAIN turn : InOrder(m, turn[m])
    BY <1>5 DEF TurnsInOrder
  <2>3. QED
    BY <1>11, <2>1, <2>2 DEF TurnsInOrder, InOrder
<1>18. AloneIsAlone'
  <2>1. r.alone => \A m \in DOMAIN turn : turn[m].thread = r.thread => turn[m].at = "over"
    BY <1>9
  <2>2. \A m, l \in DOMAIN turn' : m < l => m \in DOMAIN turn
    BY <1>11
  <2>3. \A l \in DOMAIN turn' : l \in DOMAIN turn \/ l = n
    BY <1>11
  <2>4. QED
    BY <1>5, <1>11, <2>1, <2>2, <2>3 DEF AloneIsAlone
<1>19. confirmed # None =>
         /\ confirmed \in Replies /\ confirmed.turn = Len(turn) /\ turn # <<>>
         /\ confirmed = turn[Len(turn)].answer /\ turn[Len(turn)].at = "over"
         /\ confirmed.phase = "review" /\ confirmed.scene = None
         /\ thread = turn[Len(turn)].thread /\ conversation = thread
         /\ Len(turn) \in DOMAIN turn /\ turn[Len(turn)].session # None
  <2> SUFFICES ASSUME confirmed # None
               PROVE  /\ confirmed \in Replies /\ confirmed.turn = Len(turn) /\ turn # <<>>
                      /\ confirmed = turn[Len(turn)].answer /\ turn[Len(turn)].at = "over"
                      /\ confirmed.phase = "review" /\ confirmed.scene = None
                      /\ thread = turn[Len(turn)].thread /\ conversation = thread
                      /\ Len(turn) \in DOMAIN turn /\ turn[Len(turn)].session # None
    OBVIOUS
  <2>1. /\ Len(answers) \in DOMAIN answers /\ answers # <<>> /\ confirmed = answers[Len(answers)]
        /\ confirmed.phase = "review" /\ confirmed.scene = None
    BY <1>7 DEF CanConfirm
  <2>2. /\ confirmed.turn = Len(turn) /\ thread = turn[Len(turn)].thread
        /\ Len(turn) \in DOMAIN turn /\ turn[Len(turn)].at = "over"
        /\ confirmed = turn[Len(turn)].answer
    BY <1>5, <2>1 DEF ShownIsOver
  <2>3. turn[Len(turn)].session # None
    BY <1>5, <2>2 DEF TurnsInOrder, InOrder
  <2>4. thread # None
    BY <1>6, <1>11, <2>2 DEF Turns
  <2>5. QED
    BY <1>2, <1>8, <1>11, <2>1, <2>2, <2>3, <2>4
<1>20. confirmed # None /\ turn[Len(turn)].alone => r.alone
  <2> SUFFICES ASSUME confirmed # None, turn[Len(turn)].alone,
                      NEW m \in DOMAIN turn, turn[m].thread = conversation
               PROVE  turn[m].at = "over"
    BY <1>9
  <2>1. CASE m = Len(turn)
    BY <1>19, <2>1
  <2>2. CASE m # Len(turn)
    BY <1>5, <1>11, <1>19, <2>2 DEF AloneIsAlone
  <2>3. QED
    BY <2>1, <2>2
<1>21. ConfirmsLast'
  <2>1. \A m \in DOMAIN turn : turn[m].confirmed # None => turn[m].confirmed.turn \in DOMAIN turn
    BY <1>5 DEF ConfirmsLast
  <2>2. r.confirmed # None =>
          LET k == r.confirmed.turn
          IN /\ r.confirmed \in Replies /\ k \in DOMAIN turn /\ n = k + 1
             /\ turn[k].session # None /\ r.thread = turn[k].thread
             /\ turn[k].alone => r.alone
    BY <1>9, <1>11, <1>19, <1>20
  <2>3. \A m \in DOMAIN turn' : m \in DOMAIN turn \/ m = n
    BY <1>11
  <2>4. DOMAIN turn \subseteq DOMAIN turn'
    BY <1>11
  <2>5. QED
    BY <1>5, <1>11, <2>1, <2>2, <2>3, <2>4 DEF ConfirmsLast
<1>22. LastStands'
  BY <1>9, <1>11 DEF LastStands
<1>23. AgreedStands'
  <2> SUFFICES ASSUME confirmed # None, turn'[confirmed.turn].alone
               PROVE  AgreedStands'
    BY <1>9, <1>11 DEF AgreedStands
  <2>1. PICK k \in DOMAIN turn : k = Len(turn) /\ k = confirmed.turn /\ turn'[k] = turn[k]
    BY <1>11, <1>19
  <2>2. /\ memory[turn[k].session].tasks = confirmed.plan
        /\ confirmed.plan.from = memory[turn[k].session].heard
        /\ sessions[turn[k].thread] = turn[k].session
    BY <1>19, <2>1 DEF ChatInv, LastStands, Complete
  <2>3. QED
    BY <1>4, <1>9, <1>11, <1>19, <2>1, <2>2 DEF AgreedStands, Complete
<1>24. /\ DOMAIN answers' = 1 .. (Len(answers) + 1) /\ Len(answers') = Len(answers) + 1
       /\ answers'[Len(answers) + 1] = None
       /\ \A i \in DOMAIN answers : answers'[i] = answers[i]
  BY <1>4, <1>5, <1>7 DEF ChatShape
<1>25. ShownIsOver'
  <2>1. \A i \in DOMAIN answers : answers[i] # None =>
          /\ answers[i].turn \in DOMAIN turn' /\ turn'[answers[i].turn].at = "over"
          /\ answers[i] = turn'[answers[i].turn].answer
    BY <1>5, <1>11 DEF ShownIsOver
  <2>2. \A i \in DOMAIN answers' : i \in DOMAIN answers \/ answers'[i] = None
    BY <1>7, <1>24
  <2>3. QED
    BY <1>24, <2>1, <2>2 DEF ShownIsOver
<1>26. CompiledIsAgreed'
  <2> SUFFICES ASSUME NEW b \in Received'
               PROVE  AgreedFor(b)'
    BY DEF CompiledIsAgreed, AgreedFor
  <2>1. \A i \in DOMAIN answers' : i \in DOMAIN answers \/ answers'[i] = None
    BY <1>7, <1>24
  <2>2. b \in Received
    BY <1>24, <2>1 DEF Received
  <2>3. AgreedFor(b)
    BY <2>2 DEF ChatInv, CompiledIsAgreed, AgreedFor
  <2>4. QED
    BY <1>12, <1>15, <2>2, <2>3, ReceivedKept
<1>27. QED
  BY <1>14, <1>15, <1>16, <1>17, <1>18, <1>21, <1>22, <1>23, <1>25, <1>26 DEF ChatInv

\* The panel gives up, or nothing happens.
LEMMA GiveUpInv ==
  ASSUME ChatInv, UNCHANGED <<turn, serverVars, thread, answers>>, waiting' \in {waiting, None}
  PROVE  ChatInv'
<1>1. ChatShape' /\ ShownIsOver'
  BY DEF ChatInv, ChatShape, ShownIsOver, serverVars
<1>2. SessionsApart' /\ HeardIsReached' /\ TurnsInOrder'
  BY DEF ChatInv, SessionsApart, HeardIsReached, TurnsInOrder, InOrder, serverVars
<1>3. AloneIsAlone' /\ ConfirmsLast' /\ LastStands' /\ AgreedStands'
  BY DEF ChatInv, AloneIsAlone, ConfirmsLast, LastStands, AgreedStands, Complete, serverVars
<1>4. CompiledIsAgreed'
  BY DEF ChatInv, CompiledIsAgreed, Received, serverVars
<1>5. QED
  BY <1>1, <1>2, <1>3, <1>4 DEF ChatInv

LEMMA ChatStep ==
  ASSUME ChatInv, [Next]_vars
  PROVE  ChatInv'
<1>1. CASE Ask \/ Restart
  <2>1. Send("message", None) \/ Send("restart", None)
    BY <1>1 DEF Ask, Restart
  <2>2. QED
    BY <2>1, SendInv
<1>2. CASE Confirm
  <2>1. PICK i \in DOMAIN answers : CanConfirm(i) /\ Send("confirm", answers[i])
    BY <1>2 DEF Confirm
  <2>2. PICK confirmed : confirmed = answers[i]
    OBVIOUS
  <2>3. confirmed # None
    BY <2>1, <2>2 DEF CanConfirm
  <2>4. QED
    BY <2>1, <2>2, <2>3, SendInv
<1>3. CASE GiveUp
  BY <1>3, GiveUpInv DEF GiveUp
<1>4. ASSUME NEW n \in Ids, Turn(n)
      PROVE  ChatInv'
  BY <1>4, LoseInv, EnterInv, HearInv, DiscoverInv, ConsultInv, StorePlanInv, ReviewInv,
     CompileInv, CompileRaisesInv, MarkReadyInv, AnswerInv, LeaveInv DEF Turn
<1>5. CASE UNCHANGED vars
  BY <1>5, GiveUpInv DEF vars, serverVars, panelVars
<1>6. QED
  BY <1>1, <1>2, <1>3, <1>4, <1>5 DEF Next

LEMMA ChatStart == Init => ChatInv
<1> SUFFICES ASSUME Init
             PROVE  ChatInv
  OBVIOUS
<1>1. NewSession \in Objects
  BY DEF NewSession, Objects, Phases
<1>2. /\ turn = <<>> /\ Len(turn) = 0 /\ DOMAIN turn = {} /\ answers = <<>> /\ DOMAIN answers = {}
      /\ sessions = [t \in Ids |-> None] /\ memory = [s \in Ids |-> NewSession]
      /\ thread = None /\ waiting = None
  BY DEF Init
<1>3. ChatShape
  <2>1. <<>> \in Seq(Turns) /\ <<>> \in Seq(Replies \cup {None})
    OBVIOUS
  <2>2. QED
    BY <1>1, <1>2, <2>1, ChatAssumption DEF ChatShape
<1>4. HeardIsReached
  BY <1>2 DEF HeardIsReached, NewSession
<1>5. SessionsApart /\ TurnsInOrder /\ AloneIsAlone /\ ConfirmsLast /\ LastStands /\ AgreedStands
  BY <1>2 DEF SessionsApart, TurnsInOrder, AloneIsAlone, ConfirmsLast, LastStands, AgreedStands
<1>6. ShownIsOver /\ CompiledIsAgreed
  BY <1>2 DEF ShownIsOver, CompiledIsAgreed, Received
<1>7. QED
  BY <1>3, <1>4, <1>5, <1>6 DEF ChatInv

\* Sessions belong to conversations, the session has heard what has reached it, and a
\* turn that was alone when it was sent has its session to itself while the panel waits.
THEOREM ChatInvariant == Spec => []ChatInv
<1>1. Init => ChatInv
  BY ChatStart
<1>2. ChatInv /\ [Next]_vars => ChatInv'
  BY ChatStep
<1>3. QED
  BY <1>1, <1>2, PTL DEF Spec

\* A scene the panel receives is that of the plan it showed with the button that was
\* pressed, and that plan was made from every message the session had been brought,
\* if the user has not gone on while an abandoned turn of the conversation was at
\* work (MarsAgentService.chat).
THEOREM CompiledIsAgreedHolds == Spec => []CompiledIsAgreed
<1>1. ChatInv => CompiledIsAgreed
  BY DEF ChatInv
<1>2. QED
  BY <1>1, ChatInvariant, PTL
=============================================================================
