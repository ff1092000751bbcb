---------------------------- MODULE RuntimeProofs ----------------------------
(***************************************************************************)
(* What changes in the history of a behavior when one event is appended:   *)
(* the lemmas about Runtime that both refinement proofs rest on.           *)
(***************************************************************************)
EXTENDS Runtime, TLAPS

Histories == behavior \in [Id -> Seq(Event)]

\* One behavior consumed an event.
Stepped(id, event) ==
    /\ Histories
    /\ id \in Id
    /\ event \in Event
    /\ behavior' = [behavior EXCEPT ![id] = Append(@, event)]
    /\ cfg_fn' = cfg_fn

\* A prefix of a sequence, before and after an element is appended.
LEMMA Prefixes ==
    ASSUME NEW S, NEW s \in Seq(S), NEW e \in S
    PROVE  /\ SubSeq(s, 1, Len(s)) = s
           /\ \A k \in 0 .. Len(s) : SubSeq(Append(s, e), 1, k) = SubSeq(s, 1, k)
<1>1. SubSeq(s, 1, Len(s)) = s
  OBVIOUS
<1>2. ASSUME NEW k \in 0 .. Len(s)
      PROVE  SubSeq(Append(s, e), 1, k) = SubSeq(s, 1, k)
  OBVIOUS
<1>. QED  BY <1>1, <1>2

\* The last command is the answer to the whole history.
LEMMA LastCommandIs ==
    ASSUME Histories, NEW id \in Id
    PROVE  LastCommand(id) = Behave(cfg_fn, id, behavior[id])
<1>1. behavior[id] \in Seq(Event)
  BY DEF Histories
<1>2. SubSeq(behavior[id], 1, Len(behavior[id])) = behavior[id]
  BY <1>1
<1>. QED  BY <1>2 DEF LastCommand, CommandAfter

\* What a behavior answered before, it still has answered.
LEMMA EarlierCommands ==
    ASSUME NEW id, NEW event, Stepped(id, event), NEW other \in Id
    PROVE  /\ Len(behavior'[other]) = IF other = id THEN Len(behavior[id]) + 1
                                                    ELSE Len(behavior[other])
           /\ \A k \in 1 .. Len(behavior[other]) :
                 /\ behavior'[other][k] = behavior[other][k]
                 /\ CommandAfter(other, k)' = CommandAfter(other, k)
<1>1. behavior[other] \in Seq(Event)
  BY DEF Histories, Stepped
<1>2. CASE other # id
  <2>1. behavior'[other] = behavior[other]
    BY <1>2 DEF Stepped, Histories
  <2>. QED  BY <1>2, <2>1 DEF CommandAfter, Stepped
<1>3. CASE other = id
  <2>1. behavior'[id] = Append(behavior[id], event)
    BY DEF Stepped, Histories
  <2>2. \A k \in 0 .. Len(behavior[id]) :
            SubSeq(behavior'[id], 1, k) = SubSeq(behavior[id], 1, k)
    BY <1>1, <1>3, <2>1, Prefixes DEF Stepped
  <2>3. \A k \in 1 .. Len(behavior[id]) : behavior'[id][k] = behavior[id][k]
    BY <1>1, <1>3, <2>1
  <2>4. Len(behavior'[id]) = Len(behavior[id]) + 1
    BY <1>1, <1>3, <2>1
  <2>5. ASSUME NEW k \in 1 .. Len(behavior[id])
        PROVE  CommandAfter(id, k)' = CommandAfter(id, k)
    <3>1. SubSeq(behavior'[id], 1, k) = SubSeq(behavior[id], 1, k)
      BY <1>1, <1>3, <2>2
    <3>. QED  BY <3>1 DEF CommandAfter, Stepped
  <2>. QED  BY <1>1, <1>3, <2>3, <2>4, <2>5
<1>. QED  BY <1>2, <1>3

\* A behavior has the deadlines it got an event for.
LEMMA DeadlinesAre ==
    ASSUME Histories, NEW id \in Id, NEW deadline
    PROVE  deadline \in Deadlines(id)
              <=> \E k \in 1 .. Len(behavior[id]) : behavior[id][k] = DeadlineOk(deadline)
<1>1. behavior[id] \in Seq(Event)
  BY DEF Histories
<1>2. \A k \in 1 .. Len(behavior[id]) : behavior[id][k] \in Event
  BY <1>1
<1>3. \A e \in Event : e.type = "DeadlineOk" => e = DeadlineOk(e.deadline)
  BY DEF Event, DeadlineOk
<1>4. DeadlineOk(deadline).type = "DeadlineOk" /\ DeadlineOk(deadline).deadline = deadline
  BY DEF DeadlineOk
<1>5. DOMAIN behavior[id] = 1 .. Len(behavior[id])
  BY <1>1
<1>. QED  BY <1>2, <1>3, <1>4, <1>5 DEF Deadlines

\* ... and gets at most one by a step.
LEMMA DeadlinesAfter ==
    ASSUME NEW id, NEW event, Stepped(id, event), NEW other \in Id, NEW deadline
    PROVE  deadline \in Deadlines(other)'
              <=> \/ deadline \in Deadlines(other)
                  \/ other = id /\ event = DeadlineOk(deadline)
<1>1. Histories /\ Histories'
  BY DEF Stepped, Histories
<1>2. deadline \in Deadlines(other)
          <=> \E k \in 1 .. Len(behavior[other]) : behavior[other][k] = DeadlineOk(deadline)
  BY <1>1, DeadlinesAre
<1>3. deadline \in Deadlines(other)'
          <=> \E k \in 1 .. Len(behavior'[other]) : behavior'[other][k] = DeadlineOk(deadline)
  <2>1. behavior'[other] \in Seq(Event)
    BY <1>1 DEF Histories
  <2>2. \A k \in 1 .. Len(behavior'[other]) : behavior'[other][k] \in Event
    BY <2>1
  <2>3. \A e \in Event : e.type = "DeadlineOk" => e = DeadlineOk(e.deadline)
    BY DEF Event, DeadlineOk
  <2>4. DeadlineOk(deadline).type = "DeadlineOk" /\ DeadlineOk(deadline).deadline = deadline
    BY DEF DeadlineOk
  <2>5. DOMAIN behavior'[other] = 1 .. Len(behavior'[other])
    BY <2>1
  <2>. QED  BY <2>2, <2>3, <2>4, <2>5 DEF Deadlines
<1>4. behavior[other] \in Seq(Event) /\ Len(behavior[other]) \in Nat
  BY <1>1 DEF Histories
<1>5. CASE other = id
  <2>1. behavior'[id][Len(behavior[id]) + 1] = event
    BY <1>4, <1>5 DEF Stepped, Histories
  <2>2. /\ Len(behavior'[id]) = Len(behavior[id]) + 1
        /\ \A k \in 1 .. Len(behavior[id]) : behavior'[id][k] = behavior[id][k]
    BY <1>5, EarlierCommands
  <2>3. \A k : k \in 1 .. Len(behavior'[id])
                  <=> k \in 1 .. Len(behavior[id]) \/ k = Len(behavior[id]) + 1
    BY <1>4, <1>5, <2>2
  <2>4. deadline \in Deadlines(id)'
            <=> \/ \E k \in 1 .. Len(behavior[id]) : behavior[id][k] = DeadlineOk(deadline)
                \/ event = DeadlineOk(deadline)
    BY <1>3, <1>5, <2>1, <2>2, <2>3, Zenon
  <2>. QED  BY <1>2, <1>5, <2>4
<1>6. CASE other # id
  BY <1>2, <1>3, <1>4, <1>6, EarlierCommands
<1>. QED  BY <1>5, <1>6

\* A deadline is told elapsed by the answer to a query of it, once it exists.
LEMMA ToldElapsedAfter ==
    ASSUME NEW id, NEW event, Stepped(id, event), NEW other \in Id, NEW deadline,
           ToldElapsed(other, deadline)'
    PROVE  \/ ToldElapsed(other, deadline)
           \/ /\ other = id
              /\ event = DeadlineElapsedOk(TRUE)
              /\ behavior[id] # << >>
              /\ LastCommand(id) = [type |-> "DeadlineElapsed", deadline |-> deadline]
              /\ deadline \in Deadlines(id)
<1>1. Histories /\ behavior[other] \in Seq(Event) /\ Len(behavior[other]) \in Nat
  BY DEF Stepped, Histories
<1>2. PICK k \in 2 .. Len(behavior'[other]) :
          /\ behavior'[other][k] = DeadlineElapsedOk(TRUE)
          /\ CommandAfter(other, k - 1)' = [type |-> "DeadlineElapsed", deadline |-> deadline]
          /\ \E l \in 1 .. k - 1 : behavior'[other][l] = DeadlineOk(deadline)
  BY DEF ToldElapsed
<1>3. PICK l \in 1 .. k - 1 : behavior'[other][l] = DeadlineOk(deadline)
  BY <1>2
<1>4. /\ k - 1 \in 1 .. Len(behavior[other])
      /\ l \in 1 .. Len(behavior[other])
      /\ l \in 1 .. k - 1
      /\ k \in Int /\ k >= 2
  BY <1>1, <1>2, <1>3, EarlierCommands
<1>5. /\ CommandAfter(other, k - 1) = [type |-> "DeadlineElapsed", deadline |-> deadline]
      /\ behavior[other][l] = DeadlineOk(deadline)
  BY <1>2, <1>3, <1>4, EarlierCommands
<1>6. CASE k <= Len(behavior[other])
  <2>1. k \in 2 .. Len(behavior[other]) /\ k \in 1 .. Len(behavior[other])
    BY <1>1, <1>4, <1>6
  <2>2. behavior[other][k] = DeadlineElapsedOk(TRUE)
    BY <1>2, <2>1, EarlierCommands
  <2>. QED  BY <1>4, <1>5, <2>1, <2>2 DEF ToldElapsed
<1>7. CASE k > Len(behavior[other])
  <2>1. other = id /\ k = Len(behavior[id]) + 1
    BY <1>1, <1>2, <1>4, <1>7, EarlierCommands
  <2>2. event = DeadlineElapsedOk(TRUE)
    <3>1. behavior'[id] = Append(behavior[id], event)
      BY DEF Stepped, Histories
    <3>2. behavior'[id][k] = event
      BY <1>1, <2>1, <3>1
    <3>. QED  BY <1>2, <2>1, <3>2
  <2>3. LastCommand(id) = [type |-> "DeadlineElapsed", deadline |-> deadline]
    BY <1>1, <1>5, <2>1 DEF LastCommand
  <2>4. deadline \in Deadlines(id)
    BY <1>1, <1>4, <1>5, <2>1, DeadlinesAre
  <2>5. behavior[id] # << >>
    BY <1>1, <1>4, <2>1
  <2>. QED  BY <2>1, <2>2, <2>3, <2>4, <2>5
<1>8. k <= Len(behavior[other]) \/ k > Len(behavior[other])
  BY <1>1, <1>4
<1>. QED  BY <1>6, <1>7, <1>8

\* What was sent stays sent ...
LEMMA HasSentAfter ==
    ASSUME NEW id, NEW event, Stepped(id, event), NEW src \in Id, NEW dst, NEW msg,
           HasSent(src, dst, msg)
    PROVE  HasSent(src, dst, msg)'
<1>1. PICK k \in 1 .. Len(behavior[src]) :
          CommandAfter(src, k) = [type |-> "Send", dst |-> dst, msg |-> msg]
  BY DEF HasSent
<1>2. Len(behavior[src]) \in Nat
  BY DEF Stepped, Histories
<1>3. k \in 1 .. Len(behavior'[src])
  BY <1>1, <1>2, EarlierCommands
<1>4. CommandAfter(src, k)' = [type |-> "Send", dst |-> dst, msg |-> msg]
  BY <1>1, EarlierCommands
<1>. QED  BY <1>3, <1>4 DEF HasSent

\* ... and a behavior has sent its last command.
LEMMA LastIsSent ==
    ASSUME Histories, NEW id \in Id, behavior[id] # << >>, NEW dst, NEW msg,
           LastCommand(id) = [type |-> "Send", dst |-> dst, msg |-> msg]
    PROVE  HasSent(id, dst, msg)
<1>1. Len(behavior[id]) \in 1 .. Len(behavior[id])
  BY DEF Histories
<1>. QED  BY <1>1 DEF HasSent, LastCommand

\* Only a deadline the behavior has is told to have elapsed.
LEMMA ToldElapsedExists ==
    ASSUME Histories, NEW id \in Id, NEW deadline, ToldElapsed(id, deadline)
    PROVE  deadline \in Deadlines(id)
<1>1. Len(behavior[id]) \in Nat
  BY DEF Histories
<1>2. PICK k \in 2 .. Len(behavior[id]) :
          \E l \in 1 .. k - 1 : behavior[id][l] = DeadlineOk(deadline)
  BY DEF ToldElapsed
<1>3. PICK l \in 1 .. k - 1 : behavior[id][l] = DeadlineOk(deadline)
  BY <1>2
<1>4. l \in 1 .. Len(behavior[id])
  BY <1>1, <1>2, <1>3
<1>. QED  BY <1>3, <1>4, DeadlinesAre

\* For the other behaviors nothing changes, but that more may be sent to them.
LEMMA OthersUnchanged ==
    ASSUME NEW id, NEW event, Stepped(id, event), NEW other \in Id \ {id}
    PROVE  /\ behavior'[other] = behavior[other]
           /\ LastCommand(other)' = LastCommand(other)
           /\ Deadlines(other)' = Deadlines(other)
           /\ \A deadline : ToldElapsed(other, deadline)' => ToldElapsed(other, deadline)
           /\ \A answer : IsAnswer(other, answer) => IsAnswer(other, answer)'
<1>1. behavior'[other] = behavior[other] /\ cfg_fn' = cfg_fn
  BY DEF Stepped, Histories
<1>2. LastCommand(other)' = LastCommand(other)
  BY <1>1 DEF LastCommand, CommandAfter
<1>3. Deadlines(other)' = Deadlines(other)
  BY <1>1 DEF Deadlines
<1>4. ASSUME NEW deadline
      PROVE  ToldElapsed(other, deadline)' <=> ToldElapsed(other, deadline)
  BY <1>1 DEF ToldElapsed, CommandAfter
<1>5. ASSUME NEW answer, IsAnswer(other, answer)
      PROVE  IsAnswer(other, answer)'
  <2>1. answer \in Event
    BY <1>5 DEF IsAnswer
  <2>2. answer.type = "RecvOk" => answer.src \in Id
    BY <2>1 DEF Event
  <2>3. answer.type = "RecvOk" /\ HasSent(answer.src, other, answer.msg)
            => HasSent(answer.src, other, answer.msg)'
    BY <2>2, HasSentAfter
  <2>. QED  BY <1>1, <1>2, <1>3, <1>4, <1>5, <2>3 DEF IsAnswer
<1>. QED  BY <1>1, <1>2, <1>3, <1>4, <1>5

\* A behavior that gets an answer takes a step of the abstract runtime.
LEMMA AnswerIsStep ==
    ASSUME NEW id, NEW event, Stepped(id, event), IsAnswer(id, event)
    PROVE  StepBehavior
<1>1. id \in Id /\ behavior[id] \in Seq(Event)
  BY DEF Stepped, Histories
<1>2. behavior'[id] = Append(behavior[id], event)
  BY DEF Stepped, Histories
<1>3. /\ Len(behavior'[id]) > Len(behavior[id])
      /\ behavior'[id][Len(behavior'[id])] = event
  BY <1>1, <1>2 DEF Stepped
<1>4. Answer(id, event)
  BY DEF Answer, Stepped
<1>. QED  BY <1>1, <1>3, <1>4 DEF StepBehavior

-----------------------------------------------------------------------------
(* The deadlines a runtime remembers                                       *)

\* The deadline the event brings.
Brings(event) == IF event.type = "DeadlineOk" THEN {event.deadline} ELSE {}

(***************************************************************************)
(* A runtime numbers deadlines below next, and those it holds for not yet  *)
(* elapsed are known to the behavior, or on their way to it, and were not  *)
(* told to have elapsed.                                                   *)
(***************************************************************************)
Remembers(id, deadlines, next, brought) ==
    /\ Deadlines(id) \cup brought \subseteq 0 .. next - 1
    /\ deadlines \subseteq Deadlines(id) \cup brought
    /\ \A deadline \in deadlines : ~ToldElapsed(id, deadline)

\* An event that tells of the end of a deadline which the runtime holds for
\* elapsed keeps it so, whatever the behavior does next.
LEMMA RemembersAfter ==
    ASSUME NEW id, NEW event, Stepped(id, event), NEW deadlines, NEW next,
           Remembers(id, deadlines, next, Brings(event)),
           event = DeadlineElapsedOk(TRUE) /\ behavior[id] # << >>
                => LastCommand(id).deadline \notin deadlines
    PROVE  /\ Deadlines(id)' \subseteq 0 .. next - 1
           /\ deadlines \subseteq Deadlines(id)'
           /\ \A deadline \in deadlines : ~ToldElapsed(id, deadline)'
<1>1. id \in Id /\ event \in Event
  BY DEF Stepped
<1>2. \A deadline : event = DeadlineOk(deadline) <=> deadline \in Brings(event)
  BY <1>1 DEF Event, DeadlineOk, Brings
<1>3. \A deadline : deadline \in Deadlines(id)'
                       <=> deadline \in Deadlines(id) \cup Brings(event)
  BY <1>1, <1>2, DeadlinesAfter
<1>4. ASSUME NEW deadline \in deadlines, ToldElapsed(id, deadline)'
      PROVE  FALSE
  <2>1. ~ToldElapsed(id, deadline)
    BY DEF Remembers
  <2>2. /\ event = DeadlineElapsedOk(TRUE)
        /\ behavior[id] # << >>
        /\ LastCommand(id) = [type |-> "DeadlineElapsed", deadline |-> deadline]
    BY <1>1, <1>4, <2>1, ToldElapsedAfter DEF DeadlineElapsedOk
  <2>. QED  BY <2>2
<1>5. Deadlines(id)' \subseteq 0 .. next - 1 /\ deadlines \subseteq Deadlines(id)'
  BY <1>3 DEF Remembers
<1>. QED  BY <1>4, <1>5

\* A step that takes no event changes nothing a history says.
LEMMA HistoryUnchanged ==
    ASSUME UNCHANGED <<cfg_fn, behavior>>
    PROVE  /\ \A id : LastCommand(id)' = LastCommand(id)
           /\ \A id : Deadlines(id)' = Deadlines(id)
           /\ \A id, deadline : ToldElapsed(id, deadline)' <=> ToldElapsed(id, deadline)
           /\ \A id, src, msg : HasSent(src, id, msg)' <=> HasSent(src, id, msg)
           /\ \A id, event : IsAnswer(id, event)' <=> IsAnswer(id, event)
           /\ \A id, deadlines, next, brought :
                 Remembers(id, deadlines, next, brought)
                    => Remembers(id, deadlines, next, brought)'
<1>1. ASSUME NEW id
      PROVE  LastCommand(id)' = LastCommand(id)
  BY DEF LastCommand, CommandAfter
<1>2. ASSUME NEW id, NEW src, NEW msg
      PROVE  HasSent(src, id, msg)' <=> HasSent(src, id, msg)
  BY DEF HasSent, CommandAfter
<1>3. ASSUME NEW id
      PROVE  Deadlines(id)' = Deadlines(id)
  BY DEF Deadlines
<1>4. ASSUME NEW id, NEW deadline
      PROVE  ToldElapsed(id, deadline)' <=> ToldElapsed(id, deadline)
  BY DEF ToldElapsed, CommandAfter
<1>5. ASSUME NEW id, NEW event
      PROVE  IsAnswer(id, event)' <=> IsAnswer(id, event)
  BY <1>1, <1>2, <1>3, <1>4 DEF IsAnswer
<1>6. ASSUME NEW id, NEW deadlines, NEW next, NEW brought,
             Remembers(id, deadlines, next, brought)
      PROVE  Remembers(id, deadlines, next, brought)'
  BY <1>3, <1>4, <1>6 DEF Remembers
<1>. QED  BY <1>1, <1>2, <1>3, <1>4, <1>5, <1>6

=============================================================================
