------------------------- MODULE SessionInputProofs -------------------------
(***************************************************************************)
(* A session's input, launch and hibernation, for every number of keys,    *)
(* sizes, freezes, losses, visits and restarts and every queue limit.      *)
(***************************************************************************)
EXTENDS SessionInput, SequenceTheorems, TLAPS

-----------------------------------------------------------------------------
(***************************************************************************)
(* Sequences.                                                              *)
(***************************************************************************)
LEMMA Bounds ==
  /\ MaxInputs \in Nat /\ QueueLimit \in Nat
  /\ Keys \subseteq Nat /\ Sizes \subseteq Nat /\ Keys \subseteq Sizes /\ 0 \in Sizes
  BY InputAssumption DEF Keys, Sizes

LEMMA Empty == <<>> \in Seq(Keys) /\ Len(<<>>) <= QueueLimit /\ ToSet(<<>>) = {}
<1>1. Len(<<>>) = 0
  OBVIOUS
<1> QED BY <1>1, Bounds DEF ToSet

LEMMA ToSetOfSeq == ASSUME NEW S, NEW s \in Seq(S) PROVE ToSet(s) \subseteq S
  BY DEF ToSet

LEMMA ToSetOfConcat ==
  ASSUME NEW S, NEW s \in Seq(S), NEW t \in Seq(S)
  PROVE  ToSet(s \o t) = ToSet(s) \cup ToSet(t)
<1>1. /\ Len(s) \in Nat /\ Len(t) \in Nat /\ DOMAIN s = 1..Len(s) /\ DOMAIN t = 1..Len(t)
      /\ DOMAIN (s \o t) = 1..(Len(s) + Len(t))
      /\ \A i \in 1..(Len(s) + Len(t)) :
           (s \o t)[i] = IF i <= Len(s) THEN s[i] ELSE t[i - Len(s)]
  BY LenProperties, ConcatProperties
<1>2. ToSet(s \o t) \subseteq ToSet(s) \cup ToSet(t)
  BY <1>1 DEF ToSet
<1>3. ToSet(s) \subseteq ToSet(s \o t)
  BY <1>1 DEF ToSet
<1>4. ASSUME NEW i \in DOMAIN t PROVE t[i] \in ToSet(s \o t)
  <2>1. i + Len(s) \in DOMAIN (s \o t) /\ (s \o t)[i + Len(s)] = t[i]
    BY <1>1
  <2> QED BY <2>1 DEF ToSet
<1> QED BY <1>2, <1>3, <1>4 DEF ToSet

LEMMA InputsOfKeys ==
  ASSUME NEW keys \in Seq(Keys)
  PROVE  /\ Inputs(keys) \in Seq(Message)
         /\ DOMAIN Inputs(keys) = DOMAIN keys
         /\ \A i \in DOMAIN keys : Inputs(keys)[i].type = "input" /\ Inputs(keys)[i].value = keys[i]
<1>1. Len(keys) \in Nat /\ DOMAIN keys = 1..Len(keys)
  BY LenProperties
<1>2. \A i \in 1..Len(keys) : Input(keys[i]) \in Message
  <2>1. \A i \in 1..Len(keys) : keys[i] \in Keys
    BY <1>1, ElementOfSeq
  <2> QED BY <2>1 DEF Input, Message
<1> QED BY <1>1, <1>2, IsASeq DEF Inputs, Input

LEMMA QueueInputFits ==
  ASSUME NEW queue \in Seq(Keys), Len(queue) <= QueueLimit, NEW bytes \in Seq(Keys)
  PROVE  QueueInput(queue, bytes) \in Seq(Keys) /\ Len(QueueInput(queue, bytes)) <= QueueLimit
<1>1. Len(queue \o bytes) = Len(queue) + Len(bytes) /\ queue \o bytes \in Seq(Keys)
  BY ConcatProperties
<1>2. Len(queue) \in Nat /\ Len(bytes) \in Nat
  BY LenProperties
<1> QED BY <1>1, <1>2, Bounds DEF QueueInput

-----------------------------------------------------------------------------
(***************************************************************************)
(* Types.                                                                  *)
(***************************************************************************)

\* What a wake or a write may change keeps its type.
Written ==
  /\ tree' \in {"none", "running", "stopped", "dead"} /\ pty' \in Seq(Keys)
  /\ deferred' \in [queue : Seq(Keys), pending : Sizes, cancelled : BOOLEAN]
  /\ writer' \in [channel : {"down", "open", "epoch"}, granted : BOOLEAN,
                  broken : BOOLEAN, queue : Seq(Keys), resize : Sizes]
  /\ Len(writer'.queue) <= QueueLimit
  /\ pipe' \in Seq(Message)
  /\ history' \in [lost : SUBSET Keys, overtook : SUBSET Keys, quiet : SUBSET Keys,
                   resized : BOOLEAN]

LEMMA NextInput ==
  ASSUME TypeOK, MayInput
  PROVE  typed + 1 \in Keys /\ typed + 1 \in Sizes /\ wanted + 1 \in Sizes /\ wanted + 1 # 0
<1>1. typed \in Sizes /\ wanted \in Sizes
  BY DEF TypeOK
<1>2. typed + wanted < MaxInputs
  BY DEF MayInput
<1> QED BY <1>1, <1>2, Bounds DEF Keys, Sizes

LEMMA CutType ==
  ASSUME TypeOK
  PROVE  /\ Cut(writer) \in [channel : {"down", "open", "epoch"}, granted : BOOLEAN,
                             broken : BOOLEAN, queue : Seq(Keys), resize : Sizes]
         /\ Cut(writer).queue = writer.queue /\ Cut(writer).resize = writer.resize
         /\ Cut(writer).channel = "down" /\ Cut(writer).granted = FALSE
         /\ Cut(writer).broken = FALSE
  BY DEF TypeOK, Cut

LEMMA TransmitType ==
  ASSUME TypeOK, NEW woken, NEW flush \in Seq(Keys), NEW keys \in Seq(Keys),
         NEW quiet \in SUBSET Keys, Transmit(woken, flush, keys, quiet)
  PROVE  Written
<1> DEFINE all == flush \o keys
           requeued == QueueInput(QueueInput(writer.queue, flush), keys)
<1>1. all \in Seq(Keys)
  BY ConcatProperties
<1>2. requeued \in Seq(Keys) /\ Len(requeued) <= QueueLimit
  BY QueueInputFits DEF TypeOK
<1>3. pty' \in Seq(Keys) /\ tree' \in {"none", "running", "stopped", "dead"}
  BY <1>1, ConcatProperties DEF TypeOK, Transmit
<1>4. deferred' \in [queue : Seq(Keys), pending : Sizes, cancelled : BOOLEAN]
  <2>1. deferred.queue \o all \in Seq(Keys)
    BY <1>1, ConcatProperties DEF TypeOK
  <2> QED BY <2>1 DEF TypeOK, Transmit
<1>5. pipe' \in Seq(Message)
  <2>1. Signal("CONT") \in Message
    BY Bounds DEF Signal, Message
  <2>2. <<Signal("CONT")>> \in Seq(Message) /\ <<>> \in Seq(Message)
    BY <2>1
  <2>3. Inputs(all) \in Seq(Message)
    BY <1>1, InputsOfKeys
  <2>4. pipe \in Seq(Message)
    BY DEF TypeOK, Message
  <2>5. \A s, t, u \in Seq(Message) : s \o t \o u \in Seq(Message)
    BY ConcatProperties
  <2> QED BY <2>2, <2>3, <2>4, <2>5 DEF Transmit
<1>6. /\ writer' \in [channel : {"down", "open", "epoch"}, granted : BOOLEAN,
                      broken : BOOLEAN, queue : Seq(Keys), resize : Sizes]
      /\ Len(writer'.queue) <= QueueLimit
  <2>1. CASE writer' = writer
    BY <2>1 DEF TypeOK
  <2>2. CASE writer' = [writer EXCEPT !.queue = requeued]
    BY <1>2, <2>2 DEF TypeOK
  <2>3. CASE writer' = [Cut(writer) EXCEPT !.queue = requeued]
    BY <1>2, <2>3, CutType DEF TypeOK
  <2> QED BY <2>1, <2>2, <2>3 DEF Transmit
<1>7. history' \in [lost : SUBSET Keys, overtook : SUBSET Keys, quiet : SUBSET Keys,
                    resized : BOOLEAN]
  <2>1. ToSet(all) \subseteq Keys
    BY <1>1, ToSetOfSeq
  <2> QED BY <2>1 DEF TypeOK, Transmit
<1> QED BY <1>3, <1>4, <1>5, <1>6, <1>7 DEF Written

LEMMA WakeAndWriteType ==
  ASSUME TypeOK, NEW wake, NEW keys \in Seq(Keys), NEW quiet \in SUBSET Keys,
         WakeAndWrite(wake, keys, quiet)
  PROVE  Written /\ queued_input' \in Seq(Keys) /\ {hibernated', hibernation'} \subseteq BOOLEAN
<1>1. queued_input \in Seq(Keys) /\ <<>> \in Seq(Keys)
  BY DEF TypeOK
<1>2. Written
  BY <1>1, TransmitType DEF WakeAndWrite
<1>3. queued_input' \in Seq(Keys)
  BY <1>1, ConcatProperties DEF WakeAndWrite
<1>4. hibernated' \in BOOLEAN /\ hibernation' \in BOOLEAN
  BY DEF WakeAndWrite
<1> QED BY <1>2, <1>3, <1>4

LEMMA LaunchTypes == ASSUME TypeOK, Launcher PROVE TypeOK'
<1>1. CASE DecideSize
  BY <1>1 DEF TypeOK, DecideSize, sessionVars, appVars, remoteVars, inputVars
<1>2. CASE HolderReady \/ LaunchFails
  BY <1>2 DEF TypeOK, HolderReady, LaunchFails, sessionVars, appVars, remoteVars, inputVars
<1>3. CASE FinishLaunch
  <2>1. <<>> \in Seq(Keys)
    OBVIOUS
  <2>2. handoff' \in [keys : Seq(Keys), size : Sizes]
    <3>1. CASE UNCHANGED handoff
      BY <3>1 DEF TypeOK
    <3>2. CASE handoff' = [keys |-> deferred.queue,
                           size |-> IF deferred.pending # size THEN deferred.pending ELSE NoSize]
      BY <3>2, Bounds DEF TypeOK, NoSize
    <3> QED BY <1>3, <3>1, <3>2 DEF FinishLaunch
  <2>3. deferred' \in [queue : Seq(Keys), pending : Sizes, cancelled : BOOLEAN]
    BY <1>3, <2>1 DEF TypeOK, FinishLaunch
  <2>4. /\ launch' \in {"flushing", "over"} /\ tree' \in {tree, "dead"}
        /\ UNCHANGED <<transport, pty, size, sessionVars, saved, appVars, remoteVars, removed,
                       inputVars, history>>
    BY <1>3 DEF FinishLaunch
  <2> QED BY <2>2, <2>3, <2>4 DEF TypeOK, sessionVars, appVars, remoteVars, inputVars
<1>4. CASE FlushLaunch
  <2>1. <<>> \in Seq(Keys) /\ pty \o handoff.keys \in Seq(Keys)
    BY ConcatProperties DEF TypeOK
  <2> QED BY <1>4, <2>1, Bounds DEF TypeOK, FlushLaunch, NoSize, sessionVars, appVars, remoteVars,
                                inputVars
<1> QED BY <1>1, <1>2, <1>3, <1>4 DEF Launcher

LEMMA HibernateTypes ==
  ASSUME TypeOK, Hibernate, governor' \in {"asleep", governor}, UNCHANGED client
  PROVE  TypeOK'
<1>1. pipe' \in Seq(Message)
  <2>1. Signal("STOP") \in Message /\ pipe \in Seq(Message)
    BY Bounds DEF Signal, Message, TypeOK
  <2> QED BY <2>1, AppendProperties DEF Hibernate
<1>2. /\ tree' \in {"stopped", tree} /\ hibernated' = TRUE /\ hibernation' = TRUE
      /\ UNCHANGED <<transport, pty, size, launch, deferred, handoff, queued_input, saved, writer,
                     removed, typed, wanted, history>>
  BY DEF Hibernate, launchVars, inputVars
<1> QED BY <1>1, <1>2 DEF TypeOK, Message

LEMMA SweepTypes == ASSUME TypeOK, Sweep PROVE TypeOK'
<1>1. CASE SweepRecord \/ SweepAttached \/ SweepPasses
  BY <1>1 DEF TypeOK, SweepRecord, SweepAttached, SweepPasses, childVars, launchVars, sessionVars,
              remoteVars, inputVars
<1>2. CASE SweepFreeze
  BY <1>2, HibernateTypes DEF SweepFreeze
<1> QED BY <1>1, <1>2 DEF Sweep

\* The variables no wake or write changes.
LEMMA WrittenTypes ==
  ASSUME TypeOK, Written, queued_input' \in Seq(Keys), {hibernated', hibernation'} \subseteq BOOLEAN,
         client' \in {client, "waking"}, typed' \in Sizes,
         UNCHANGED <<transport, size, launch, handoff, saved, governor, removed, wanted>>
  PROVE  TypeOK'
  BY DEF TypeOK, Written, Message

LEMMA AppTypes == ASSUME TypeOK, App PROVE TypeOK'
<1>1. <<>> \in Seq(Keys) /\ {} \in SUBSET Keys
  OBVIOUS
<1>2. ASSUME MayInput
      PROVE  /\ typed + 1 \in Keys /\ <<typed + 1>> \in Seq(Keys) /\ {typed + 1} \in SUBSET Keys
             /\ typed + 1 \in Sizes /\ wanted + 1 \in Sizes
  BY <1>2, NextInput
<1>3. CASE Attach \/ Wake
  <2>1. WakeAndWrite(TRUE, <<>>, {})
    BY <1>3 DEF Attach, Wake
  <2>2. /\ client' \in {client, "waking"} /\ typed' \in Sizes
        /\ UNCHANGED <<transport, size, launch, handoff, saved, governor, removed, wanted>>
    BY <1>3 DEF Attach, Wake, appVars, inputVars, TypeOK
  <2> QED BY <1>1, <2>1, <2>2, WakeAndWriteType, WrittenTypes
<1>4. CASE Type
  <2>1. WakeAndWrite(KnownHibernated, <<typed + 1>>, {}) /\ MayInput
    BY <1>4 DEF Type
  <2>2. /\ client' \in {client, "waking"} /\ typed' \in Sizes
        /\ UNCHANGED <<transport, size, launch, handoff, saved, governor, removed, wanted>>
    BY <1>2, <1>4 DEF Type, appVars
  <2> QED BY <1>1, <1>2, <2>1, <2>2, WakeAndWriteType, WrittenTypes
<1>5. CASE TypeQuietly
  <2>1. WakeAndWrite(FALSE, <<typed + 1>>, {typed + 1}) /\ MayInput
    BY <1>5 DEF TypeQuietly
  <2>2. /\ client' \in {client, "waking"} /\ typed' \in Sizes
        /\ UNCHANGED <<transport, size, launch, handoff, saved, governor, removed, wanted>>
    BY <1>2, <1>5 DEF TypeQuietly, appVars
  <2> QED BY <1>2, <2>1, <2>2, WakeAndWriteType, WrittenTypes
<1>6. CASE Resize
  <2>1. /\ wanted' = wanted + 1 /\ wanted + 1 \in Sizes
        /\ UNCHANGED <<transport, tree, pty, launch, handoff, hibernated, queued_input, hibernation,
                       saved, client, governor, removed, typed>>
    BY <1>2, <1>6 DEF Resize, sessionVars, appVars
  <2>2. deferred' \in [queue : Seq(Keys), pending : Sizes, cancelled : BOOLEAN] /\ size' \in Sizes
    BY <1>6, <2>1 DEF Resize, TypeOK
  <2>3. pipe' \in Seq(Message)
    <3>1. Size(wanted + 1) \in Message /\ pipe \in Seq(Message)
      BY <2>1 DEF Size, Message, TypeOK
    <3> QED BY <1>6, <3>1, AppendProperties DEF Resize
  <2>4. /\ writer' \in [channel : {"down", "open", "epoch"}, granted : BOOLEAN,
                        broken : BOOLEAN, queue : Seq(Keys), resize : Sizes]
        /\ Len(writer'.queue) <= QueueLimit
    <3>1. CASE writer' = writer
      BY <3>1 DEF TypeOK
    <3>2. CASE writer' = [writer EXCEPT !.resize = wanted + 1]
      BY <2>1, <3>2 DEF TypeOK
    <3>3. CASE writer' = [Cut(writer) EXCEPT !.resize = wanted + 1]
      BY <2>1, <3>3, CutType DEF TypeOK
    <3> QED BY <1>6, <3>1, <3>2, <3>3 DEF Resize
  <2>5. history' \in [lost : SUBSET Keys, overtook : SUBSET Keys, quiet : SUBSET Keys,
                      resized : BOOLEAN]
    BY <1>6 DEF Resize, TypeOK
  <2> QED BY <2>1, <2>2, <2>3, <2>4, <2>5 DEF TypeOK, Message
<1>7. CASE HibernateRequest
  BY <1>7, HibernateTypes DEF HibernateRequest, appVars
<1>8. CASE Register \/ Detach
  BY <1>8 DEF TypeOK, Register, Detach, childVars, launchVars, sessionVars, remoteVars, inputVars
<1>9. CASE Terminate
  <2>1. deferred' \in [queue : Seq(Keys), pending : Sizes, cancelled : BOOLEAN]
    BY <1>9 DEF Terminate, TypeOK
  <2>2. tree' \in {tree, "dead"} /\ removed' = TRUE
    BY <1>9 DEF Terminate, TypeOK, Held, Remote, Unlaunched
  <2>3. UNCHANGED <<transport, pty, size, launch, handoff, hibernated, queued_input, hibernation,
                    saved, client, governor, writer, pipe, typed, wanted, history>>
    BY <1>9 DEF Terminate, sessionVars, appVars, remoteVars, inputVars
  <2> QED BY <2>1, <2>2, <2>3 DEF TypeOK
<1> QED BY <1>3, <1>4, <1>5, <1>6, <1>7, <1>8, <1>9 DEF App

LEMMA RemoteTypes == ASSUME TypeOK, RemotePump \/ Deliver \/ Break PROVE TypeOK'
<1> DEFINE Writer == [channel : {"down", "open", "epoch"}, granted : BOOLEAN,
                      broken : BOOLEAN, queue : Seq(Keys), resize : Sizes]
           History == [lost : SUBSET Keys, overtook : SUBSET Keys, quiet : SUBSET Keys,
                       resized : BOOLEAN]
<1>1. ASSUME writer' \in Writer, Len(writer'.queue) <= QueueLimit, pipe' \in Seq(Message),
             history' \in History, UNCHANGED <<remoteOnly, childVars>>
      PROVE  TypeOK'
  BY <1>1 DEF TypeOK, Message, remoteOnly, childVars, launchVars, sessionVars, appVars, inputVars
<1>2. /\ writer \in Writer /\ Len(writer.queue) <= QueueLimit /\ pipe \in Seq(Message)
      /\ history \in History /\ <<>> \in Seq(Message) /\ <<>> \in Seq(Keys)
  BY DEF TypeOK, Message
<1>3. CASE Connect \/ AcceptHello
  BY <1>1, <1>2, <1>3 DEF Connect, AcceptHello
<1>4. CASE Disconnect
  <2>1. writer' \in Writer /\ Len(writer'.queue) <= QueueLimit
    BY <1>2, <1>4, CutType DEF Disconnect
  <2> QED BY <1>1, <1>2, <1>4, <2>1 DEF Disconnect
<1>5. CASE GrantControl
  <2> DEFINE resize == IF writer.resize # NoSize THEN <<Size(writer.resize)>> ELSE <<>>
             failed == IF resize # <<>> THEN [Cut(writer) EXCEPT !.resize = NoSize]
                       ELSE [Cut(writer) EXCEPT !.queue = <<>>]
  <2>1. resize \in Seq(Message) /\ Inputs(writer.queue) \in Seq(Message)
    <3>1. Size(writer.resize) \in Message
      BY DEF TypeOK, Size, Message
    <3>2. <<Size(writer.resize)>> \in Seq(Message)
      BY <3>1
    <3> QED BY <1>2, <3>2, InputsOfKeys
  <2>2. CASE /\ writer' = failed /\ UNCHANGED pipe
             /\ history' = [history EXCEPT
                  !.lost = @ \cup (ToSet(writer.queue) \ ToSet(failed.queue)),
                  !.resized = @ \/ resize # <<>>]
    <3>1. history' \in History
      <4>1. ToSet(writer.queue) \subseteq Keys
        BY <1>2, ToSetOfSeq
      <4> QED BY <1>2, <2>2, <4>1
    <3>2. writer' \in Writer /\ Len(writer'.queue) <= QueueLimit
      <4>1. CASE writer' = [Cut(writer) EXCEPT !.resize = NoSize]
        BY <1>2, <4>1, CutType, Bounds DEF NoSize
      <4>2. CASE writer' = [Cut(writer) EXCEPT !.queue = <<>>]
        <5>1. writer' \in Writer /\ writer'.queue = <<>>
          BY <1>2, <4>2, CutType
        <5> QED BY <5>1, Empty
      <4> QED BY <2>2, <4>1, <4>2
    <3> QED BY <1>1, <1>2, <1>5, <2>2, <3>1, <3>2 DEF GrantControl
  <2>3. CASE /\ writer' = [writer EXCEPT !.granted = TRUE, !.queue = <<>>, !.resize = NoSize]
             /\ pipe' = pipe \o resize \o Inputs(writer.queue) /\ UNCHANGED history
    <3>1. pipe' \in Seq(Message)
      BY <1>2, <2>1, <2>3, ConcatProperties
    <3>2. writer' \in Writer /\ Len(writer'.queue) <= QueueLimit
      <4>1. writer' \in Writer /\ writer'.queue = <<>>
        BY <1>2, <2>3, Bounds DEF NoSize
      <4> QED BY <4>1, Empty
    <3> QED BY <1>1, <1>2, <1>5, <2>3, <3>1, <3>2 DEF GrantControl
  <2> QED BY <1>5, <2>2, <2>3 DEF GrantControl
<1>6. CASE Deliver
  <2>1. Head(pipe) \in Message /\ Tail(pipe) \in Seq(Message)
    BY <1>2, <1>6, HeadTailProperties DEF Deliver
  <2>2. /\ pipe' \in Seq(Message) /\ UNCHANGED <<remoteOnly, writer, history>>
    BY <1>6, <2>1 DEF Deliver
  <2>3. size' \in Sizes /\ tree' \in {"none", "running", "stopped", "dead"}
    BY <1>6, <2>1 DEF Deliver, TypeOK, Message
  <2>4. pty' \in Seq(Keys)
    <3>1. Head(pipe).type = "input" => Head(pipe).value \in Keys
      BY <2>1 DEF Message
    <3> QED BY <1>6, <3>1, AppendProperties DEF Deliver, TypeOK
  <2> QED BY <2>2, <2>3, <2>4
          DEF TypeOK, Message, remoteOnly, launchVars, sessionVars, appVars, inputVars
<1>7. CASE Break
  <2>1. pipe' = <<>> /\ UNCHANGED <<remoteOnly, childVars>>
    BY <1>7 DEF Break
  <2>2. writer' \in Writer /\ Len(writer'.queue) <= QueueLimit
    BY <1>2, <1>7 DEF Break
  <2>3. history' \in History
    <3>1. {pipe[i].value : i \in {j \in DOMAIN pipe : pipe[j].type = "input"}} \subseteq Keys
      <4>1. \A i \in DOMAIN pipe : pipe[i] \in Message
        BY <1>2, ElementOfSeq, LenProperties
      <4> QED BY <4>1 DEF Message
    <3> QED BY <1>2, <1>7, <3>1 DEF Break
  <2> QED BY <1>1, <1>2, <2>1, <2>2, <2>3
<1> QED BY <1>3, <1>4, <1>5, <1>6, <1>7 DEF RemotePump

LEMMA RestartTypes == ASSUME TypeOK, Restart PROVE TypeOK'
<1>1. /\ deferred' \in [queue : Seq(Keys), pending : Sizes, cancelled : BOOLEAN]
      /\ handoff' \in [keys : Seq(Keys), size : Sizes]
  BY Empty, Bounds DEF Restart, NoSize
<1>2. /\ writer' \in [channel : {"down", "open", "epoch"}, granted : BOOLEAN,
                      broken : BOOLEAN, queue : Seq(Keys), resize : Sizes]
      /\ Len(writer'.queue) <= QueueLimit
  <2>1. writer' = [Cut(writer) EXCEPT !.queue = <<>>, !.resize = NoSize]
    BY DEF Restart
  <2>2. /\ writer' \in [channel : {"down", "open", "epoch"}, granted : BOOLEAN,
                        broken : BOOLEAN, queue : Seq(Keys), resize : Sizes]
        /\ writer'.queue = <<>>
    BY <2>1, CutType, Bounds, Empty DEF NoSize
  <2> QED BY <2>2, Empty
<1>3. history' \in [lost : SUBSET Keys, overtook : SUBSET Keys, quiet : SUBSET Keys,
                    resized : BOOLEAN]
  <2>1. 1..typed \subseteq Keys
    BY Bounds DEF TypeOK, Keys, Sizes
  <2> QED BY <2>1 DEF Restart, TypeOK
<1>4. /\ hibernation' = saved /\ (hibernated' \in BOOLEAN) /\ queued_input' = <<>>
      /\ launch' = "pumping" /\ client' = "away" /\ governor' = "asleep" /\ pipe' = <<>>
      /\ UNCHANGED <<transport, tree, pty, size, saved, removed, typed, wanted>>
  BY DEF Restart, childVars, inputVars
<1>5. pipe' \in Seq(Message)
  BY <1>4
<1> QED BY <1>1, <1>2, <1>3, <1>4, <1>5, Empty DEF TypeOK

\* Every variable keeps its type, and the reconnect queue never exceeds
\* MAX_QUEUED_INPUT, however often the channel fails before it is flushed.
THEOREM TypeCorrect == Spec => []TypeOK
<1>1. Init => TypeOK
  <2> SUFFICES ASSUME Init PROVE TypeOK
    OBVIOUS
  <2>1. /\ writer \in [channel : {"down", "open", "epoch"}, granted : BOOLEAN,
                       broken : BOOLEAN, queue : Seq(Keys), resize : Sizes]
        /\ Len(writer.queue) <= QueueLimit
    BY Empty, Bounds DEF Init, NoSize
  <2>2. /\ deferred \in [queue : Seq(Keys), pending : Sizes, cancelled : BOOLEAN]
        /\ handoff \in [keys : Seq(Keys), size : Sizes]
    BY Empty, Bounds DEF Init, NoSize
  <2>3. history \in [lost : SUBSET Keys, overtook : SUBSET Keys, quiet : SUBSET Keys,
                     resized : BOOLEAN]
    BY DEF Init, NoHistory
  <2>4. pipe \in Seq(Message) /\ pty \in Seq(Keys) /\ queued_input \in Seq(Keys)
    BY DEF Init
  <2>5. /\ transport \in {"held", "remote"} /\ tree \in {"none", "running", "stopped", "dead"}
        /\ launch \in {"waiting", "launching", "ready", "flushing", "pumping", "failed", "over"}
    BY DEF Init
  <2> QED BY <2>1, <2>2, <2>3, <2>4, <2>5, Bounds DEF Init, TypeOK
<1>2. TypeOK /\ [Next]_vars => TypeOK'
  <2> SUFFICES ASSUME TypeOK, [Next]_vars PROVE TypeOK'
    OBVIOUS
  <2>1. CASE Persist
    BY <2>1 DEF TypeOK, Persist, childVars, launchVars, sessionVars, appVars, remoteVars, inputVars
  <2>2. CASE UNCHANGED vars
    BY <2>2 DEF TypeOK, vars, childVars, launchVars, sessionVars, appVars, remoteVars, inputVars
  <2> QED BY <2>1, <2>2, LaunchTypes, SweepTypes, AppTypes, RemoteTypes, RestartTypes DEF Next
<1> QED BY <1>1, <1>2, PTL DEF Spec

-----------------------------------------------------------------------------
(***************************************************************************)
(* The launch and the child.                                               *)
(***************************************************************************)

\* What the launch has come to, the child and the cancellation agree: before
\* the Holder answers there is no child; once it answered there is a live one
\* until the session is removed; and a launch that a removal found unfinished
\* is cancelled. A local session has no channel.
ChildInv ==
  /\ Held =>
       /\ launch \in {"waiting", "launching"} => tree = "none"
       /\ launch = "over" => removed /\ tree \in {"none", "dead"}
       /\ launch \in {"ready", "flushing", "pumping"} /\ ~removed => Alive
       /\ launch \in {"flushing", "pumping"} /\ removed => tree = "dead"
       /\ Unlaunched /\ removed => deferred.cancelled
       /\ pipe = <<>> /\ writer.channel = "down"
  /\ Remote => launch = "pumping"
  /\ deferred.cancelled => removed

\* A step that kills no child, starts none, and is not of the launch.
LEMMA ChildKept ==
  ASSUME ChildInv, UNCHANGED <<transport, launch, removed>>,
         deferred'.cancelled = deferred.cancelled,
         Held => tree' = tree \/ (Alive /\ Alive'),
         Held => pipe' = pipe /\ writer'.channel = writer.channel
  PROVE  ChildInv'
<1> USE DEF Held, Remote, Unlaunched
<1>1. Remote => launch' = "pumping" /\ (deferred'.cancelled => removed')
  BY DEF ChildInv
<1>2. ASSUME Held PROVE ChildInv'
  <2>1. CASE tree' = tree
    BY <1>2, <2>1 DEF ChildInv, Alive
  <2>2. CASE Alive /\ Alive'
    BY <1>2, <2>2 DEF ChildInv, Alive
  <2> QED BY <1>2, <2>1, <2>2
<1> QED BY <1>1, <1>2 DEF ChildInv

LEMMA WriteKeepsChild ==
  ASSUME TypeOK, ChildInv, NEW wake, NEW keys, NEW quiet, WakeAndWrite(wake, keys, quiet),
         UNCHANGED <<transport, launch, removed>>
  PROVE  ChildInv'
<1>1. PICK woken, flush, more : Transmit(woken, flush, more, quiet)
  BY DEF WakeAndWrite
<1>2. deferred'.cancelled = deferred.cancelled
  BY <1>1 DEF Transmit, TypeOK
<1>3. Held => tree' = tree \/ (Alive /\ Alive')
  BY <1>1 DEF Transmit, Alive
<1>4. Held => pipe' = pipe /\ writer'.channel = writer.channel
  BY <1>1 DEF Transmit, Held, Remote
<1> QED BY <1>2, <1>3, <1>4, ChildKept

LEMMA LauncherKeepsChild == ASSUME TypeOK, ChildInv, Launcher PROVE ChildInv'
<1> USE DEF Held, Remote, Unlaunched
<1>1. /\ UNCHANGED <<transport, removed, pipe, writer>>
      /\ deferred'.cancelled = deferred.cancelled
  BY DEF Launcher, DecideSize, HolderReady, LaunchFails, FinishLaunch, FlushLaunch, remoteVars,
         TypeOK
<1>2. Held
  BY DEF Launcher, DecideSize, HolderReady, LaunchFails, FinishLaunch, FlushLaunch, ChildInv,
         TypeOK
<1>3. CASE DecideSize
  BY <1>1, <1>2, <1>3 DEF DecideSize, ChildInv
<1>4. CASE HolderReady \/ LaunchFails
  BY <1>1, <1>2, <1>4 DEF HolderReady, LaunchFails, ChildInv, Alive
<1>5. CASE FinishLaunch
  BY <1>1, <1>2, <1>5 DEF FinishLaunch, ChildInv, Alive
<1>6. CASE FlushLaunch
  BY <1>1, <1>2, <1>6 DEF FlushLaunch, ChildInv, Alive
<1> QED BY <1>3, <1>4, <1>5, <1>6 DEF Launcher

LEMMA HibernateKeepsChild ==
  ASSUME TypeOK, ChildInv, Hibernate PROVE ChildInv'
<1>1. /\ UNCHANGED <<transport, launch, removed, deferred, writer>>
  BY DEF Hibernate, launchVars
<1>2. Held => pipe' = pipe /\ Alive /\ Alive'
  BY DEF Hibernate, Held, Remote, CanSignal, Alive
<1> QED BY <1>1, <1>2, ChildKept

LEMMA AppKeepsChild == ASSUME TypeOK, ChildInv, App \/ Sweep PROVE ChildInv'
<1>1. CASE Attach
  BY <1>1, WriteKeepsChild DEF Attach
<1>2. CASE Wake
  BY <1>2, WriteKeepsChild DEF Wake
<1>3. CASE Type
  BY <1>3, WriteKeepsChild DEF Type
<1>4. CASE TypeQuietly
  BY <1>4, WriteKeepsChild DEF TypeQuietly
<1>5. CASE HibernateRequest \/ SweepFreeze
  BY <1>5, HibernateKeepsChild DEF HibernateRequest, SweepFreeze
<1>6. CASE Register \/ Detach \/ SweepRecord \/ SweepAttached \/ SweepPasses
  BY <1>6, ChildKept DEF Register, Detach, SweepRecord, SweepAttached, SweepPasses,
                         childVars, launchVars, remoteVars
<1>7. CASE Resize
  <2>1. UNCHANGED <<transport, tree, launch, removed>> /\ deferred'.cancelled = deferred.cancelled
    BY <1>7 DEF Resize, TypeOK
  <2>2. Held => pipe' = pipe /\ writer' = writer
    BY <1>7 DEF Resize, Held, Remote
  <2> QED BY <2>1, <2>2, ChildKept
<1>8. CASE Terminate
  <2>1. ~removed /\ removed' /\ UNCHANGED <<transport, launch, pipe, writer>>
    BY <1>8 DEF Terminate, remoteVars
  <2>2. CASE Unlaunched
    <3>1. deferred'.cancelled /\ tree' = tree
      BY <1>8, <2>2 DEF Terminate, TypeOK, Held, Remote, Unlaunched
    <3> QED BY <2>1, <2>2, <3>1 DEF ChildInv, Held, Remote, Unlaunched, Alive
  <2>3. CASE Held /\ ~Unlaunched
    <3>1. deferred' = deferred /\ tree' = "dead"
      BY <1>8, <2>3 DEF Terminate, Held, Remote, Unlaunched
    <3> QED BY <2>1, <2>3, <3>1 DEF ChildInv, Held, Remote, Unlaunched
  <2>4. CASE Remote
    BY <1>8, <2>1, <2>4 DEF ChildInv, Held, Remote
  <2> QED BY <2>2, <2>3, <2>4 DEF TypeOK, Held, Remote
<1> QED BY <1>1, <1>2, <1>3, <1>4, <1>5, <1>6, <1>7, <1>8 DEF App, Sweep

LEMMA RemoteKeepsChild ==
  ASSUME TypeOK, ChildInv, RemotePump \/ Deliver \/ Break PROVE ChildInv'
<1>1. UNCHANGED <<transport, launch, removed, deferred>>
  BY DEF RemotePump, Connect, AcceptHello, GrantControl, Disconnect, Deliver, Break, remoteOnly,
         launchVars
<1>2. ASSUME Held PROVE UNCHANGED <<tree, pipe>> /\ writer'.channel = writer.channel
  <2>1. pipe = <<>> /\ writer.channel = "down"
    BY <1>2 DEF ChildInv
  <2>2. CASE Disconnect
    BY <2>1, <2>2, CutType DEF Disconnect, childVars
  <2> QED BY <1>2, <2>1, <2>2 DEF RemotePump, Connect, AcceptHello, GrantControl, Deliver, Break,
                                  Through, Held, Remote
<1> QED BY <1>1, <1>2, ChildKept

LEMMA ChildInvariant == Spec => []ChildInv
<1>1. Init => ChildInv
  BY DEF Init, ChildInv, Held, Remote, Unlaunched
<1>2. TypeOK /\ ChildInv /\ [Next]_vars => ChildInv'
  <2> SUFFICES ASSUME TypeOK, ChildInv, [Next]_vars PROVE ChildInv'
    OBVIOUS
  <2>1. CASE Persist \/ UNCHANGED vars
    BY <2>1, ChildKept DEF Persist, vars, childVars, launchVars, remoteVars
  <2>2. CASE Restart
    <3>1. writer'.channel = "down"
      BY <2>2, CutType DEF Restart
    <3>2. /\ launch' = "pumping" /\ pipe' = <<>> /\ ~deferred'.cancelled /\ ~removed
          /\ UNCHANGED <<transport, tree, removed>> /\ Alive
      BY <2>2 DEF Restart, childVars
    <3> QED BY <3>1, <3>2 DEF ChildInv, Held, Remote, Unlaunched, Alive
  <2> QED BY <2>1, <2>2, LauncherKeepsChild, AppKeepsChild, RemoteKeepsChild DEF Next
<1> QED BY <1>1, <1>2, TypeCorrect, PTL DEF Spec

\* However a terminate falls among the launcher's steps, no child of a removed
\* local session is left once the launcher is done.
THEOREM NoChildIsOrphaned == Spec => []NoOrphan
<1>1. ChildInv => NoOrphan
  BY DEF ChildInv, NoOrphan
<1> QED BY <1>1, ChildInvariant, PTL

-----------------------------------------------------------------------------
(***************************************************************************)
(* Hibernation.                                                            *)
(***************************************************************************)

\* A step that freezes no tree, and queues no key for a frozen one.
LEMMA FrozenKept ==
  ASSUME FrozenTreeCanWake, UNCHANGED transport,
         Held => \/ tree' # "stopped" \/ client' = "away"
                 \/ tree = "stopped" /\ client # "away" /\ UNCHANGED <<hibernated, hibernation>>,
         queued_input' \in {queued_input, <<>>}, history.quiet \subseteq history'.quiet
  PROVE  FrozenTreeCanWake'
  BY Empty DEF FrozenTreeCanWake, Held

\* A local session that is there and launched has a live child, so that a wake
\* reaches it: what queues was written without one.
LEMMA WriteKeepsFrozen ==
  ASSUME TypeOK, ChildInv, FrozenTreeCanWake, ~removed, UNCHANGED transport,
         NEW wake \in BOOLEAN, NEW keys \in Seq(Keys), NEW quiet \in SUBSET Keys,
         WakeAndWrite(wake, keys, quiet),
         ToSet(keys) \subseteq quiet \/ (hibernated => wake) \/ keys = <<>>,
         client' = client \/ wake
  PROVE  FrozenTreeCanWake'
<1> SUFFICES ASSUME Held PROVE FrozenTreeCanWake'
  BY DEF FrozenTreeCanWake, Held
<1>1. PICK woken, flush, more :
        Transmit(woken, flush, more, quiet) /\ woken = (wake /\ CanSignal)
  BY DEF WakeAndWrite
<1>2. history'.quiet = history.quiet \cup quiet
  BY <1>1 DEF Transmit, TypeOK
<1>3. (CanSignal <=> Alive) /\ (tree' = "stopped" => tree = "stopped")
  BY <1>1 DEF CanSignal, Transmit
<1>4. CASE wake /\ CanSignal
  <2>1. tree' # "stopped" /\ queued_input' = <<>>
    BY <1>1, <1>4 DEF WakeAndWrite, Transmit
  <2> QED BY <1>2, <2>1, FrozenKept
<1>5. CASE ~(wake /\ CanSignal)
  <2>1. (hibernated' <=> hibernated) /\ (hibernation' <=> hibernation)
    BY <1>5 DEF WakeAndWrite
  <2>2. client' # "away" /\ tree' = "stopped" => hibernated' /\ hibernation'
    BY <1>3, <1>5, <2>1 DEF FrozenTreeCanWake, Alive
  <2>3. ToSet(queued_input') \subseteq history'.quiet
    <3>1. CASE queued_input' = queued_input
      BY <1>2, <3>1 DEF FrozenTreeCanWake
    <3>2. CASE hibernated /\ ~Unlaunched /\ queued_input' = queued_input \o keys
      <4>1. CanSignal
        <5>1. launch \notin {"waiting", "launching", "ready", "failed", "over"}
          BY <3>2 DEF Unlaunched, ChildInv
        <5> QED BY <1>3, <5>1 DEF ChildInv, TypeOK
      <4>2. ToSet(keys) \subseteq quiet
        BY <1>5, <3>2, <4>1, Empty
      <4>3. ToSet(queued_input') = ToSet(queued_input) \cup ToSet(keys)
        BY <3>2, ToSetOfConcat DEF TypeOK
      <4> QED BY <1>2, <4>2, <4>3 DEF FrozenTreeCanWake
    <3> QED BY <1>5, <3>1, <3>2 DEF WakeAndWrite
  <2> QED BY <2>2, <2>3 DEF FrozenTreeCanWake
<1> QED BY <1>4, <1>5

LEMMA HibernateKeepsFrozen ==
  ASSUME FrozenTreeCanWake, Hibernate PROVE FrozenTreeCanWake'
  BY DEF Hibernate, FrozenTreeCanWake, Held

LEMMA AppKeepsFrozen ==
  ASSUME TypeOK, ChildInv, FrozenTreeCanWake, App \/ Sweep PROVE FrozenTreeCanWake'
<1>1. <<>> \in Seq(Keys) /\ {} \in SUBSET Keys
  OBVIOUS
<1>2. ASSUME MayInput
      PROVE  /\ <<typed + 1>> \in Seq(Keys) /\ {typed + 1} \in SUBSET Keys
             /\ ToSet(<<typed + 1>>) \subseteq {typed + 1} /\ ~removed
  <2>1. typed + 1 \in Keys
    BY <1>2, NextInput
  <2> QED BY <1>2, <2>1 DEF ToSet, MayInput
<1>3. CASE Attach
  BY <1>1, <1>3, WriteKeepsFrozen DEF Attach
<1>4. CASE Wake
  BY <1>1, <1>4, WriteKeepsFrozen DEF Wake
<1>5. CASE Type
  <2>1. /\ WakeAndWrite(KnownHibernated, <<typed + 1>>, {}) /\ MayInput
        /\ UNCHANGED <<transport, client>>
    BY <1>5 DEF Type, appVars
  <2>2. KnownHibernated \in BOOLEAN /\ (hibernated => KnownHibernated)
    BY DEF KnownHibernated
  <2> QED BY <1>1, <1>2, <2>1, <2>2, WriteKeepsFrozen
<1>6. CASE TypeQuietly
  <2>1. /\ WakeAndWrite(FALSE, <<typed + 1>>, {typed + 1}) /\ MayInput
        /\ UNCHANGED <<transport, client>>
    BY <1>6 DEF TypeQuietly, appVars
  <2> QED BY <1>2, <2>1, WriteKeepsFrozen
<1>7. CASE HibernateRequest \/ SweepFreeze
  BY <1>7, HibernateKeepsFrozen DEF HibernateRequest, SweepFreeze
<1>8. CASE Register \/ Detach \/ SweepRecord \/ SweepAttached \/ SweepPasses
  BY <1>8, FrozenKept DEF Register, Detach, SweepRecord, SweepAttached, SweepPasses,
                          childVars, sessionVars
<1>9. CASE Resize
  <2>1. UNCHANGED <<transport, tree, client, hibernated, hibernation, queued_input>>
    BY <1>9 DEF Resize, sessionVars, appVars
  <2>2. history'.quiet = history.quiet
    BY <1>9 DEF Resize, TypeOK
  <2> QED BY <2>1, <2>2, FrozenKept
<1>10. CASE Terminate
  <2>1. UNCHANGED <<transport, client, hibernated, hibernation, queued_input, history>>
    BY <1>10 DEF Terminate, sessionVars, appVars
  <2>2. tree' \in {"dead", tree}
    BY <1>10 DEF Terminate, Held, Remote, Unlaunched, TypeOK
  <2> QED BY <2>1, <2>2, FrozenKept
<1> QED BY <1>3, <1>4, <1>5, <1>6, <1>7, <1>8, <1>9, <1>10 DEF App, Sweep

\* A local session that somebody looks at is never stopped behind the back of
\* its record, and no key of a user waits in its hibernation queue, however
\* the sweep, the handshake, keystrokes and restarts interleave.
THEOREM FrozenSessionsCanWake == Spec => []FrozenTreeCanWake
<1>1. Init => FrozenTreeCanWake
  BY Empty DEF Init, FrozenTreeCanWake
<1>2. TypeOK /\ ChildInv /\ FrozenTreeCanWake /\ [Next]_vars => FrozenTreeCanWake'
  <2> SUFFICES ASSUME TypeOK, ChildInv, FrozenTreeCanWake, [Next]_vars PROVE FrozenTreeCanWake'
    OBVIOUS
  <2>1. CASE Persist \/ UNCHANGED vars
    BY <2>1, FrozenKept DEF Persist, vars, childVars, sessionVars, appVars
  <2>2. CASE Restart
    <3>1. client' = "away" /\ queued_input' = <<>> /\ UNCHANGED transport
      BY <2>2 DEF Restart
    <3>2. history'.quiet = history.quiet
      BY <2>2 DEF Restart, TypeOK
    <3> QED BY <3>1, <3>2, FrozenKept
  <2>3. CASE Launcher
    <3>1. UNCHANGED <<transport, client, hibernated, hibernation, queued_input, history>>
      BY <2>3 DEF Launcher, DecideSize, HolderReady, LaunchFails, FinishLaunch, FlushLaunch,
                  sessionVars, appVars
    <3>2. tree' = tree \/ tree' # "stopped"
      BY <2>3 DEF Launcher, DecideSize, HolderReady, LaunchFails, FinishLaunch, FlushLaunch
    <3> QED BY <3>1, <3>2, FrozenKept
  <2>4. CASE RemotePump \/ Deliver \/ Break
    <3>1. UNCHANGED <<transport, client, hibernated, hibernation, queued_input>>
      BY <2>4 DEF RemotePump, Connect, AcceptHello, GrantControl, Disconnect, Deliver, Break,
                  remoteOnly, sessionVars, appVars
    <3>2. Held => tree' = tree
      BY <2>4 DEF RemotePump, Connect, AcceptHello, GrantControl, Disconnect, Deliver, Break,
                  childVars, ChildInv
    <3>3. history'.quiet = history.quiet
      BY <2>4 DEF RemotePump, Connect, AcceptHello, GrantControl, Disconnect, Deliver, Break,
                  TypeOK
    <3> QED BY <3>1, <3>2, <3>3, FrozenKept
  <2> QED BY <2>1, <2>2, <2>3, <2>4, AppKeepsFrozen DEF Next
<1> QED BY <1>1, <1>2, TypeCorrect, ChildInvariant, PTL DEF Spec

-----------------------------------------------------------------------------
(***************************************************************************)
(* The size.                                                               *)
(***************************************************************************)

\* Where the sizes are in what the channel carries, and whether s is the last.
SizesIn(p) == {i \in DOMAIN p : p[i].type = "resize"}
Latest(p, s) == \E i \in SizesIn(p) : p[i].value = s /\ \A j \in SizesIn(p) : j <= i

LEMMA SizesOfConcat ==
  ASSUME NEW p \in Seq(Message), NEW t \in Seq(Message), SizesIn(t) = {}
  PROVE  /\ SizesIn(p \o t) = SizesIn(p)
         /\ \A s : Latest(p, s) => Latest(p \o t, s)
<1>1. /\ Len(p) \in Nat /\ Len(t) \in Nat /\ DOMAIN p = 1..Len(p) /\ DOMAIN t = 1..Len(t)
      /\ DOMAIN (p \o t) = 1..(Len(p) + Len(t))
      /\ \A i \in 1..(Len(p) + Len(t)) :
           (p \o t)[i] = IF i <= Len(p) THEN p[i] ELSE t[i - Len(p)]
  BY LenProperties, ConcatProperties
<1>2. \A i \in 1..Len(t) : t[i].type # "resize"
  BY <1>1 DEF SizesIn
<1>3. SizesIn(p \o t) = SizesIn(p)
  <2>1. ASSUME NEW i \in 1..(Len(p) + Len(t)), (p \o t)[i].type = "resize" PROVE i \in SizesIn(p)
    <3>1. CASE i <= Len(p)
      BY <1>1, <2>1, <3>1 DEF SizesIn
    <3>2. CASE i > Len(p)
      <4>1. i - Len(p) \in 1..Len(t) /\ (p \o t)[i] = t[i - Len(p)]
        BY <1>1, <3>2
      <4> QED BY <1>2, <2>1, <4>1
    <3> QED BY <1>1, <3>1, <3>2
  <2>2. SizesIn(p) \subseteq SizesIn(p \o t)
    BY <1>1 DEF SizesIn
  <2> QED BY <1>1, <2>1, <2>2 DEF SizesIn
<1>4. \A i \in SizesIn(p) : (p \o t)[i] = p[i]
  BY <1>1 DEF SizesIn
<1> QED BY <1>3, <1>4 DEF Latest

LEMMA SizesOfAppend ==
  ASSUME NEW p \in Seq(Message), NEW s, Size(s) \in Message
  PROVE  SizesIn(Append(p, Size(s))) # {} /\ Latest(Append(p, Size(s)), s)
<1> DEFINE q == Append(p, Size(s))
<1>1. Len(p) \in Nat /\ DOMAIN q = 1..(Len(p) + 1) /\ q[Len(p) + 1] = Size(s)
  BY AppendProperties, LenProperties
<1>2. Len(p) + 1 \in SizesIn(q) /\ q[Len(p) + 1].value = s
  BY <1>1 DEF SizesIn, Size
<1>3. \A j \in SizesIn(q) : j <= Len(p) + 1
  BY <1>1 DEF SizesIn
<1> QED BY <1>2, <1>3 DEF Latest

LEMMA SizesOfTail ==
  ASSUME NEW p \in Seq(Message), p # <<>>
  PROVE  /\ SizesIn(p) = {} => Head(p).type # "resize" /\ SizesIn(Tail(p)) = {}
         /\ \A s : Latest(p, s) =>
              \/ Latest(Tail(p), s)
              \/ SizesIn(Tail(p)) = {} /\ Head(p).type = "resize" /\ Head(p).value = s
<1>1. /\ Len(p) \in Nat /\ Len(p) > 0 /\ DOMAIN p = 1..Len(p) /\ DOMAIN Tail(p) = 1..(Len(p) - 1)
      /\ Head(p) = p[1] /\ \A i \in 1..(Len(p) - 1) : Tail(p)[i] = p[i + 1]
  BY HeadTailProperties, LenProperties
<1>2. \A i \in 1..(Len(p) - 1) : i \in SizesIn(Tail(p)) <=> i + 1 \in SizesIn(p)
  BY <1>1 DEF SizesIn
<1>3. SizesIn(p) = {} => Head(p).type # "resize" /\ SizesIn(Tail(p)) = {}
  BY <1>1 DEF SizesIn
<1>4. ASSUME NEW s, Latest(p, s)
      PROVE  \/ Latest(Tail(p), s)
             \/ SizesIn(Tail(p)) = {} /\ Head(p).type = "resize" /\ Head(p).value = s
  <2>1. PICK i \in SizesIn(p) : p[i].value = s /\ \A j \in SizesIn(p) : j <= i
    BY <1>4 DEF Latest
  <2>2. i \in 1..Len(p) /\ p[i].type = "resize"
    BY <1>1 DEF SizesIn
  <2>3. \A j \in SizesIn(Tail(p)) : j \in 1..(Len(p) - 1) /\ j + 1 <= i
    BY <1>1, <1>2, <2>1 DEF SizesIn
  <2>4. CASE i = 1
    <3>1. SizesIn(Tail(p)) = {}
      <4> SUFFICES ASSUME NEW j \in SizesIn(Tail(p)) PROVE FALSE
        OBVIOUS
      <4> QED BY <2>3, <2>4
    <3> QED BY <1>1, <2>1, <2>2, <2>4, <3>1
  <2>5. CASE i # 1
    <3>1. i - 1 \in 1..(Len(p) - 1) /\ i - 1 \in SizesIn(Tail(p)) /\ Tail(p)[i - 1].value = s
      BY <1>1, <1>2, <2>1, <2>2, <2>5
    <3>2. \A j \in SizesIn(Tail(p)) : j <= i - 1
      BY <2>2, <2>3
    <3> QED BY <3>1, <3>2 DEF Latest
  <2> QED BY <2>4, <2>5
<1> QED BY <1>3, <1>4

\* The channel carries something only while it has an epoch and is not broken,
\* and a client that was granted control has no size waiting.
LinkInv ==
  /\ writer.granted => Through /\ writer.resize = NoSize
  /\ writer.broken \/ ~Through => pipe = <<>>

\* Where the size asked for last is, in a local and in a remote session.
HeldSize ==
  /\ Unlaunched => deferred.pending = wanted /\ (wanted = 0 => size = 0)
  /\ launch = "flushing" /\ handoff.size # NoSize => handoff.size = wanted
  /\ launch = "flushing" /\ handoff.size = NoSize => size = wanted
  /\ launch = "pumping" => size = wanted
RemoteSize ==
  \/ writer.resize # NoSize /\ writer.resize = wanted
  \/ writer.resize = NoSize /\ SizesIn(pipe) = {} /\ size = wanted
  \/ writer.resize = NoSize /\ Latest(pipe, wanted)

SizeInv ==
  /\ LinkInv
  /\ ~history.resized => (Held => HeldSize) /\ (Remote => RemoteSize)

\* A step that proposes no size, takes none and appends none.
LEMMA SizeKept ==
  ASSUME SizeInv, LinkInv',
         UNCHANGED <<transport, size, launch, handoff, wanted>>,
         deferred'.pending = deferred.pending, writer'.resize = writer.resize,
         history.resized => history'.resized,
         \/ pipe' = pipe
         \/ /\ pipe \in Seq(Message)
            /\ \E t \in Seq(Message) : SizesIn(t) = {} /\ pipe' = pipe \o t
  PROVE  SizeInv'
<1>1. SizesIn(pipe') = SizesIn(pipe) /\ (Latest(pipe, wanted) => Latest(pipe', wanted))
  BY SizesOfConcat
<1>2. HeldSize => HeldSize'
  BY DEF HeldSize, Unlaunched, Held
<1>3. RemoteSize => RemoteSize'
  BY <1>1 DEF RemoteSize
<1> QED BY <1>2, <1>3 DEF SizeInv, Held, Remote

LEMMA TransmitKeepsSize ==
  ASSUME TypeOK, SizeInv, NEW woken, NEW flush \in Seq(Keys), NEW keys \in Seq(Keys),
         NEW quiet, Transmit(woken, flush, keys, quiet),
         UNCHANGED <<transport, size, launch, handoff, wanted>>
  PROVE  SizeInv'
<1> DEFINE all == flush \o keys
           requeued == QueueInput(QueueInput(writer.queue, flush), keys)
           direct == Remote /\ Through /\ ~writer.broken
<1>1. deferred'.pending = deferred.pending /\ (history.resized => history'.resized)
  BY DEF Transmit, TypeOK
<1>2. \/ writer' = writer
      \/ ~direct /\ ~Through /\ writer' = [writer EXCEPT !.queue = requeued]
      \/ Through /\ writer.broken /\ writer' = [Cut(writer) EXCEPT !.queue = requeued]
  BY DEF Transmit, Held, Remote, TypeOK
<1>3. writer'.resize = writer.resize
  BY <1>2, CutType DEF TypeOK
<1>4. CASE direct
  <2> DEFINE cont == IF woken THEN <<Signal("CONT")>> ELSE <<>>
             t == cont \o Inputs(all)
  <2>1. pipe' = pipe \o cont \o Inputs(all) /\ writer' = writer
    BY <1>4 DEF Transmit
  <2>2. all \in Seq(Keys)
    BY ConcatProperties
  <2>3. Inputs(all) \in Seq(Message) /\ SizesIn(Inputs(all)) = {}
    BY <2>2, InputsOfKeys DEF SizesIn
  <2>4. cont \in Seq(Message) /\ SizesIn(cont) = {}
    <3>1. Signal("CONT") \in Message /\ Signal("CONT").type = "CONT"
      BY Bounds DEF Signal, Message
    <3>2. CASE woken
      BY <3>1, <3>2 DEF SizesIn
    <3>3. CASE ~woken
      BY <3>3 DEF SizesIn
    <3> QED BY <3>2, <3>3
  <2>5. t \in Seq(Message) /\ SizesIn(t) = {}
    BY <2>3, <2>4, SizesOfConcat, ConcatProperties
  <2>6. pipe \in Seq(Message) /\ pipe' = pipe \o t
    <3>1. pipe \in Seq(Message)
      BY DEF TypeOK
    <3> HIDE DEF cont
    <3>2. (pipe \o cont) \o Inputs(all) = pipe \o (cont \o Inputs(all))
      BY <2>3, <2>4, <3>1, ConcatAssociative
    <3> QED BY <2>1, <3>1, <3>2
  <2>7. LinkInv'
    BY <1>4, <2>1 DEF SizeInv, LinkInv, Through
  <2> HIDE DEF t
  <2> QED BY <1>1, <1>3, <2>5, <2>6, <2>7, SizeKept
<1>5. CASE ~direct
  <2>1. pipe' = pipe
    BY <1>5 DEF Transmit
  <2>2. LinkInv'
    <3>1. CASE writer' = writer
      BY <2>1, <3>1 DEF SizeInv, LinkInv, Through
    <3>2. CASE ~Through /\ writer' = [writer EXCEPT !.queue = requeued]
      BY <2>1, <3>2 DEF SizeInv, LinkInv, Through, TypeOK
    <3>3. CASE Through /\ writer.broken /\ writer' = [Cut(writer) EXCEPT !.queue = requeued]
      <4>1. writer'.granted = FALSE
        BY <3>3, CutType
      <4>2. pipe = <<>>
        BY <3>3 DEF SizeInv, LinkInv
      <4> QED BY <2>1, <4>1, <4>2 DEF LinkInv
    <3> QED BY <1>2, <3>1, <3>2, <3>3
  <2> QED BY <1>1, <1>3, <2>1, <2>2, SizeKept
<1> QED BY <1>4, <1>5

LEMMA WriteKeepsSize ==
  ASSUME TypeOK, SizeInv, NEW wake, NEW keys \in Seq(Keys), NEW quiet,
         WakeAndWrite(wake, keys, quiet),
         UNCHANGED <<transport, size, launch, handoff, wanted>>
  PROVE  SizeInv'
<1>1. queued_input \in Seq(Keys) /\ <<>> \in Seq(Keys)
  BY DEF TypeOK
<1> QED BY <1>1, TransmitKeepsSize DEF WakeAndWrite

LEMMA HibernateKeepsSize == ASSUME TypeOK, SizeInv, Hibernate PROVE SizeInv'
<1> DEFINE t == <<Signal("STOP")>>
<1>1. pipe \in Seq(Message)
  BY DEF TypeOK
<1>2. t \in Seq(Message) /\ SizesIn(t) = {}
  <2>1. Signal("STOP") \in Message /\ Signal("STOP").type = "STOP"
    BY Bounds DEF Signal, Message
  <2> QED BY <2>1 DEF SizesIn
<1>3. pipe' = pipe \/ pipe' = pipe \o t
  BY <1>1, AppendIsConcat DEF Hibernate
<1>4. UNCHANGED <<transport, size, launch, handoff, wanted, deferred, writer, history>>
  BY DEF Hibernate, launchVars, inputVars
<1>5. LinkInv'
  <2>1. CASE Held
    BY <1>4, <2>1 DEF Hibernate, SizeInv, LinkInv, Through, Held, Remote
  <2>2. CASE ~Held
    BY <1>4, <2>2 DEF Hibernate, CanSignal, SizeInv, LinkInv, Through
  <2> QED BY <2>1, <2>2
<1> HIDE DEF t
<1> QED BY <1>1, <1>2, <1>3, <1>4, <1>5, SizeKept

\* A size that finds the queue of another is recorded as passing it.
LEMMA ResizeKeepsSize == ASSUME TypeOK, ChildInv, SizeInv, Resize PROVE SizeInv'
<1> DEFINE s == wanted + 1
           direct == Remote /\ Through /\ ~writer.broken
<1>1. /\ wanted' = s /\ s \in Sizes /\ s # 0 /\ UNCHANGED <<transport, launch, handoff>>
  BY NextInput DEF Resize
<1>2. CASE Held
  <2>1. UNCHANGED <<writer, pipe>>
    BY <1>2 DEF Resize, Held, Remote
  <2>2. LinkInv'
    BY <2>1 DEF SizeInv, LinkInv, Through
  <2>3. ASSUME ~history'.resized PROVE HeldSize'
    <3>1. ~history.resized /\ ~(launch = "flushing" /\ handoff.size # NoSize)
      BY <2>3 DEF Resize, TypeOK
    <3>2. CASE Unlaunched
      <4>1. deferred'.pending = s
        BY <1>1, <3>2 DEF Resize, TypeOK
      <4> QED BY <1>1, <3>2, <4>1 DEF HeldSize, Unlaunched, Held, Sizes
    <3>3. CASE ~Unlaunched
      <4>1. size' = s
        BY <1>2, <3>3 DEF Resize
      <4> QED BY <1>1, <3>1, <3>3, <4>1 DEF HeldSize, Unlaunched, Held
    <3> QED BY <3>2, <3>3
  <2> QED BY <1>1, <1>2, <2>2, <2>3 DEF SizeInv, Held, Remote
<1>3. CASE direct
  <2>1. writer' = writer /\ pipe' = Append(pipe, Size(s))
    BY <1>3 DEF Resize
  <2>2. LinkInv'
    BY <1>3, <2>1 DEF SizeInv, LinkInv, Through
  <2>3. Latest(pipe', s)
    <3>1. pipe \in Seq(Message) /\ Size(s) \in Message
      BY <1>1 DEF TypeOK, Size, Message
    <3> QED BY <2>1, <3>1, SizesOfAppend
  <2>4. ASSUME ~history'.resized PROVE RemoteSize'
    <3>1. writer.granted \/ writer.resize = NoSize
      BY <1>3, <2>4 DEF Resize, TypeOK
    <3>2. writer'.resize = NoSize
      BY <2>1, <3>1 DEF SizeInv, LinkInv
    <3> QED BY <1>1, <2>3, <3>2 DEF RemoteSize
  <2> QED BY <1>1, <1>3, <2>2, <2>4 DEF SizeInv, Held, Remote
<1>4. CASE Remote /\ ~direct
  <2>1. pipe' = pipe /\ \/ ~Through /\ writer' = [writer EXCEPT !.resize = s]
                        \/ Through /\ writer' = [Cut(writer) EXCEPT !.resize = s]
    BY <1>4 DEF Resize, Held, Remote
  <2>2. pipe = <<>>
    BY <1>4 DEF SizeInv, LinkInv
  <2>3. writer'.resize = s /\ writer'.granted = FALSE
    <3>1. CASE ~Through /\ writer' = [writer EXCEPT !.resize = s]
      <4>1. ~writer.granted
        BY <3>1 DEF SizeInv, LinkInv
      <4> QED BY <3>1, <4>1 DEF TypeOK
    <3>2. CASE Through /\ writer' = [Cut(writer) EXCEPT !.resize = s]
      BY <3>2, CutType
    <3> QED BY <2>1, <3>1, <3>2
  <2>4. LinkInv' /\ RemoteSize'
    BY <1>1, <2>1, <2>2, <2>3 DEF LinkInv, RemoteSize, NoSize
  <2> QED BY <1>1, <1>4, <2>4 DEF SizeInv, Held, Remote
<1> QED BY <1>2, <1>3, <1>4 DEF TypeOK, Held, Remote

LEMMA AppKeepsSize == ASSUME TypeOK, ChildInv, SizeInv, App \/ Sweep PROVE SizeInv'
<1>1. <<>> \in Seq(Keys)
  OBVIOUS
<1>2. CASE Attach \/ Wake
  BY <1>1, <1>2, WriteKeepsSize DEF Attach, Wake, inputVars
<1>3. CASE Type \/ TypeQuietly
  <2>1. typed + 1 \in Keys
    BY <1>3, NextInput DEF Type, TypeQuietly
  <2>2. <<typed + 1>> \in Seq(Keys)
    BY <2>1
  <2> QED BY <1>3, <2>2, WriteKeepsSize DEF Type, TypeQuietly
<1>4. CASE HibernateRequest \/ SweepFreeze
  BY <1>4, HibernateKeepsSize DEF HibernateRequest, SweepFreeze
<1>5. CASE Register \/ Detach \/ SweepRecord \/ SweepAttached \/ SweepPasses
  <2>1. UNCHANGED <<transport, size, launch, handoff, wanted, deferred, writer, history, pipe>>
    BY <1>5 DEF Register, Detach, SweepRecord, SweepAttached, SweepPasses, childVars, launchVars,
                remoteVars, inputVars
  <2>2. LinkInv'
    BY <2>1 DEF SizeInv, LinkInv, Through
  <2> QED BY <2>1, <2>2, SizeKept
<1>6. CASE Terminate
  <2>1. /\ UNCHANGED <<transport, size, launch, handoff, wanted, writer, history, pipe>>
        /\ deferred'.pending = deferred.pending
    BY <1>6 DEF Terminate, remoteVars, inputVars, TypeOK
  <2>2. LinkInv'
    BY <2>1 DEF SizeInv, LinkInv, Through
  <2> QED BY <2>1, <2>2, SizeKept
<1> QED BY <1>2, <1>3, <1>4, <1>5, <1>6, ResizeKeepsSize DEF App, Sweep

LEMMA LauncherKeepsSize == ASSUME TypeOK, ChildInv, SizeInv, Launcher PROVE SizeInv'
<1>1. UNCHANGED <<transport, wanted, writer, history, pipe>>
  BY DEF Launcher, DecideSize, HolderReady, LaunchFails, FinishLaunch, FlushLaunch, remoteVars,
         inputVars
<1>2. Held /\ ~Remote /\ LinkInv'
  <2>1. LinkInv'
    BY <1>1 DEF SizeInv, LinkInv, Through
  <2> QED BY <2>1 DEF Launcher, DecideSize, HolderReady, LaunchFails, FinishLaunch, FlushLaunch,
                      ChildInv, TypeOK, Held, Remote
<1>3. ASSUME HeldSize PROVE HeldSize'
  <2> USE <1>1, <1>2, <1>3 DEF HeldSize, Unlaunched, Held
  <2>1. CASE DecideSize
    BY <2>1 DEF DecideSize
  <2>2. CASE HolderReady \/ LaunchFails
    BY <2>2 DEF HolderReady, LaunchFails
  <2>3. CASE FinishLaunch
    BY <2>3 DEF FinishLaunch, NoSize, TypeOK
  <2>4. CASE FlushLaunch
    BY <2>4 DEF FlushLaunch, NoSize
  <2> QED BY <2>1, <2>2, <2>3, <2>4 DEF Launcher
<1> QED BY <1>1, <1>2, <1>3 DEF SizeInv, Held, Remote

LEMMA GrantKeepsSize == ASSUME TypeOK, SizeInv, GrantControl PROVE SizeInv'
<1> DEFINE resize == IF writer.resize # NoSize THEN <<Size(writer.resize)>> ELSE <<>>
           failed == IF resize # <<>> THEN [Cut(writer) EXCEPT !.resize = NoSize]
                     ELSE [Cut(writer) EXCEPT !.queue = <<>>]
           flushes == resize # <<>> \/ writer.queue # <<>>
<1>1. UNCHANGED <<transport, size, launch, handoff, wanted, deferred>> /\ Through
  BY DEF GrantControl, remoteOnly, childVars, launchVars, inputVars
<1>2. resize # <<>> <=> writer.resize # NoSize
  OBVIOUS
<1>3. CASE writer.broken /\ flushes
  <2>1. /\ writer' = failed /\ pipe' = pipe
        /\ history' = [history EXCEPT
             !.lost = @ \cup (ToSet(writer.queue) \ ToSet(failed.queue)),
             !.resized = @ \/ resize # <<>>]
    BY <1>3 DEF GrantControl
  <2>2. pipe = <<>>
    BY <1>3 DEF SizeInv, LinkInv
  <2>3. writer'.granted = FALSE
    BY <2>1, CutType
  <2>4. LinkInv'
    BY <2>1, <2>2, <2>3 DEF LinkInv
  <2>5. CASE writer.resize # NoSize
    <3>1. history'.resized
      BY <1>2, <2>1, <2>5 DEF TypeOK
    <3> QED BY <2>4, <3>1 DEF SizeInv
  <2>6. CASE writer.resize = NoSize
    <3>1. writer' = [Cut(writer) EXCEPT !.queue = <<>>]
      BY <1>2, <2>1, <2>6
    <3>2. writer'.resize = writer.resize
      BY <3>1, CutType
    <3>3. history.resized => history'.resized
      BY <2>1 DEF TypeOK
    <3> QED BY <1>1, <2>1, <2>4, <3>2, <3>3, SizeKept
  <2> QED BY <2>5, <2>6
<1>4. CASE ~(writer.broken /\ flushes)
  <2>1. /\ writer' = [writer EXCEPT !.granted = TRUE, !.queue = <<>>, !.resize = NoSize]
        /\ pipe' = pipe \o resize \o Inputs(writer.queue) /\ UNCHANGED history
    BY <1>4 DEF GrantControl
  <2>2. /\ writer'.channel = writer.channel /\ writer'.broken = writer.broken
        /\ writer'.resize = NoSize
    BY <2>1 DEF TypeOK
  <2>3. Inputs(writer.queue) \in Seq(Message) /\ SizesIn(Inputs(writer.queue)) = {}
    <3>1. writer.queue \in Seq(Keys)
      BY DEF TypeOK
    <3> QED BY <3>1, InputsOfKeys DEF SizesIn
  <2>4. pipe \in Seq(Message) /\ Size(writer.resize) \in Message
    BY DEF TypeOK, Size, Message
  <2>5. resize \in Seq(Message)
    BY <2>4
  <2>6. LinkInv'
    <3>1. CASE writer.broken
      <4>1. pipe = <<>> /\ resize = <<>> /\ writer.queue = <<>>
        BY <1>4, <3>1 DEF SizeInv, LinkInv
      <4>2. Inputs(writer.queue) = <<>>
        BY <4>1 DEF Inputs
      <4>3. pipe' = <<>>
        BY <2>1, <4>1, <4>2
      <4> QED BY <1>1, <2>2, <4>3 DEF LinkInv, Through
    <3>2. CASE ~writer.broken
      BY <1>1, <2>2, <3>2 DEF LinkInv, Through
    <3> QED BY <3>1, <3>2
  <2>7. CASE writer.resize = NoSize
    <3>1. pipe' = pipe \o Inputs(writer.queue)
      BY <2>1, <2>4, <2>7, ConcatEmptySeq
    <3> QED BY <1>1, <2>1, <2>2, <2>3, <2>4, <2>6, <2>7, <3>1, SizeKept
  <2>8. CASE writer.resize # NoSize
    <3> DEFINE q == Append(pipe, Size(writer.resize))
    <3>1. q \in Seq(Message) /\ Latest(q, writer.resize)
      BY <2>4, SizesOfAppend, AppendProperties
    <3>2. pipe' = q \o Inputs(writer.queue)
      <4>1. resize = <<Size(writer.resize)>>
        BY <2>8
      <4>2. q = pipe \o <<Size(writer.resize)>>
        BY <2>4, AppendIsConcat
      <4> QED BY <2>1, <4>1, <4>2
    <3> HIDE DEF q
    <3>3. Latest(pipe', writer.resize)
      BY <2>3, <3>1, <3>2, SizesOfConcat
    <3>4. ASSUME ~history'.resized, Remote PROVE RemoteSize'
      <4>1. writer.resize = wanted
        BY <2>1, <2>8, <3>4 DEF SizeInv, RemoteSize
      <4> QED BY <1>1, <2>2, <3>3, <4>1 DEF RemoteSize
    <3>5. ASSUME ~history'.resized, Held PROVE HeldSize'
      <4>1. HeldSize
        BY <2>1, <3>5 DEF SizeInv
      <4> QED BY <1>1, <4>1 DEF HeldSize, Unlaunched, Held
    <3> QED BY <1>1, <2>6, <3>4, <3>5 DEF SizeInv, Held, Remote
  <2> QED BY <2>7, <2>8
<1> QED BY <1>3, <1>4

LEMMA DeliverKeepsSize == ASSUME TypeOK, ChildInv, SizeInv, Deliver PROVE SizeInv'
<1>1. /\ UNCHANGED <<transport, launch, wanted, writer, history>> /\ pipe' = Tail(pipe)
      /\ size' = (IF Head(pipe).type = "resize" THEN Head(pipe).value ELSE size)
  BY DEF Deliver, remoteOnly, launchVars, inputVars
<1>2. Remote /\ pipe # <<>> /\ pipe \in Seq(Message)
  BY DEF Deliver, ChildInv, TypeOK, Held, Remote
<1>3. LinkInv'
  BY <1>1, <1>2 DEF SizeInv, LinkInv, Through
<1>4. ASSUME RemoteSize PROVE RemoteSize'
  <2>1. CASE writer.resize # NoSize
    BY <1>1, <1>4, <2>1 DEF RemoteSize
  <2>2. CASE writer.resize = NoSize
    BY <1>1, <1>2, <1>4, <2>2, SizesOfTail DEF RemoteSize
  <2> QED BY <2>1, <2>2
<1> QED BY <1>1, <1>2, <1>3, <1>4 DEF SizeInv, Held, Remote

LEMMA RemoteKeepsSize ==
  ASSUME TypeOK, ChildInv, SizeInv, RemotePump \/ Break PROVE SizeInv'
<1>1. CASE Connect \/ AcceptHello \/ Disconnect
  <2>1. UNCHANGED <<transport, size, launch, handoff, wanted, deferred, pipe, history>>
    BY <1>1 DEF Connect, AcceptHello, Disconnect, remoteOnly, childVars, launchVars, inputVars
  <2>2. writer'.resize = writer.resize
    BY <1>1, CutType DEF Connect, AcceptHello, Disconnect, TypeOK
  <2>3. CASE Connect \/ AcceptHello
    <3>1. /\ writer'.granted = writer.granted /\ ~Through
      BY <2>3 DEF Connect, AcceptHello, TypeOK, Through
    <3>2. ~writer.granted /\ pipe = <<>>
      BY <3>1 DEF SizeInv, LinkInv
    <3>3. LinkInv'
      BY <2>1, <3>1, <3>2 DEF LinkInv
    <3> QED BY <2>1, <2>2, <3>3, SizeKept
  <2>4. CASE Disconnect
    <3>1. writer'.granted = FALSE /\ pipe = <<>>
      BY <2>4, CutType DEF Disconnect, SizeInv, LinkInv
    <3>2. LinkInv'
      BY <2>1, <3>1 DEF LinkInv
    <3> QED BY <2>1, <2>2, <3>2, SizeKept
  <2> QED BY <1>1, <2>3, <2>4
<1>2. CASE Break
  <2>1. /\ UNCHANGED <<transport, size, launch, handoff, wanted, deferred>> /\ pipe' = <<>> /\ Remote
    BY <1>2 DEF Break, remoteOnly, childVars, launchVars, inputVars
  <2>2. /\ writer'.resize = writer.resize /\ writer'.granted = writer.granted
        /\ writer'.channel = writer.channel
    BY <1>2 DEF Break, TypeOK
  <2>3. LinkInv'
    BY <2>1, <2>2 DEF SizeInv, LinkInv, Through
  <2>4. ~history'.resized => ~history.resized /\ SizesIn(pipe) = {}
    BY <1>2 DEF Break, TypeOK, SizesIn
  <2>5. ASSUME ~history'.resized PROVE RemoteSize'
    <3>1. RemoteSize /\ SizesIn(pipe) = {}
      BY <2>1, <2>4, <2>5 DEF SizeInv
    <3>2. ~Latest(pipe, wanted) /\ SizesIn(pipe') = {}
      BY <2>1, <3>1 DEF Latest, SizesIn
    <3> QED BY <2>1, <2>2, <3>1, <3>2 DEF RemoteSize
  <2> QED BY <2>1, <2>3, <2>5 DEF SizeInv, Held, Remote
<1> QED BY <1>1, <1>2, GrantKeepsSize DEF RemotePump

LEMMA SizeInvariant == Spec => []SizeInv
<1>1. Init => SizeInv
  <2> SUFFICES ASSUME Init PROVE SizeInv
    OBVIOUS
  <2>1. LinkInv
    BY DEF Init, LinkInv
  <2>2. HeldSize
    BY DEF Init, HeldSize, NoSize, Held
  <2>3. RemoteSize
    BY DEF Init, RemoteSize, SizesIn
  <2> QED BY <2>1, <2>2, <2>3 DEF SizeInv
<1>2. TypeOK /\ ChildInv /\ SizeInv /\ [Next]_vars => SizeInv'
  <2> SUFFICES ASSUME TypeOK, ChildInv, SizeInv, [Next]_vars PROVE SizeInv'
    OBVIOUS
  <2>1. CASE Persist \/ UNCHANGED vars
    <3>1. UNCHANGED <<transport, size, launch, handoff, wanted, deferred, writer, history, pipe>>
      BY <2>1 DEF Persist, vars, childVars, launchVars, remoteVars, inputVars
    <3>2. LinkInv'
      BY <3>1 DEF SizeInv, LinkInv, Through
    <3> QED BY <3>1, <3>2, SizeKept
  <2>2. CASE Restart
    <3>1. history'.resized /\ pipe' = <<>>
      BY <2>2 DEF Restart, TypeOK
    <3>2. writer'.granted = FALSE
      BY <2>2, CutType DEF Restart
    <3> QED BY <3>1, <3>2 DEF SizeInv, LinkInv
  <2> QED BY <2>1, <2>2, LauncherKeepsSize, AppKeepsSize, RemoteKeepsSize, DeliverKeepsSize DEF Next
<1> QED BY <1>1, <1>2, TypeCorrect, ChildInvariant, PTL DEF Spec

\* Once a session's launch, reconnect queue and channel are flushed, its
\* terminal has the size a client asked for last, unless that size passed
\* another that was waiting or one was lost with a channel or an Engine.
THEOREM LastSizeWins == Spec => []SizeIsCurrent
<1>1. TypeOK /\ SizeInv => SizeIsCurrent
  <2> SUFFICES ASSUME TypeOK, SizeInv, Quiet, ~history.resized PROVE size = wanted
    BY DEF SizeIsCurrent
  <2>1. CASE Held
    BY <2>1 DEF SizeInv, HeldSize, Quiet
  <2>2. CASE Remote
    <3>1. writer.resize = NoSize /\ SizesIn(pipe) = {} /\ ~Latest(pipe, wanted)
      BY <2>2 DEF SizeInv, LinkInv, Quiet, SizesIn, Latest
    <3> QED BY <2>2, <3>1 DEF SizeInv, RemoteSize
  <2> QED BY <2>1, <2>2 DEF TypeOK, Held, Remote
<1> QED BY <1>1, TypeCorrect, SizeInvariant, PTL
-----------------------------------------------------------------------------
(***************************************************************************)
(* Every key in one place, and in order.                                   *)
(***************************************************************************)

\* The keys of a queue, 0 standing for a message that is no key; x may stand
\* before y, where the keys of o passed the queue they found.
KeysOf(s) == ToSet(s) \ {0}
Ahead(x, y, o) == x # y /\ (x < y \/ x \in o)
Sorted(s, o) ==
  \A i, j \in DOMAIN s : i < j /\ s[i] # 0 /\ s[j] # 0 => Ahead(s[i], s[j], o)
Before(s, t, o) == \A x \in KeysOf(s), y \in KeysOf(t) : Ahead(x, y, o)

\* Four queues one behind the other.
Lined(a, b, c, d, o) ==
  /\ Sorted(a, o) /\ Sorted(b, o) /\ Sorted(c, o) /\ Sorted(d, o)
  /\ Before(a, b, o) /\ Before(a, c, o) /\ Before(a, d, o)
  /\ Before(b, c, o) /\ Before(b, d, o) /\ Before(c, d, o)
Total(a, b, c, d) == KeysOf(a) \cup KeysOf(b) \cup KeysOf(c) \cup KeysOf(d)

\* A concatenation has the keys of both parts ...
LEMMA KeysOfConcat ==
  ASSUME NEW s \in Seq(Nat), NEW t \in Seq(Nat)
  PROVE  s \o t \in Seq(Nat) /\ KeysOf(s \o t) = KeysOf(s) \cup KeysOf(t)
  BY ToSetOfConcat, ConcatProperties DEF KeysOf

\* ... and is sorted when both are and the first stands before the second.
LEMMA SortedConcat ==
  ASSUME NEW s \in Seq(Nat), NEW t \in Seq(Nat), NEW o,
         Sorted(s, o), Sorted(t, o), Before(s, t, o)
  PROVE  Sorted(s \o t, o)
<1> DEFINE u == s \o t
<1>1. PICK m, n \in Nat : m = Len(s) /\ n = Len(t)
  BY LenProperties
<1>2. /\ DOMAIN s = 1..m /\ DOMAIN t = 1..n /\ DOMAIN u = 1..(m + n)
      /\ \A i \in 1..(m + n) : u[i] = IF i <= m THEN s[i] ELSE t[i - m]
  BY <1>1, LenProperties, ConcatProperties
<1> HIDE DEF u
<1> SUFFICES ASSUME NEW i \in 1..(m + n), NEW j \in 1..(m + n), i < j, u[i] # 0, u[j] # 0
             PROVE  Ahead(u[i], u[j], o)
  BY <1>2 DEF Sorted, u
<1>3. CASE j <= m
  <2>1. i \in 1..m /\ j \in 1..m /\ u[i] = s[i] /\ u[j] = s[j]
    BY <1>2, <1>3
  <2> QED BY <1>2, <2>1 DEF Sorted
<1>4. CASE i > m
  <2>1. PICK k, l \in 1..n : k = i - m /\ l = j - m /\ k < l
    BY <1>4
  <2>2. u[i] = t[k] /\ u[j] = t[l]
    BY <1>2, <1>4, <2>1
  <2> QED BY <1>2, <2>1, <2>2 DEF Sorted
<1>5. CASE i <= m /\ j > m
  <2>1. PICK l \in 1..n : l = j - m
    BY <1>5
  <2>2. i \in 1..m /\ u[i] = s[i] /\ u[j] = t[l]
    BY <1>2, <1>5, <2>1
  <2>3. u[i] \in KeysOf(s) /\ u[j] \in KeysOf(t)
    BY <1>2, <2>1, <2>2 DEF KeysOf, ToSet
  <2> QED BY <2>3 DEF Before
<1> QED BY <1>3, <1>4, <1>5

\* A queue with no key, and one with a single entry.
LEMMA SortedShort ==
  /\ \A o : Sorted(<<>>, o)
  /\ KeysOf(<<>>) = {} /\ <<>> \in Seq(Nat)
  /\ \A x \in Nat : /\ <<x>> \in Seq(Nat) /\ KeysOf(<<x>>) = {x} \ {0}
                    /\ \A o : Sorted(<<x>>, o)
<1>1. <<>> \in Seq(Nat) /\ DOMAIN <<>> = {}
  OBVIOUS
<1>2. \A x \in Nat : <<x>> \in Seq(Nat) /\ DOMAIN <<x>> = {1} /\ <<x>>[1] = x
  OBVIOUS
<1> QED BY <1>1, <1>2 DEF Sorted, KeysOf, ToSet

\* More keys that passed.
LEMMA LinedMore ==
  ASSUME NEW a, NEW b, NEW c, NEW d, NEW o, NEW p, o \subseteq p, Lined(a, b, c, d, o)
  PROVE  Lined(a, b, c, d, p)
<1>1. \A x, y : Ahead(x, y, o) => Ahead(x, y, p)
  BY DEF Ahead
<1>2. \A s : Sorted(s, o) => Sorted(s, p)
  BY <1>1 DEF Sorted
<1>3. \A s, t : Before(s, t, o) => Before(s, t, p)
  BY <1>1 DEF Before
<1> QED BY <1>2, <1>3 DEF Lined

\* A queue moves up to the end of the one before it.
LEMMA MoveUp ==
  ASSUME NEW a \in Seq(Nat), NEW b \in Seq(Nat), NEW c \in Seq(Nat), NEW d \in Seq(Nat), NEW o,
         Lined(a, b, c, d, o)
  PROVE  /\ Lined(a \o b, <<>>, c, d, o) /\ Lined(a, b \o c, <<>>, d, o)
         /\ Lined(a, b, c \o d, <<>>, o)
         /\ Total(a \o b, <<>>, c, d) = Total(a, b, c, d)
         /\ Total(a, b \o c, <<>>, d) = Total(a, b, c, d)
         /\ Total(a, b, c \o d, <<>>) = Total(a, b, c, d)
<1>1. /\ Sorted(a \o b, o) /\ Sorted(b \o c, o) /\ Sorted(c \o d, o)
  BY SortedConcat DEF Lined
<1>2. /\ KeysOf(a \o b) = KeysOf(a) \cup KeysOf(b) /\ KeysOf(b \o c) = KeysOf(b) \cup KeysOf(c)
      /\ KeysOf(c \o d) = KeysOf(c) \cup KeysOf(d)
  BY KeysOfConcat
<1>3. KeysOf(<<>>) = {} /\ Sorted(<<>>, o)
  BY SortedShort
<1>4. Lined(a \o b, <<>>, c, d, o)
  BY <1>1, <1>2, <1>3 DEF Lined, Before
<1>5. Lined(a, b \o c, <<>>, d, o)
  BY <1>1, <1>2, <1>3 DEF Lined, Before
<1>6. Lined(a, b, c \o d, <<>>, o)
  BY <1>1, <1>2, <1>3 DEF Lined, Before
<1> QED BY <1>2, <1>3, <1>4, <1>5, <1>6 DEF Total

\* Entries that are no keys do not matter.
LEMMA OnlyKeysCount ==
  ASSUME NEW a \in Seq(Nat), NEW b \in Seq(Nat), NEW c, NEW d, NEW o, NEW z \in Seq(Nat),
         KeysOf(z) = {}, Lined(a, b, c, d, o)
  PROVE  Lined(a, b \o z, c, d, o)
<1>1. KeysOf(b \o z) = KeysOf(b)
  <2>1. KeysOf(b \o z) = KeysOf(b) \cup KeysOf(z)
    BY KeysOfConcat
  <2> QED BY <2>1
<1>2. Sorted(z, o)
  <2>1. \A i \in DOMAIN z : z[i] = 0
    BY DEF KeysOf, ToSet
  <2> QED BY <2>1 DEF Sorted
<1>3. Sorted(b \o z, o)
  BY <1>2, SortedConcat DEF Lined, Before
<1> QED BY <1>1, <1>3 DEF Lined, Before

\* The last queue passes one, or two, that are empty or whose keys it is said
\* to have passed.
LEMMA PassOne ==
  ASSUME NEW a \in Seq(Nat), NEW b \in Seq(Nat), NEW c \in Seq(Nat), NEW d \in Seq(Nat), NEW o,
         Lined(a, b, c, d, o), KeysOf(c) = {} \/ KeysOf(d) \subseteq o
  PROVE  Lined(a, b \o d, c, <<>>, o)
<1>1. KeysOf(b \o d) = KeysOf(b) \cup KeysOf(d) /\ Sorted(b \o d, o)
  BY KeysOfConcat, SortedConcat DEF Lined
<1>2. KeysOf(<<>>) = {} /\ Sorted(<<>>, o)
  BY SortedShort
<1>3. Before(d, c, o)
  BY DEF Lined, Before, Ahead
<1>4. Before(b \o d, c, o) /\ Before(a, b \o d, o)
  BY <1>1, <1>3 DEF Before, Lined
<1>5. Before(a, <<>>, o) /\ Before(b \o d, <<>>, o) /\ Before(c, <<>>, o)
  BY <1>2 DEF Before
<1> QED BY <1>1, <1>2, <1>4, <1>5 DEF Lined

\* The last queue passes two; the middle one is empty.
LEMMA PassTwo ==
  ASSUME NEW a \in Seq(Nat), NEW b \in Seq(Nat), NEW c \in Seq(Nat), NEW d \in Seq(Nat), NEW o,
         Lined(a, b, c, d, o), KeysOf(c) = {}, KeysOf(b) = {} \/ KeysOf(d) \subseteq o
  PROVE  Lined(a \o d, b, c, <<>>, o)
<1>1. KeysOf(a \o d) = KeysOf(a) \cup KeysOf(d) /\ Sorted(a \o d, o)
  BY KeysOfConcat, SortedConcat DEF Lined
<1>2. KeysOf(<<>>) = {} /\ Sorted(<<>>, o)
  BY SortedShort
<1>3. Before(d, b, o)
  BY DEF Lined, Before, Ahead
<1>4. Before(a \o d, b, o) /\ Before(a \o d, c, o)
  BY <1>1, <1>3 DEF Before, Lined
<1>5. Before(a \o d, <<>>, o) /\ Before(b, <<>>, o) /\ Before(c, <<>>, o)
  BY <1>2 DEF Before
<1> QED BY <1>1, <1>2, <1>4, <1>5 DEF Lined

\* A queue is dropped.
LEMMA Dropped ==
  ASSUME NEW a, NEW b, NEW c, NEW d, NEW o, Lined(a, b, c, d, o)
  PROVE  /\ Lined(a, <<>>, c, d, o) /\ Lined(a, b, <<>>, d, o) /\ Lined(a, b, c, <<>>, o)
         /\ Total(a, <<>>, c, d) = Total(a, b, c, d) \ KeysOf(b)
         /\ Total(a, b, <<>>, d) = Total(a, b, c, d) \ KeysOf(c)
         /\ Total(a, b, c, <<>>) = Total(a, b, c, d) \ KeysOf(d)
<1>1. KeysOf(<<>>) = {} /\ Sorted(<<>>, o)
  BY SortedShort
<1>2. /\ KeysOf(a) \cap KeysOf(b) = {} /\ KeysOf(a) \cap KeysOf(c) = {}
      /\ KeysOf(a) \cap KeysOf(d) = {} /\ KeysOf(b) \cap KeysOf(c) = {}
      /\ KeysOf(b) \cap KeysOf(d) = {} /\ KeysOf(c) \cap KeysOf(d) = {}
  BY DEF Lined, Before, Ahead
<1>3. Lined(a, <<>>, c, d, o) /\ Lined(a, b, <<>>, d, o) /\ Lined(a, b, c, <<>>, o)
  BY <1>1 DEF Lined, Before
<1>4. /\ Total(a, <<>>, c, d) = Total(a, b, c, d) \ KeysOf(b)
      /\ Total(a, b, <<>>, d) = Total(a, b, c, d) \ KeysOf(c)
      /\ Total(a, b, c, <<>>) = Total(a, b, c, d) \ KeysOf(d)
  BY <1>1, <1>2 DEF Total
<1> QED BY <1>3, <1>4

\* Keys k, newer than any that waits, come to the end of the queues, ...
Comes(a, b, c, d, k, n, o) ==
  /\ a \in Seq(Nat) /\ b \in Seq(Nat) /\ c \in Seq(Nat) /\ d \in Seq(Nat) /\ k \in Seq(Nat)
  /\ Lined(a, b, c, d, o) /\ Sorted(k, o)
  /\ n \in Nat /\ Total(a, b, c, d) \subseteq 1..n /\ \A y \in KeysOf(k) : y > n

\* The newer keys join the end.
LEMMA JoinsTheEnd ==
  ASSUME NEW a, NEW b, NEW c, NEW d, NEW k, NEW n, NEW o, Comes(a, b, c, d, k, n, o)
  PROVE  /\ Lined(a, b, c, d \o k, o)
         /\ Total(a, b, c, d \o k) = Total(a, b, c, d) \cup KeysOf(k)
<1>0. /\ a \in Seq(Nat) /\ b \in Seq(Nat) /\ c \in Seq(Nat) /\ d \in Seq(Nat) /\ k \in Seq(Nat)
      /\ Lined(a, b, c, d, o) /\ Sorted(k, o)
      /\ n \in Nat /\ Total(a, b, c, d) \subseteq 1..n /\ \A y \in KeysOf(k) : y > n
  BY DEF Comes
<1>1. KeysOf(d \o k) = KeysOf(d) \cup KeysOf(k)
  BY <1>0, KeysOfConcat
<1>2. \A x \in 1..n, y \in KeysOf(k) : Ahead(x, y, o)
  <2>1. KeysOf(k) \subseteq Nat
    BY <1>0, ToSetOfSeq DEF KeysOf
  <2> QED BY <1>0, <2>1 DEF Ahead
<1>3. Before(a, k, o) /\ Before(b, k, o) /\ Before(c, k, o) /\ Before(d, k, o)
  BY <1>0, <1>2 DEF Before, Total
<1>4. Sorted(d \o k, o)
  BY <1>0, <1>3, SortedConcat DEF Lined
<1>5. Before(a, d \o k, o) /\ Before(b, d \o k, o) /\ Before(c, d \o k, o)
  BY <1>0, <1>1, <1>3 DEF Lined, Before
<1> QED BY <1>0, <1>1, <1>4, <1>5 DEF Lined, Total

\* What a channel carries, message by message; the queue a key meets after
\* the terminal, and the one after that.
Values(p) == [i \in DOMAIN p |-> IF p[i].type = "input" THEN p[i].value ELSE 0]
First == IF Held THEN handoff.keys ELSE Values(pipe)
Second == IF Held THEN deferred.queue ELSE writer.queue

\* The channel as a queue of numbers ...
LEMMA ValuesType == ASSUME NEW p \in Seq(Message) PROVE Values(p) \in Seq(Nat)
<1>1. Len(p) \in Nat /\ DOMAIN p = 1..Len(p) /\ \A i \in 1..Len(p) : p[i] \in Message
  BY LenProperties, ElementOfSeq
<1>2. \A i \in 1..Len(p) : p[i].value \in Nat
  BY <1>1, Bounds DEF Message
<1>3. Values(p) = [i \in 1..Len(p) |-> IF p[i].type = "input" THEN p[i].value ELSE 0]
  BY <1>1 DEF Values
<1>4. \A i \in 1..Len(p) : (IF p[i].type = "input" THEN p[i].value ELSE 0) \in Nat
  BY <1>2
<1> QED BY <1>1, <1>3, <1>4, IsASeq

\* ... joins as its messages do, ...
LEMMA ValuesConcat ==
  ASSUME NEW p \in Seq(Message), NEW t \in Seq(Message)
  PROVE  Values(p \o t) = Values(p) \o Values(t)
<1> DEFINE u == p \o t  v == Values(p)  w == Values(t)
<1>1. PICK m, n \in Nat : m = Len(p) /\ n = Len(t)
  BY LenProperties
<1>2. /\ DOMAIN p = 1..m /\ DOMAIN t = 1..n /\ DOMAIN u = 1..(m + n)
      /\ \A i \in 1..(m + n) : u[i] = IF i <= m THEN p[i] ELSE t[i - m]
  BY <1>1, LenProperties, ConcatProperties
<1>3. v \in Seq(Nat) /\ w \in Seq(Nat) /\ DOMAIN v = 1..m /\ DOMAIN w = 1..n
  BY <1>2, ValuesType DEF Values
<1>4. Len(v) = m /\ Len(w) = n
  BY <1>3, LenProperties
<1>5. /\ v \o w \in Seq(Nat) /\ DOMAIN (v \o w) = 1..(m + n)
      /\ \A i \in 1..(m + n) : (v \o w)[i] = IF i <= m THEN v[i] ELSE w[i - m]
  <2> HIDE DEF v, w
  <2>1. v \o w \in Seq(Nat) /\ Len(v \o w) = Len(v) + Len(w)
        /\ \A i \in 1..(Len(v) + Len(w)) :
             (v \o w)[i] = IF i <= Len(v) THEN v[i] ELSE w[i - Len(v)]
    BY <1>3, ConcatProperties
  <2>2. DOMAIN (v \o w) = 1..(m + n)
    BY <1>4, <2>1, LenProperties
  <2> QED BY <1>4, <2>1, <2>2
<1>6. /\ Values(u) = [i \in 1..(m + n) |-> IF u[i].type = "input" THEN u[i].value ELSE 0]
      /\ \A i \in 1..m : v[i] = IF p[i].type = "input" THEN p[i].value ELSE 0
      /\ \A i \in 1..n : w[i] = IF t[i].type = "input" THEN t[i].value ELSE 0
  BY <1>2 DEF Values
<1> HIDE DEF u, v, w
<1>7. ASSUME NEW i \in 1..(m + n) PROVE Values(u)[i] = (v \o w)[i]
  <2>1. CASE i <= m
    <3>1. i \in 1..m
      BY <2>1
    <3> QED BY <1>2, <1>5, <1>6, <2>1, <3>1
  <2>2. CASE i > m
    <3>1. PICK k \in 1..n : k = i - m /\ ~(i <= m)
      BY <2>2
    <3>2. u[i] = t[k] /\ (v \o w)[i] = w[k]
      BY <1>2, <1>5, <3>1
    <3>3. PICK x : x = IF t[k].type = "input" THEN t[k].value ELSE 0
      OBVIOUS
    <3>4. Values(u)[i] = x
      BY <1>6, <3>2, <3>3
    <3>5. w[k] = x
      BY <1>6, <3>3
    <3> QED BY <3>2, <3>4, <3>5
  <2>3. i <= m \/ i > m
    OBVIOUS
  <2> QED BY <2>1, <2>2, <2>3
<1>8. v \o w = [i \in 1..(m + n) |-> (v \o w)[i]]
  BY <1>5, LenProperties, SeqDef
<1>9. Values(u) = v \o w
  BY <1>6, <1>7, <1>8
<1> QED BY <1>9 DEF u, v, w

\* ... and of keys it is the keys.
LEMMA ValuesOfInputs == ASSUME NEW keys \in Seq(Keys) PROVE Values(Inputs(keys)) = keys
<1>1. /\ DOMAIN Inputs(keys) = DOMAIN keys
      /\ \A i \in DOMAIN keys : Inputs(keys)[i].type = "input" /\ Inputs(keys)[i].value = keys[i]
  BY InputsOfKeys
<1>2. keys = [i \in DOMAIN keys |-> keys[i]]
  BY LenProperties, SeqDef
<1> QED BY <1>1, <1>2 DEF Values

\* A message by itself.
LEMMA ValuesOfOne ==
  ASSUME NEW m \in Message
  PROVE  /\ <<m>> \in Seq(Message)
         /\ Values(<<m>>) = <<IF m.type = "input" THEN m.value ELSE 0>>
         /\ m.type # "input" => KeysOf(Values(<<m>>)) = {}
<1>1. <<m>> \in Seq(Message) /\ DOMAIN <<m>> = {1} /\ <<m>>[1] = m
  OBVIOUS
<1>2. Values(<<m>>) = <<IF m.type = "input" THEN m.value ELSE 0>>
  BY <1>1 DEF Values
<1>3. KeysOf(<<0>>) = {}
  BY SortedShort
<1> QED BY <1>1, <1>2, <1>3

\* What dies with a channel.
LEMMA ValuesCarried ==
  ASSUME NEW p \in Seq(Message)
  PROVE  KeysOf(Values(p)) = {p[i].value : i \in {j \in DOMAIN p : p[j].type = "input"}}
<1>1. \A i \in DOMAIN p : p[i] \in Message
  BY LenProperties, ElementOfSeq
<1>2. \A i \in DOMAIN p : p[i].type = "input" => p[i].value # 0
  BY <1>1, Bounds DEF Message, Keys
<1>3. /\ DOMAIN Values(p) = DOMAIN p
      /\ \A i \in DOMAIN p : Values(p)[i] = IF p[i].type = "input" THEN p[i].value ELSE 0
  BY DEF Values
<1> QED BY <1>2, <1>3 DEF KeysOf, ToSet

\* Queues of keys as queues of numbers.
LEMMA KeysAreNumbers ==
  ASSUME NEW s \in Seq(Keys)
  PROVE  s \in Seq(Nat) /\ KeysOf(s) = ToSet(s)
<1>1. Len(s) \in Nat /\ DOMAIN s = 1..Len(s) /\ \A i \in 1..Len(s) : s[i] \in Keys
  BY LenProperties, ElementOfSeq
<1>2. \A i \in 1..Len(s) : s[i] \in Nat /\ s[i] # 0
  BY <1>1, Bounds DEF Keys
<1>3. s = [i \in 1..Len(s) |-> s[i]]
  BY LenProperties, SeqDef
<1>4. s \in Seq(Nat)
  BY <1>1, <1>2, <1>3, IsASeq
<1> QED BY <1>1, <1>2, <1>4 DEF KeysOf, ToSet

\* The terminal and the queues, one behind the other, hold every key that was
\* typed and not lost.
InLine == Lined(pty, First, Second, queued_input, history.overtook)
Accounted ==
  LET all == Total(pty, First, Second, queued_input)
  IN  /\ all \subseteq 1..typed /\ history.lost \subseteq 1..typed
      /\ ~removed => all = (1..typed) \ history.lost

\* Which queues a session has, and when there is nothing in them.
Lanes ==
  /\ Held => /\ writer.queue = <<>>
             /\ launch # "flushing" => handoff.keys = <<>>
             /\ ~Unlaunched /\ ~removed => deferred.queue = <<>>
             /\ Unlaunched => queued_input = <<>>
  /\ Remote => deferred.queue = <<>> /\ handoff.keys = <<>>
  /\ queued_input # <<>> => hibernated
  /\ writer.granted => writer.queue = <<>>

\* A local session loses keys only with its Engine.
Losses ==
  /\ counts \in [freezes : Nat, losses : Nat, restarts : Nat, visits : Nat]
  /\ Held /\ counts.restarts = 0 => history.lost = {}

KeyInv == Lanes /\ Losses /\ InLine /\ Accounted

\* The four queues are queues of numbers.
LEMMA QueueTypes ==
  ASSUME TypeOK
  PROVE  /\ pty \in Seq(Nat) /\ First \in Seq(Nat) /\ Second \in Seq(Nat)
         /\ queued_input \in Seq(Nat)
<1>1. pty \in Seq(Nat) /\ queued_input \in Seq(Nat)
  BY KeysAreNumbers DEF TypeOK
<1>2. handoff.keys \in Seq(Nat) /\ deferred.queue \in Seq(Nat) /\ writer.queue \in Seq(Nat)
  <2>1. handoff.keys \in Seq(Keys) /\ deferred.queue \in Seq(Keys) /\ writer.queue \in Seq(Keys)
    BY DEF TypeOK
  <2> QED BY <2>1, KeysAreNumbers
<1>3. Values(pipe) \in Seq(Nat)
  BY ValuesType DEF TypeOK
<1> QED BY <1>1, <1>2, <1>3 DEF First, Second

\* What a write does to the queues: it waits for the session to wake, ...
Waits(all) ==
  /\ queued_input' = all /\ history'.lost = history.lost
  /\ UNCHANGED <<pty, First, Second>>
\* ... or it goes to the launch or the reconnect queue, ...
Queues(all) ==
  /\ queued_input' = <<>> /\ Second' = Second \o all /\ history'.lost = history.lost
  /\ UNCHANGED <<pty, First>>
\* ... which may be full, ...
Refused(keys) ==
  /\ queued_input = <<>> /\ queued_input' = <<>>
  /\ history'.lost = history.lost \cup (ToSet(keys) \ ToSet(Second))
  /\ UNCHANGED <<pty, First, Second>>
\* ... or to the terminal, past the handoff, ...
Arrives(all) ==
  /\ queued_input' = <<>> /\ pty' = pty \o all /\ history'.lost = history.lost
  /\ UNCHANGED <<First, Second>>
  /\ Second = <<>> /\ (First = <<>> \/ ToSet(all) \subseteq history'.overtook)
\* ... or to the channel, past the reconnect queue.
Sent(all) ==
  /\ queued_input' = <<>> /\ history'.lost = history.lost /\ UNCHANGED <<pty, Second>>
  /\ Second = <<>> \/ ToSet(all) \subseteq history'.overtook
  /\ \E z \in Seq(Nat) : KeysOf(z) = {} /\ First' = (First \o z) \o all

\* Every write, in every state of the session, is one of the five.
LEMMA WriteMoves ==
  ASSUME TypeOK, ChildInv, LinkInv, Lanes, ~removed,
         NEW wake, NEW keys \in Seq(Keys), NEW quiet \in SUBSET Keys,
         WakeAndWrite(wake, keys, quiet), UNCHANGED <<transport, launch, handoff>>
  PROVE  /\ history.overtook \subseteq history'.overtook
         /\ \/ Waits(queued_input \o keys) \/ Queues(queued_input \o keys) \/ Refused(keys)
            \/ Arrives(queued_input \o keys) \/ Sent(queued_input \o keys)
<1> DEFINE awake == wake /\ CanSignal
           waits == hibernated /\ ~awake /\ ~Unlaunched
           flush == IF awake THEN queued_input ELSE <<>>
           rest == IF waits THEN <<>> ELSE keys
           all == flush \o rest
           requeued == QueueInput(QueueInput(writer.queue, flush), rest)
           direct == Remote /\ Through /\ ~writer.broken
<1>1. /\ queued_input' = (IF awake THEN <<>> ELSE IF waits THEN queued_input \o keys ELSE queued_input)
      /\ Transmit(awake, flush, rest, quiet)
  BY DEF WakeAndWrite
<1>2. /\ deferred' = (IF Unlaunched THEN [deferred EXCEPT !.queue = @ \o all] ELSE deferred)
      /\ pty' = (IF Held /\ ~Unlaunched THEN pty \o all ELSE pty)
      /\ pipe' = (IF direct
                  THEN pipe \o (IF awake THEN <<Signal("CONT")>> ELSE <<>>) \o Inputs(all)
                  ELSE pipe)
      /\ writer' = (IF Held \/ direct \/ requeued = writer.queue THEN writer
                    ELSE [IF Through THEN Cut(writer) ELSE writer EXCEPT !.queue = requeued])
      /\ history' = [history EXCEPT
           !.lost = IF Held \/ direct THEN @ ELSE @ \cup (ToSet(all) \ ToSet(requeued)),
           !.overtook = IF Overtaking THEN @ \cup ToSet(all) ELSE @,
           !.quiet = @ \cup quiet]
  BY <1>1 DEF Transmit
<1>3. /\ history'.lost = (IF Held \/ direct THEN history.lost
                          ELSE history.lost \cup (ToSet(all) \ ToSet(requeued)))
      /\ history'.overtook = (IF Overtaking THEN history.overtook \cup ToSet(all) ELSE history.overtook)
  BY <1>2 DEF TypeOK
<1>4. queued_input \in Seq(Keys) /\ <<>> \in Seq(Keys)
  BY DEF TypeOK
<1>5. flush \in Seq(Keys) /\ rest \in Seq(Keys) /\ all \in Seq(Keys)
  BY <1>4, ConcatProperties
<1>6. /\ deferred.queue \in Seq(Keys) /\ writer.queue \in Seq(Keys) /\ Len(writer.queue) <= QueueLimit
      /\ pipe \in Seq(Message) /\ pty \in Seq(Keys) /\ handoff.keys \in Seq(Keys)
      /\ queued_input \o keys \in Seq(Keys)
  BY <1>4, ConcatProperties DEF TypeOK
<1>7. \A s \in Seq(Keys) : s \o <<>> = s /\ <<>> \o s = s
  BY ConcatEmptySeq
<1>8. \/ waits /\ all = <<>> /\ flush = <<>> /\ rest = <<>> /\ queued_input' = queued_input \o keys
      \/ all = queued_input \o keys /\ queued_input' = <<>> /\ (~awake => queued_input = <<>> /\ all = keys /\ flush = <<>> /\ rest = keys)
  <2>1. CASE awake
    BY <1>1, <2>1
  <2>2. CASE waits
    BY <1>1, <1>7, <2>2
  <2>3. CASE ~awake /\ ~waits
    <3>1. queued_input = <<>>
      BY <2>3 DEF Lanes, Unlaunched
    <3> QED BY <1>1, <1>7, <2>3, <3>1
  <2> QED BY <2>1, <2>2, <2>3
<1> HIDE DEF flush, rest, all, requeued, waits
<1>9. history.overtook \subseteq history'.overtook
  BY <1>3
<1>10. Held \/ Remote
  BY DEF TypeOK, Held, Remote
<1>11. CASE Unlaunched
  <2>1. Held /\ ~direct
    BY <1>11 DEF Unlaunched, Held, Remote
  <2>2. deferred'.queue = deferred.queue \o all /\ pty' = pty /\ history'.lost = history.lost
    BY <1>2, <1>3, <1>11, <2>1 DEF TypeOK
  <2>3. First = handoff.keys /\ First' = handoff.keys /\ Second = deferred.queue
        /\ Second' = deferred'.queue
    BY <2>1 DEF First, Second, Held
  <2>4. ~waits
    BY <1>11 DEF waits
  <2> QED BY <1>8, <1>9, <2>2, <2>3, <2>4 DEF Queues
<1>12. CASE Held /\ ~Unlaunched
  <2>1. /\ pty' = pty \o all /\ history'.lost = history.lost /\ deferred' = deferred
    BY <1>2, <1>3, <1>12
  <2>2. First = handoff.keys /\ First' = First /\ Second = deferred.queue /\ Second' = Second
    BY <1>12, <2>1 DEF First, Second, Held
  <2>3. Second = <<>>
    BY <1>12, <2>2 DEF Lanes
  <2>4. First = <<>> \/ ToSet(all) \subseteq history'.overtook
    <3>1. First = <<>> \/ Overtaking
      BY <1>12, <2>2 DEF Lanes, Overtaking
    <3> QED BY <1>3, <3>1
  <2>5. CASE all = <<>> /\ queued_input' = queued_input \o keys
    <3>1. pty' = pty
      BY <1>6, <1>7, <2>1, <2>5
    <3> QED BY <1>9, <2>1, <2>2, <2>5, <3>1 DEF Waits
  <2> QED BY <1>8, <1>9, <2>1, <2>2, <2>3, <2>4, <2>5 DEF Arrives
<1>13. CASE direct
  <2>1. /\ pty' = pty /\ history'.lost = history.lost /\ writer' = writer /\ Remote /\ ~Held
        /\ pipe' = pipe \o (IF awake THEN <<Signal("CONT")>> ELSE <<>>) \o Inputs(all)
    BY <1>2, <1>3, <1>13 DEF Held, Remote, Unlaunched
  <2>2. Second' = Second /\ Second = writer.queue /\ First = Values(pipe) /\ First' = Values(pipe')
    BY <2>1 DEF First, Second, Held
  <2> DEFINE sig == IF awake THEN <<Signal("CONT")>> ELSE <<>>
  <2>3. sig \in Seq(Message) /\ Values(sig) \in Seq(Nat) /\ KeysOf(Values(sig)) = {}
    <3>1. Signal("CONT") \in Message /\ Signal("CONT").type # "input"
      BY Bounds DEF Signal, Message
    <3>2. CASE awake
      BY <3>1, <3>2, ValuesOfOne, ValuesType
    <3>3. CASE ~awake
      <4>1. <<>> \in Seq(Message) /\ Values(<<>>) = <<>>
        BY DEF Values
      <4> QED BY <3>3, <4>1, SortedShort
    <3> QED BY <3>2, <3>3
  <2>4. pipe' = (pipe \o sig) \o Inputs(all)
    BY <2>1
  <2> HIDE DEF sig
  <2>5. Values(pipe') = (Values(pipe) \o Values(sig)) \o all
    <3>1. pipe \o sig \in Seq(Message) /\ Inputs(all) \in Seq(Message)
      BY <1>5, <1>6, <2>3, ConcatProperties, InputsOfKeys
    <3>2. Values(pipe') = Values(pipe \o sig) \o Values(Inputs(all))
      BY <2>4, <3>1, ValuesConcat
    <3>3. Values(pipe \o sig) = Values(pipe) \o Values(sig)
      BY <1>6, <2>3, ValuesConcat
    <3> QED BY <1>5, <3>2, <3>3, ValuesOfInputs
  <2>6. Second = <<>> \/ ToSet(all) \subseteq history'.overtook
    <3>1. Second = <<>> \/ Overtaking
      BY <1>13, <2>2 DEF Lanes, Overtaking
    <3> QED BY <1>3, <3>1
  <2>7. CASE waits /\ all = <<>> /\ queued_input' = queued_input \o keys
    <3>1. Inputs(all) = <<>>
      BY <2>7 DEF Inputs
    <3>2. sig = <<>>
      BY <2>7 DEF sig, waits
    <3>3. pipe' = pipe
      BY <1>6, <2>4, <3>1, <3>2, ConcatEmptySeq
    <3> QED BY <1>9, <2>1, <2>2, <2>7, <3>3 DEF Waits
  <2>8. CASE all = queued_input \o keys /\ queued_input' = <<>>
    <3>1. Sent(all)
      BY <2>1, <2>2, <2>3, <2>5, <2>6, <2>8 DEF Sent
    <3> QED BY <1>9, <2>8, <3>1
  <2> QED BY <1>8, <2>7, <2>8
<1>14. CASE Remote /\ ~direct
  <2>1. ~Held /\ ~Unlaunched /\ ~awake
    BY <1>14 DEF Held, Remote, Unlaunched, CanSignal
  <2>2. /\ pty' = pty /\ pipe' = pipe
        /\ history'.lost = history.lost \cup (ToSet(all) \ ToSet(requeued))
        /\ \/ requeued = writer.queue /\ writer' = writer
           \/ writer' = [writer EXCEPT !.queue = requeued]
           \/ writer' = [Cut(writer) EXCEPT !.queue = requeued]
    BY <1>2, <1>3, <1>14, <2>1
  <2>3. First' = First /\ Second = writer.queue /\ Second' = writer'.queue
    BY <2>1, <2>2 DEF First, Second, Held
  <2>4. QueueInput(writer.queue, <<>>) = writer.queue
    <3>1. Len(<<>>) = 0 /\ Len(writer.queue) \in Nat
      BY <1>6, LenProperties
    <3> QED BY <1>6, <1>7, <3>1 DEF QueueInput
  <2>5. requeued = QueueInput(writer.queue, rest)
    BY <1>8, <2>1, <2>4 DEF requeued
  <2>6. CASE all = <<>> /\ rest = <<>>
    <3>1. requeued = writer.queue /\ ToSet(all) = {}
      BY <2>4, <2>5, <2>6, Empty
    <3>2. writer'.queue = writer.queue /\ history'.lost = history.lost
      BY <2>2, <3>1, CutType DEF TypeOK
    <3>3. CASE queued_input' = queued_input \o keys
      BY <1>9, <2>2, <2>3, <3>2, <3>3 DEF Waits
    <3>4. CASE all = queued_input \o keys /\ queued_input' = <<>>
      <4>1. Second' = Second \o all
        BY <1>6, <1>7, <2>3, <2>6, <3>2
      <4> QED BY <1>9, <2>2, <2>3, <3>2, <3>4, <4>1 DEF Queues
    <3> QED BY <1>8, <3>3, <3>4
  <2>7. CASE all = keys /\ rest = keys /\ all # <<>> /\ queued_input = <<>> /\ queued_input' = <<>>
             /\ all = queued_input \o keys
    <3>1. writer'.queue = requeued
      <4>1. [writer EXCEPT !.queue = requeued].queue = requeued
        BY DEF TypeOK
      <4>2. [Cut(writer) EXCEPT !.queue = requeued].queue = requeued
        BY CutType
      <4> QED BY <2>2, <2>7, <4>1, <4>2
    <3>2. CASE requeued = writer.queue
      BY <1>9, <2>2, <2>3, <2>7, <3>1, <3>2 DEF Refused
    <3>3. CASE requeued = writer.queue \o all
      <4>1. ToSet(requeued) = ToSet(writer.queue) \cup ToSet(all)
        BY <1>5, <1>6, <3>3, ToSetOfConcat
      <4>2. history'.lost = history.lost
        BY <2>2, <4>1
      <4> QED BY <1>9, <2>2, <2>3, <2>7, <3>1, <3>3, <4>2 DEF Queues
    <3> QED BY <2>5, <2>7, <3>2, <3>3 DEF QueueInput
  <2> QED BY <1>8, <2>1, <2>6, <2>7
<1> QED BY <1>10, <1>11, <1>12, <1>13, <1>14 DEF Unlaunched

\* A step that takes keys nowhere, in or out.
LEMMA KeysStand ==
  ASSUME InLine, Accounted, UNCHANGED <<pty, First, Second, queued_input, typed, removed>>,
         history'.overtook = history.overtook, history'.lost = history.lost
  PROVE  InLine' /\ Accounted'
  BY DEF InLine, Accounted

\* A step that moves keys within the queues.
LEMMA KeysMove ==
  ASSUME InLine, Accounted, UNCHANGED <<typed, removed>>, history'.lost = history.lost,
         Lined(pty', First', Second', queued_input', history'.overtook),
         Total(pty', First', Second', queued_input') = Total(pty, First, Second, queued_input)
  PROVE  InLine' /\ Accounted'
  BY DEF InLine, Accounted

\* ... and all that is at the end moves to where a write may take it.
Goes(a, b, c, all, o, keys) ==
  /\ Lined(a, b, c, all, o) /\ Total(a, b, c, all) = keys
  /\ Lined(a, b, c \o all, <<>>, o) /\ Total(a, b, c \o all, <<>>) = keys
  /\ KeysOf(c) = {} /\ (KeysOf(b) = {} \/ KeysOf(all) \subseteq o) =>
       Lined(a \o all, b, c, <<>>, o) /\ Total(a \o all, b, c, <<>>) = keys
  /\ \A z \in Seq(Nat) :
       KeysOf(z) = {} /\ (KeysOf(c) = {} \/ KeysOf(all) \subseteq o) =>
         /\ Lined(a, (b \o z) \o all, c, <<>>, o)
         /\ Total(a, (b \o z) \o all, c, <<>>) = keys

\* In each of the ways a write goes, the queues stay in line and keep their keys ...
LEMMA WhereTheyGo ==
  ASSUME NEW a \in Seq(Nat), NEW b \in Seq(Nat), NEW c \in Seq(Nat), NEW all \in Seq(Nat), NEW o,
         Lined(a, b, c, all, o)
  PROVE  Goes(a, b, c, all, o, Total(a, b, c, all))
<1>1. Lined(a, b, c \o all, <<>>, o) /\ Total(a, b, c \o all, <<>>) = Total(a, b, c, all)
  BY MoveUp
<1>2. KeysOf(a \o all) = KeysOf(a) \cup KeysOf(all) /\ KeysOf(<<>>) = {}
  BY KeysOfConcat, SortedShort
<1>3. Total(a \o all, b, c, <<>>) = Total(a, b, c, all)
  BY <1>2 DEF Total
<1>4. ASSUME KeysOf(c) = {}, KeysOf(b) = {} \/ KeysOf(all) \subseteq o
      PROVE  Lined(a \o all, b, c, <<>>, o)
  BY <1>4, PassTwo
<1>5. ASSUME NEW z \in Seq(Nat), KeysOf(z) = {}, KeysOf(c) = {} \/ KeysOf(all) \subseteq o
      PROVE  /\ Lined(a, (b \o z) \o all, c, <<>>, o)
             /\ Total(a, (b \o z) \o all, c, <<>>) = Total(a, b, c, all)
  <2>1. PICK y \in Seq(Nat) : y = b \o z
    BY ConcatProperties
  <2>2. Lined(a, y, c, all, o)
    <3>1. KeysOf(z) = {}
      BY <1>5
    <3>2. Lined(a, b \o z, c, all, o)
      BY <3>1, OnlyKeysCount
    <3> QED BY <2>1, <3>2
  <2>3. Lined(a, y \o all, c, <<>>, o)
    <3>1. KeysOf(c) = {} \/ KeysOf(all) \subseteq o
      BY <1>5
    <3> QED BY <2>2, <3>1, PassOne
  <2>4. KeysOf(y) = KeysOf(b) /\ KeysOf(y \o all) = KeysOf(y) \cup KeysOf(all)
    <3>1. KeysOf(b \o z) = KeysOf(b) \cup KeysOf(z) /\ KeysOf(z) = {}
      BY <1>5, KeysOfConcat
    <3>2. KeysOf(y \o all) = KeysOf(y) \cup KeysOf(all)
      BY KeysOfConcat
    <3> QED BY <2>1, <3>1, <3>2
  <2>5. Total(a, y \o all, c, <<>>) = Total(a, b, c, all)
    BY <1>2, <2>4 DEF Total
  <2> QED BY <2>1, <2>3, <2>5
<1> QED BY <1>1, <1>3, <1>4, <1>5 DEF Goes

\* ... and take the new ones.
LEMMA NewKeysGo ==
  ASSUME NEW a, NEW b, NEW c, NEW d, NEW k, NEW n, NEW o, Comes(a, b, c, d, k, n, o)
  PROVE  Goes(a, b, c, d \o k, o, Total(a, b, c, d) \cup KeysOf(k))
<1>1. a \in Seq(Nat) /\ b \in Seq(Nat) /\ c \in Seq(Nat) /\ d \in Seq(Nat) /\ k \in Seq(Nat)
  BY DEF Comes
<1>2. PICK all \in Seq(Nat) : all = d \o k
  BY <1>1, ConcatProperties
<1>3. Lined(a, b, c, all, o) /\ Total(a, b, c, all) = Total(a, b, c, d) \cup KeysOf(k)
  BY <1>2, JoinsTheEnd
<1>4. Lined(a, b, c, all, o)
  BY <1>3
<1>5. Goes(a, b, c, all, o, Total(a, b, c, all))
  BY <1>1, <1>4, WhereTheyGo
<1> QED BY <1>2, <1>3, <1>5

\* Where a key may go when a client types or wakes the session.
LEMMA WriteKeepsLine ==
  ASSUME TypeOK, ChildInv, LinkInv, KeyInv, ~removed, ~removed',
         NEW wake, NEW keys, NEW quiet \in SUBSET Keys, WakeAndWrite(wake, keys, quiet),
         UNCHANGED <<transport, launch, handoff>>,
         \/ keys = <<>> /\ typed' = typed
         \/ keys = <<typed + 1>> /\ typed' = typed + 1 /\ typed + 1 \in Keys
  PROVE  InLine' /\ Accounted'
<1>1. keys \in Seq(Keys) /\ keys \in Seq(Nat) /\ typed \in Nat /\ typed' \in Nat
  <2>1. keys \in Seq(Keys)
    <3>1. <<>> \in Seq(Keys) /\ \A n \in Keys : <<n>> \in Seq(Keys)
      OBVIOUS
    <3> QED BY <3>1
  <2>2. typed \in Nat
    BY Bounds DEF TypeOK
  <2> QED BY <2>1, <2>2, KeysAreNumbers
<1>2. queued_input \o keys \in Seq(Keys)
  BY <1>1, ConcatProperties DEF TypeOK
<1>3. PICK a, b, c, d, all \in Seq(Nat) :
        /\ a = pty /\ b = First /\ c = Second /\ d = queued_input
        /\ all = queued_input \o keys /\ all = d \o keys /\ KeysOf(all) = ToSet(all)
  BY <1>2, QueueTypes, KeysAreNumbers
<1>3a. a \in Seq(Nat) /\ b \in Seq(Nat) /\ c \in Seq(Nat) /\ d \in Seq(Nat) /\ all \in Seq(Nat)
  BY <1>3
<1>4. PICK o : o = history'.overtook
  OBVIOUS
<1>5a. /\ history.overtook \subseteq o
       /\ Waits(all) \/ Queues(all) \/ Refused(keys) \/ Arrives(all) \/ Sent(all)
  BY <1>1, <1>3, <1>4, WriteMoves DEF KeyInv
<1>5b. Lined(a, b, c, d, o)
  BY <1>3, <1>5a, LinedMore DEF KeyInv, InLine
<1>5. Sorted(keys, o) /\ KeysOf(keys) = (1..typed') \ (1..typed) /\ \A y \in KeysOf(keys) : y > typed
  <2>1. CASE keys = <<>> /\ typed' = typed
    BY <2>1, SortedShort
  <2>2. CASE keys = <<typed + 1>> /\ typed' = typed + 1
    <3>1. PICK n \in Nat : n = typed + 1 /\ n # 0 /\ n > typed
      BY <1>1
    <3>2. Sorted(<<n>>, o) /\ KeysOf(<<n>>) = {n}
      BY <3>1, SortedShort
    <3>3. \A x, y \in Nat : x = y + 1 => {x} = (1..x) \ (1..y)
      OBVIOUS
    <3>4. {n} = (1..n) \ (1..typed)
      BY <1>1, <3>1, <3>3
    <3> QED BY <1>1, <2>2, <3>1, <3>2, <3>4
  <2> QED BY <2>1, <2>2
<1>6. KeysOf(keys) = ToSet(keys)
  BY <1>1, KeysAreNumbers
<1>7. /\ Total(a, b, c, d) \subseteq 1..typed /\ history.lost \subseteq 1..typed
      /\ Total(a, b, c, d) = (1..typed) \ history.lost
  BY <1>3 DEF KeyInv, Accounted
<1>8. Goes(a, b, c, all, o, Total(a, b, c, d) \cup KeysOf(keys))
  <2>1. Comes(a, b, c, d, keys, typed, o)
    BY <1>1, <1>3a, <1>5, <1>5b, <1>7 DEF Comes
  <2>2. Goes(a, b, c, d \o keys, o, Total(a, b, c, d) \cup KeysOf(keys))
    BY <2>1, NewKeysGo
  <2> QED BY <1>3, <2>2
<1>9. 1..typed \subseteq 1..typed' /\ (1..typed) \cap KeysOf(keys) = {}
  BY <1>1, <1>5
<1>11. ASSUME Lined(pty', First', Second', queued_input', o),
              Total(pty', First', Second', queued_input') = Total(a, b, c, d) \cup KeysOf(keys),
              history'.lost = history.lost
       PROVE  InLine' /\ Accounted'
  <2>1. Total(a, b, c, d) \cup KeysOf(keys) = (1..typed') \ history.lost
    BY <1>5, <1>7, <1>9
  <2>2. InLine'
    BY <1>4, <1>11 DEF InLine
  <2>3. Accounted'
    BY <1>7, <1>9, <1>11, <2>1 DEF Accounted
  <2> QED BY <2>2, <2>3
<1>12. CASE Waits(all)
  BY <1>3, <1>8, <1>11, <1>12 DEF Waits, Goes
<1>13. CASE Queues(all)
  BY <1>3, <1>8, <1>11, <1>13 DEF Queues, Goes
<1>14. CASE Arrives(all)
  <2>1. KeysOf(c) = {} /\ (KeysOf(b) = {} \/ KeysOf(all) \subseteq o)
    BY <1>3, <1>4, <1>14, SortedShort DEF Arrives
  <2> QED BY <1>3, <1>8, <1>11, <1>14, <2>1 DEF Arrives, Goes
<1>15. CASE Sent(all)
  <2>1. PICK z \in Seq(Nat) : KeysOf(z) = {} /\ First' = (b \o z) \o all
    BY <1>3, <1>15 DEF Sent
  <2>2. KeysOf(c) = {} \/ KeysOf(all) \subseteq o
    BY <1>3, <1>4, <1>15, SortedShort DEF Sent
  <2>3. /\ Lined(a, First', c, <<>>, o)
        /\ Total(a, First', c, <<>>) = Total(a, b, c, d) \cup KeysOf(keys)
    BY <1>8, <2>1, <2>2 DEF Goes
  <2> QED BY <1>3, <1>11, <1>15, <2>3 DEF Sent
<1>16. CASE Refused(keys)
  <2>1. KeysOf(c) \subseteq 1..typed
    BY <1>7 DEF Total
  <2>2. ToSet(keys) \ ToSet(Second) = KeysOf(keys)
    <3>1. 0 \notin 1..typed /\ 0 \notin KeysOf(keys)
      BY DEF KeysOf
    <3> QED BY <1>3, <1>6, <1>9, <2>1, <3>1 DEF KeysOf
  <2>3. history'.lost = history.lost \cup KeysOf(keys)
    BY <1>16, <2>2 DEF Refused
  <2>4. Lined(pty', First', Second', queued_input', o)
        /\ Total(pty', First', Second', queued_input') = Total(a, b, c, d)
    BY <1>3, <1>4, <1>16, <1>5b DEF Refused
  <2>5. Total(a, b, c, d) = (1..typed') \ history'.lost /\ history'.lost \subseteq 1..typed'
    BY <1>5, <1>7, <1>9, <2>3
  <2>6. InLine'
    BY <1>4, <2>4 DEF InLine
  <2>7. Accounted'
    BY <1>3, <1>7, <1>9, <2>4, <2>5 DEF Accounted
  <2> QED BY <2>6, <2>7
<1> QED BY <1>5a, <1>12, <1>13, <1>14, <1>15, <1>16

\* A write leaves the queues a session does not have empty.
LEMMA WriteKeepsLanes ==
  ASSUME TypeOK, ChildInv, LinkInv, Lanes, ~removed, ~removed',
         NEW wake, NEW keys \in Seq(Keys), NEW quiet \in SUBSET Keys,
         WakeAndWrite(wake, keys, quiet), UNCHANGED <<transport, launch, handoff>>
  PROVE  Lanes' /\ (Held => history'.lost = history.lost)
<1> DEFINE awake == wake /\ CanSignal
           waits == hibernated /\ ~awake /\ ~Unlaunched
           flush == IF awake THEN queued_input ELSE <<>>
           rest == IF waits THEN <<>> ELSE keys
           all == flush \o rest
           requeued == QueueInput(QueueInput(writer.queue, flush), rest)
           direct == Remote /\ Through /\ ~writer.broken
<1>1. /\ hibernated' = (hibernated /\ ~awake)
      /\ queued_input' = (IF awake THEN <<>> ELSE IF waits THEN queued_input \o keys ELSE queued_input)
      /\ deferred' = (IF Unlaunched THEN [deferred EXCEPT !.queue = @ \o all] ELSE deferred)
      /\ writer' = (IF Held \/ direct \/ requeued = writer.queue THEN writer
                    ELSE [IF Through THEN Cut(writer) ELSE writer EXCEPT !.queue = requeued])
  BY DEF WakeAndWrite, Transmit
<1>2. Held => history'.lost = history.lost
  BY DEF WakeAndWrite, Transmit, TypeOK
<1> HIDE DEF flush, rest, all, requeued
<1>3. /\ transport' = transport /\ (Held' <=> Held) /\ (Remote' <=> Remote) /\ launch' = launch
      /\ (Unlaunched' <=> Unlaunched) /\ handoff' = handoff
  BY DEF Held, Remote, Unlaunched
<1>4. queued_input' # <<>> => hibernated'
  BY <1>1 DEF Lanes
<1>5. Unlaunched => queued_input' = <<>>
  BY <1>1 DEF Lanes, Unlaunched
<1>6. writer'.granted => writer'.queue = <<>>
  <2>1. CASE writer' = writer
    BY <2>1 DEF Lanes
  <2>2. CASE Through /\ writer' = [Cut(writer) EXCEPT !.queue = requeued]
    <3>1. writer'.granted = FALSE
      BY <2>2, CutType
    <3> QED BY <3>1
  <2>3. CASE ~Through /\ writer' = [writer EXCEPT !.queue = requeued]
    <3>1. ~writer.granted
      BY <2>3 DEF LinkInv
    <3>2. writer'.granted = writer.granted
      BY <2>3 DEF TypeOK
    <3> QED BY <3>1, <3>2
  <2> QED BY <1>1, <2>1, <2>2, <2>3
<1>7. Held => writer' = writer
  BY <1>1
<1>8. ~Unlaunched => deferred' = deferred
  BY <1>1
<1>9. Remote => ~Unlaunched
  BY DEF Held, Remote, Unlaunched
<1> QED BY <1>2, <1>3, <1>4, <1>5, <1>6, <1>7, <1>8, <1>9 DEF Lanes

\* Type, TypeQuietly, Wake and the fresh attach keep the invariant.
LEMMA WriteKeepsKeys ==
  ASSUME TypeOK, ChildInv, LinkInv, KeyInv, ~removed, ~removed',
         NEW wake, NEW keys, NEW quiet \in SUBSET Keys, WakeAndWrite(wake, keys, quiet),
         UNCHANGED <<transport, launch, handoff>>, counts'.restarts = counts.restarts,
         counts' \in [freezes : Nat, losses : Nat, restarts : Nat, visits : Nat],
         \/ keys = <<>> /\ typed' = typed
         \/ keys = <<typed + 1>> /\ typed' = typed + 1 /\ typed + 1 \in Keys
  PROVE  KeyInv'
<1>1. keys \in Seq(Keys)
  <2>1. <<>> \in Seq(Keys) /\ \A n \in Keys : <<n>> \in Seq(Keys)
    OBVIOUS
  <2> QED BY <2>1
<1>2. InLine' /\ Accounted'
  BY WriteKeepsLine
<1>3. Lanes' /\ (Held => history'.lost = history.lost)
  BY <1>1, WriteKeepsLanes DEF KeyInv
<1>4. Losses'
  BY <1>3 DEF KeyInv, Losses, Held
<1> QED BY <1>2, <1>3, <1>4 DEF KeyInv

\* A message that is no key joins the channel.
LEMMA MessageJoins ==
  ASSUME TypeOK, InLine, Accounted, Remote, NEW m \in Message, m.type # "input",
         pipe' = Append(pipe, m),
         UNCHANGED <<transport, pty, Second, queued_input, typed, removed>>,
         history'.overtook = history.overtook, history'.lost = history.lost
  PROVE  InLine' /\ Accounted'
<1>1. pipe \in Seq(Message) /\ <<m>> \in Seq(Message)
  BY ValuesOfOne DEF TypeOK
<1>2. pipe' = pipe \o <<m>>
  BY <1>1, AppendIsConcat
<1>3. PICK z \in Seq(Nat) : z = Values(<<m>>) /\ KeysOf(z) = {}
  BY <1>1, ValuesOfOne, ValuesType
<1>4. First' = First \o z
  <2>1. First = Values(pipe) /\ First' = Values(pipe')
    BY DEF First, Held, Remote
  <2>2. Values(pipe \o <<m>>) = Values(pipe) \o Values(<<m>>)
    BY <1>1, ValuesConcat
  <2> QED BY <1>2, <1>3, <2>1, <2>2
<1>5. PICK a, b, c, d \in Seq(Nat) : a = pty /\ b = First /\ c = Second /\ d = queued_input
  BY QueueTypes
<1>6. PICK o : o = history.overtook
  OBVIOUS
<1>7. Lined(a, b, c, d, o)
  BY <1>5, <1>6 DEF InLine
<1>8. Lined(a, b \o z, c, d, o)
  BY <1>3, <1>7, OnlyKeysCount
<1>9. Total(a, b \o z, c, d) = Total(a, b, c, d)
  <2>1. KeysOf(b \o z) = KeysOf(b) \cup KeysOf(z) /\ KeysOf(z) = {}
    BY <1>3, KeysOfConcat
  <2> QED BY <2>1 DEF Total
<1> QED BY <1>4, <1>5, <1>6, <1>8, <1>9, KeysMove

\* The first message of the channel, a key or 0, arrives.
Shifted(a, k, t, c, d, o, keys) ==
  /\ Lined(a \o <<k>>, t, c, d, o) /\ Total(a \o <<k>>, t, c, d) = keys
  /\ k = 0 => Lined(a, t, c, d, o) /\ Total(a, t, c, d) = keys

\* The first message of the channel, a key or none, joins the terminal.
LEMMA FirstArrives ==
  ASSUME NEW a \in Seq(Nat), NEW t \in Seq(Nat), NEW c, NEW d, NEW k \in Nat, NEW o,
         Lined(a, <<k>> \o t, c, d, o)
  PROVE  Shifted(a, k, t, c, d, o, Total(a, <<k>> \o t, c, d))
<1> DEFINE u == <<k>> \o t
<1>1. <<k>> \in Seq(Nat) /\ Len(<<k>>) = 1 /\ <<k>>[1] = k /\ KeysOf(<<k>>) = {k} \ {0}
      /\ Sorted(<<k>>, o)
  BY SortedShort
<1>2. PICK n \in Nat : n = Len(t)
  BY LenProperties
<1>3. /\ DOMAIN t = 1..n /\ DOMAIN u = 1..(1 + n)
      /\ \A i \in 1..(1 + n) : u[i] = IF i <= 1 THEN k ELSE t[i - 1]
  <2>1. /\ Len(u) = 1 + n /\ u \in Seq(Nat)
        /\ \A i \in 1..(1 + n) : u[i] = IF i <= 1 THEN <<k>>[i] ELSE t[i - 1]
    BY <1>1, <1>2, ConcatProperties
  <2>2. DOMAIN u = 1..(1 + n) /\ DOMAIN t = 1..n
    BY <1>2, <2>1, LenProperties
  <2> QED BY <1>1, <2>1, <2>2
<1>4. Sorted(u, o) /\ KeysOf(u) = ({k} \ {0}) \cup KeysOf(t)
  BY <1>1, KeysOfConcat DEF Lined
<1>5. Lined(a, u, c, d, o)
  OBVIOUS
<1> HIDE DEF u
<1>6. \A i \in 1..n : i + 1 \in 1..(1 + n) /\ u[i + 1] = t[i]
  BY <1>3
<1>7. Sorted(t, o)
  <2> SUFFICES ASSUME NEW i \in 1..n, NEW j \in 1..n, i < j, t[i] # 0, t[j] # 0
               PROVE  Ahead(t[i], t[j], o)
    BY <1>3 DEF Sorted
  <2>1. i + 1 < j + 1
    OBVIOUS
  <2> QED BY <1>3, <1>4, <1>6, <2>1 DEF Sorted
<1>8. Before(<<k>>, t, o)
  <2> SUFFICES ASSUME k # 0, NEW i \in 1..n, t[i] # 0 PROVE Ahead(k, t[i], o)
    BY <1>1, <1>3 DEF Before, KeysOf, ToSet
  <2>1. 1 \in 1..(1 + n) /\ 1 < i + 1 /\ u[1] = k
    BY <1>3
  <2> QED BY <1>3, <1>4, <1>6, <2>1 DEF Sorted
<1>9. /\ Sorted(a, o) /\ Sorted(c, o) /\ Sorted(d, o) /\ Before(a, u, o) /\ Before(a, c, o)
      /\ Before(a, d, o) /\ Before(u, c, o) /\ Before(u, d, o) /\ Before(c, d, o)
  BY <1>5 DEF Lined
<1>10. KeysOf(a \o <<k>>) = KeysOf(a) \cup ({k} \ {0})
  BY <1>1, KeysOfConcat
<1>11. Before(a, <<k>>, o) /\ Before(a, t, o)
  BY <1>1, <1>4, <1>9 DEF Before
<1>12. Sorted(a \o <<k>>, o)
  BY <1>1, <1>9, <1>11, SortedConcat
<1>13. Before(t, c, o) /\ Before(t, d, o)
  BY <1>4, <1>9 DEF Before
<1>14. /\ Before(a \o <<k>>, t, o) /\ Before(a \o <<k>>, c, o) /\ Before(a \o <<k>>, d, o)
  BY <1>1, <1>4, <1>8, <1>9, <1>10, <1>11 DEF Before
<1>15. Lined(a \o <<k>>, t, c, d, o)
  BY <1>7, <1>9, <1>12, <1>13, <1>14 DEF Lined
<1>16. Lined(a, t, c, d, o)
  BY <1>7, <1>9, <1>11, <1>13 DEF Lined
<1>17. Total(a \o <<k>>, t, c, d) = Total(a, u, c, d)
  BY <1>4, <1>10 DEF Total
<1>18. k = 0 => Total(a, t, c, d) = Total(a, u, c, d)
  BY <1>4 DEF Total
<1> QED BY <1>15, <1>16, <1>17, <1>18 DEF u, Shifted

\* A step that leaves the queues as they are.
LEMMA QueuesStand ==
  ASSUME InLine, Accounted,
         UNCHANGED <<transport, pty, handoff, queued_input, pipe, typed, removed>>,
         deferred'.queue = deferred.queue, writer'.queue = writer.queue,
         history'.overtook = history.overtook, history'.lost = history.lost
  PROVE  InLine' /\ Accounted'
<1>1. First' = First /\ Second' = Second
  BY DEF First, Second, Held
<1> QED BY <1>1, KeysStand

\* The launcher hands the queue over under the lock and flushes it after.
LEMMA LauncherKeepsKeys ==
  ASSUME TypeOK, ChildInv, KeyInv, Launcher
  PROVE  KeyInv'
<1>1. /\ UNCHANGED <<transport, hibernated, queued_input, writer, pipe, removed, typed, history, counts>>
      /\ Held /\ ~Remote /\ Held' /\ ~Remote'
  BY DEF Launcher, DecideSize, HolderReady, LaunchFails, FinishLaunch, FlushLaunch, sessionVars,
         remoteVars, inputVars, ChildInv, TypeOK, Held, Remote
<1>2. Losses'
  BY <1>1 DEF KeyInv, Losses
<1>3. PICK a, b, c, d \in Seq(Nat) : a = pty /\ b = First /\ c = Second /\ d = queued_input
  BY QueueTypes
<1>4. PICK o : o = history.overtook /\ o = history'.overtook
  BY <1>1
<1>5. Lined(a, b, c, d, o)
  BY <1>3, <1>4 DEF KeyInv, InLine
<1>6. /\ b = handoff.keys /\ c = deferred.queue /\ First' = handoff'.keys /\ Second' = deferred'.queue
  BY <1>1, <1>3 DEF First, Second
<1>7. InLine /\ Accounted /\ Lanes
  BY DEF KeyInv
<1>8. CASE DecideSize \/ HolderReady \/ LaunchFails
  <2>1. UNCHANGED <<pty, deferred, handoff>>
    BY <1>8 DEF DecideSize, HolderReady, LaunchFails
  <2>2. InLine' /\ Accounted'
    BY <1>1, <1>7, <2>1, QueuesStand
  <2>3. Unlaunched /\ launch # "flushing" /\ launch' # "flushing" /\ (~Unlaunched' => removed)
    BY <1>1, <1>8 DEF DecideSize, HolderReady, LaunchFails, Unlaunched, ChildInv
  <2>4. Lanes'
    BY <1>1, <1>7, <2>1, <2>3 DEF Lanes
  <2> QED BY <1>2, <2>2, <2>4 DEF KeyInv
<1>9. CASE FinishLaunch
  <2>1. Unlaunched /\ launch = "ready" /\ handoff.keys = <<>> /\ queued_input = <<>> /\ pty' = pty
    BY <1>1, <1>7, <1>9 DEF FinishLaunch, Unlaunched, Lanes
  <2>2. CASE deferred.cancelled
    <3>1. UNCHANGED <<pty, deferred, handoff>> /\ launch' = "over" /\ removed
      BY <1>9, <2>2 DEF FinishLaunch, ChildInv
    <3>2. InLine' /\ Accounted'
      BY <1>1, <1>7, <3>1, QueuesStand
    <3>3. ~Unlaunched' /\ removed'
      BY <1>1, <3>1 DEF Unlaunched
    <3>4. Lanes'
      BY <1>1, <1>7, <2>1, <3>1, <3>3 DEF Lanes
    <3> QED BY <1>2, <3>2, <3>4 DEF KeyInv
  <2>3. CASE ~deferred.cancelled
    <3>1. handoff'.keys = deferred.queue /\ deferred'.queue = <<>> /\ launch' = "flushing"
      BY <1>9, <2>3 DEF FinishLaunch, TypeOK
    <3>2. Lined(a, b \o c, <<>>, d, o) /\ Total(a, b \o c, <<>>, d) = Total(a, b, c, d)
      BY <1>5, MoveUp
    <3>3. b \o c = c
      BY <1>3, <1>6, <2>1, ConcatEmptySeq
    <3>4. First' = c /\ Second' = <<>> /\ pty' = a /\ queued_input' = d
      BY <1>1, <1>3, <1>6, <2>1, <3>1
    <3>5. InLine' /\ Accounted'
      BY <1>1, <1>3, <1>4, <1>7, <3>2, <3>3, <3>4, KeysMove
    <3>6. ~Unlaunched'
      BY <3>1 DEF Unlaunched
    <3>7. Lanes'
      BY <1>1, <1>7, <3>1, <3>6 DEF Lanes
    <3> QED BY <1>2, <3>5, <3>7 DEF KeyInv
  <2> QED BY <2>2, <2>3
<1>10. CASE FlushLaunch
  <2>1. /\ launch = "flushing" /\ launch' = "pumping" /\ handoff'.keys = <<>> /\ deferred' = deferred
        /\ pty' = (IF Alive THEN pty \o handoff.keys ELSE pty)
    BY <1>10 DEF FlushLaunch
  <2>2. ~Unlaunched /\ ~Unlaunched'
    BY <2>1 DEF Unlaunched
  <2>3. Lanes'
    BY <1>1, <1>7, <2>1, <2>2 DEF Lanes
  <2>4. First' = <<>> /\ Second' = c /\ queued_input' = d
    BY <1>1, <1>3, <1>6, <2>1
  <2>5. CASE Alive
    <3>1. Lined(a \o b, <<>>, c, d, o) /\ Total(a \o b, <<>>, c, d) = Total(a, b, c, d)
      BY <1>5, MoveUp
    <3>2. pty' = a \o b
      BY <1>3, <1>6, <2>1, <2>5
    <3>3. InLine' /\ Accounted'
      BY <1>1, <1>3, <1>4, <1>7, <2>4, <3>1, <3>2, KeysMove
    <3> QED BY <1>2, <2>3, <3>3 DEF KeyInv
  <2>6. CASE ~Alive
    <3>1. removed /\ pty' = a
      BY <1>1, <1>3, <2>1, <2>6 DEF ChildInv
    <3>2. Lined(a, <<>>, c, d, o) /\ Total(a, <<>>, c, d) = Total(a, b, c, d) \ KeysOf(b)
      BY <1>5, Dropped
    <3>3. InLine'
      BY <1>3, <1>4, <2>4, <3>1, <3>2 DEF InLine
    <3>4. Accounted'
      BY <1>1, <1>3, <1>7, <2>4, <3>1, <3>2 DEF Accounted
    <3> QED BY <1>2, <2>3, <3>3, <3>4 DEF KeyInv
  <2> QED BY <2>5, <2>6
<1> QED BY <1>8, <1>9, <1>10 DEF Launcher

\* A SIGSTOP goes down the channel, or to the tree.
LEMMA HibernateKeepsKeys ==
  ASSUME TypeOK, ChildInv, KeyInv, Hibernate
  PROVE  KeyInv'
<1>1. /\ UNCHANGED <<transport, pty, launch, deferred, handoff, queued_input, writer, removed,
                     typed, history>>
      /\ hibernated' = TRUE /\ counts' = [counts EXCEPT !.freezes = @ + 1]
      /\ pipe' = (IF Remote THEN Append(pipe, Signal("STOP")) ELSE pipe)
  BY DEF Hibernate, launchVars, inputVars
<1>2. Losses'
  BY <1>1 DEF KeyInv, Losses, Held
<1>3. Lanes'
  BY <1>1 DEF KeyInv, Lanes, Held, Remote, Unlaunched
<1>4. InLine' /\ Accounted'
  <2>1. CASE Remote
    <3>1. Signal("STOP") \in Message /\ Signal("STOP").type # "input"
      BY Bounds DEF Signal, Message
    <3>2. Second' = Second /\ pipe' = Append(pipe, Signal("STOP"))
      BY <1>1, <2>1 DEF Second, Held
    <3> QED BY <1>1, <2>1, <3>1, <3>2, MessageJoins DEF KeyInv
  <2>2. CASE ~Remote
    BY <1>1, <2>2, QueuesStand DEF KeyInv
  <2> QED BY <2>1, <2>2
<1> QED BY <1>2, <1>3, <1>4 DEF KeyInv

\* A size goes to the launch, the terminal, the channel or the writer.
LEMMA ResizeKeepsKeys ==
  ASSUME TypeOK, ChildInv, LinkInv, KeyInv, Resize
  PROVE  KeyInv'
<1> DEFINE s == wanted + 1
           direct == Remote /\ Through /\ ~writer.broken
<1>1. /\ UNCHANGED <<transport, pty, launch, handoff, hibernated, queued_input, removed, typed, counts>>
      /\ deferred' = (IF Unlaunched THEN [deferred EXCEPT !.pending = s] ELSE deferred)
      /\ pipe' = (IF direct THEN Append(pipe, Size(s)) ELSE pipe)
      /\ writer' = (IF Held \/ direct THEN writer
                    ELSE [IF Through THEN Cut(writer) ELSE writer EXCEPT !.resize = s])
      /\ s \in Sizes
  BY NextInput DEF Resize, sessionVars
<1>2. history'.overtook = history.overtook /\ history'.lost = history.lost
  BY DEF Resize, TypeOK
<1>3. deferred'.queue = deferred.queue
  BY <1>1 DEF TypeOK
<1>4. /\ writer'.queue = writer.queue /\ (writer'.granted => writer.granted)
  <2>1. CASE writer' = writer
    BY <2>1
  <2>2. CASE writer' = [Cut(writer) EXCEPT !.resize = s]
    BY <2>2, CutType
  <2>3. CASE writer' = [writer EXCEPT !.resize = s]
    BY <2>3 DEF TypeOK
  <2> QED BY <1>1, <2>1, <2>2, <2>3
<1>5. Losses'
  BY <1>1, <1>2 DEF KeyInv, Losses, Held
<1>6. Lanes'
  BY <1>1, <1>3, <1>4 DEF KeyInv, Lanes, Held, Remote, Unlaunched
<1>7. InLine' /\ Accounted'
  <2>1. CASE direct
    <3>1. Size(s) \in Message /\ Size(s).type # "input"
      BY <1>1 DEF Size, Message
    <3>2. Second' = Second /\ pipe' = Append(pipe, Size(s)) /\ Remote
      BY <1>1, <2>1 DEF Second, Held
    <3> QED BY <1>1, <1>2, <3>1, <3>2, MessageJoins DEF KeyInv
  <2>2. CASE ~direct
    BY <1>1, <1>2, <1>3, <1>4, <2>2, QueuesStand DEF KeyInv
  <2> QED BY <2>1, <2>2
<1> QED BY <1>5, <1>6, <1>7 DEF KeyInv

\* What the App, the governor and the save do.
LEMMA AppKeepsKeys ==
  ASSUME TypeOK, ChildInv, LinkInv, KeyInv, App \/ Sweep \/ Persist
  PROVE  KeyInv'
<1>1. {} \in SUBSET Keys /\ counts \in [freezes : Nat, losses : Nat, restarts : Nat, visits : Nat]
  BY DEF KeyInv, Losses
<1>2. CASE Attach \/ Wake
  <2>1. /\ WakeAndWrite(TRUE, <<>>, {}) /\ UNCHANGED <<transport, launch, handoff, typed, removed>>
        /\ ~removed
    BY <1>2 DEF Attach, Wake, inputVars
  <2>2. /\ counts'.restarts = counts.restarts
        /\ counts' \in [freezes : Nat, losses : Nat, restarts : Nat, visits : Nat]
    <3>1. CASE counts' = counts
      BY <1>1, <3>1
    <3>2. CASE counts' = [counts EXCEPT !.visits = @ + 1]
      BY <1>1, <3>2
    <3> QED BY <1>2, <3>1, <3>2 DEF Attach, Wake
  <2> QED BY <1>1, <2>1, <2>2, WriteKeepsKeys
<1>3. CASE Type \/ TypeQuietly
  <2>1. MayInput /\ typed' = typed + 1 /\ UNCHANGED <<transport, launch, handoff, removed, counts>>
    BY <1>3 DEF Type, TypeQuietly
  <2>2. typed + 1 \in Keys /\ {typed + 1} \in SUBSET Keys
    BY <2>1, NextInput
  <2>3. ~removed
    BY <2>1 DEF MayInput
  <2>4. CASE WakeAndWrite(KnownHibernated, <<typed + 1>>, {})
    BY <1>1, <2>1, <2>2, <2>3, <2>4, WriteKeepsKeys
  <2>5. CASE WakeAndWrite(FALSE, <<typed + 1>>, {typed + 1})
    BY <1>1, <2>1, <2>2, <2>3, <2>5, WriteKeepsKeys
  <2> QED BY <1>3, <2>4, <2>5 DEF Type, TypeQuietly
<1>4. CASE HibernateRequest \/ SweepFreeze
  BY <1>4, HibernateKeepsKeys DEF HibernateRequest, SweepFreeze
<1>5. CASE Register \/ Detach \/ SweepRecord \/ SweepAttached \/ SweepPasses \/ Persist
  <2>1. UNCHANGED <<transport, pty, launch, deferred, handoff, hibernated, queued_input, writer,
                    pipe, removed, typed, history, counts>>
    BY <1>5 DEF Register, Detach, SweepRecord, SweepAttached, SweepPasses, Persist, childVars,
                launchVars, sessionVars, remoteVars, inputVars
  <2>2. InLine' /\ Accounted'
    BY <2>1, QueuesStand DEF KeyInv
  <2>3. Lanes' /\ Losses'
    BY <2>1 DEF KeyInv, Lanes, Losses, Held, Remote, Unlaunched
  <2> QED BY <2>2, <2>3 DEF KeyInv
<1>6. CASE Terminate
  <2>1. /\ UNCHANGED <<transport, pty, launch, handoff, hibernated, queued_input, writer, pipe,
                       typed, history, counts>>
        /\ deferred'.queue = deferred.queue /\ removed' = TRUE
    BY <1>6 DEF Terminate, sessionVars, remoteVars, inputVars, TypeOK
  <2>2. First' = First /\ Second' = Second
    BY <2>1 DEF First, Second, Held
  <2>3. InLine' /\ Accounted'
    BY <2>1, <2>2 DEF KeyInv, InLine, Accounted
  <2>4. Lanes' /\ Losses'
    BY <2>1 DEF KeyInv, Lanes, Losses, Held, Remote, Unlaunched
  <2> QED BY <2>3, <2>4 DEF KeyInv
<1> QED BY <1>2, <1>3, <1>4, <1>5, <1>6, ResizeKeepsKeys DEF App, Sweep

\* accept_hello's flush of size and queue, which may find the channel dead.
LEMMA GrantKeepsKeys == ASSUME TypeOK, ChildInv, LinkInv, KeyInv, GrantControl PROVE KeyInv'
<1> DEFINE resize == IF writer.resize # NoSize THEN <<Size(writer.resize)>> ELSE <<>>
           failed == IF resize # <<>> THEN [Cut(writer) EXCEPT !.resize = NoSize]
                     ELSE [Cut(writer) EXCEPT !.queue = <<>>]
           flushes == resize # <<>> \/ writer.queue # <<>>
<1>1. /\ UNCHANGED <<transport, launch, deferred, handoff, hibernated, queued_input, removed, typed,
                     pty, counts>>
      /\ Remote /\ ~Held
  BY DEF GrantControl, remoteOnly, childVars, launchVars, sessionVars, inputVars, ChildInv, Through,
         TypeOK, Held, Remote
<1>2. PICK a, b, c, d \in Seq(Nat) : a = pty /\ b = First /\ c = Second /\ d = queued_input
  BY QueueTypes
<1>3. PICK o : o = history.overtook
  OBVIOUS
<1>4. /\ Lined(a, b, c, d, o) /\ b = Values(pipe) /\ c = writer.queue
      /\ First' = Values(pipe') /\ Second' = writer'.queue
  BY <1>1, <1>2, <1>3 DEF KeyInv, InLine, First, Second, Held
<1>5. Losses'
  BY <1>1 DEF KeyInv, Losses, Held
<1>6. InLine /\ Accounted /\ Lanes
  BY DEF KeyInv
<1>7. CASE writer.broken /\ flushes
  <2>1. /\ writer' = failed /\ pipe' = pipe
        /\ history' = [history EXCEPT
             !.lost = @ \cup (ToSet(writer.queue) \ ToSet(failed.queue)),
             !.resized = @ \/ resize # <<>>]
    BY <1>7 DEF GrantControl
  <2>2. /\ writer'.granted = FALSE
        /\ history'.lost = history.lost \cup (ToSet(writer.queue) \ ToSet(writer'.queue))
        /\ history'.overtook = history.overtook
        /\ writer'.queue = writer.queue \/ writer'.queue = <<>>
    BY <2>1, CutType DEF TypeOK
  <2>3. Lanes'
    BY <1>1, <1>6, <2>2 DEF Lanes, Held, Remote, Unlaunched
  <2>4. CASE writer'.queue = writer.queue
    BY <1>1, <1>6, <1>5, <2>1, <2>2, <2>3, <2>4, QueuesStand DEF KeyInv
  <2>5. CASE writer'.queue = <<>>
    <3>1. Lined(a, b, <<>>, d, o) /\ Total(a, b, <<>>, d) = Total(a, b, c, d) \ KeysOf(c)
      BY <1>4, Dropped
    <3>2. history'.lost = history.lost \cup KeysOf(c)
      <4>1. writer.queue \in Seq(Keys)
        BY DEF TypeOK
      <4>2. KeysOf(c) = ToSet(writer.queue) /\ ToSet(<<>>) = {}
        BY <1>4, <4>1, KeysAreNumbers, Empty
      <4> QED BY <2>2, <2>5, <4>2
    <3>3. pty' = a /\ First' = b /\ Second' = <<>> /\ queued_input' = d
      BY <1>1, <1>2, <1>4, <2>1, <2>5
    <3>4. InLine'
      BY <1>3, <2>2, <3>1, <3>3 DEF InLine
    <3>5. KeysOf(c) \subseteq Total(a, b, c, d)
      BY DEF Total
    <3>6. Accounted'
      BY <1>1, <1>2, <1>6, <3>1, <3>2, <3>3, <3>5 DEF Accounted
    <3> QED BY <1>5, <2>3, <3>4, <3>6 DEF KeyInv
  <2> QED BY <2>2, <2>4, <2>5
<1>8. CASE ~(writer.broken /\ flushes)
  <2>1. /\ writer' = [writer EXCEPT !.granted = TRUE, !.queue = <<>>, !.resize = NoSize]
        /\ pipe' = pipe \o resize \o Inputs(writer.queue) /\ history' = history
    BY <1>8 DEF GrantControl
  <2>2. writer'.queue = <<>>
    BY <2>1 DEF TypeOK
  <2>3. Lanes'
    BY <1>1, <1>6, <2>2 DEF Lanes, Held, Remote, Unlaunched
  <2>4. pipe \in Seq(Message) /\ writer.queue \in Seq(Keys)
    BY DEF TypeOK
  <2>5. resize \in Seq(Message) /\ Values(resize) \in Seq(Nat) /\ KeysOf(Values(resize)) = {}
    <3>1. Size(writer.resize) \in Message /\ Size(writer.resize).type # "input"
      BY DEF TypeOK, Size, Message
    <3>2. CASE writer.resize # NoSize
      BY <3>1, <3>2, ValuesOfOne, ValuesType
    <3>3. CASE writer.resize = NoSize
      <4>1. <<>> \in Seq(Message) /\ Values(<<>>) = <<>>
        BY DEF Values
      <4> QED BY <3>3, <4>1, SortedShort
    <3> QED BY <3>2, <3>3
  <2>6. PICK z \in Seq(Nat) : z = Values(resize) /\ KeysOf(z) = {}
    BY <2>5
  <2>7. pipe' = (pipe \o resize) \o Inputs(writer.queue)
    BY <2>1
  <2> HIDE DEF resize
  <2>8. First' = (b \o z) \o c
    <3>1. pipe \o resize \in Seq(Message) /\ Inputs(writer.queue) \in Seq(Message)
      BY <2>4, <2>5, ConcatProperties, InputsOfKeys
    <3>2. Values(pipe') = Values(pipe \o resize) \o Values(Inputs(writer.queue))
      BY <2>7, <3>1, ValuesConcat
    <3>3. Values(pipe \o resize) = Values(pipe) \o Values(resize)
      BY <2>4, <2>5, ValuesConcat
    <3>4. Values(Inputs(writer.queue)) = writer.queue
      BY <2>4, ValuesOfInputs
    <3> QED BY <1>4, <2>6, <3>2, <3>3, <3>4
  <2>9. PICK y \in Seq(Nat) : y = b \o z
    BY ConcatProperties
  <2>10. Lined(a, y, c, d, o)
    <3>1. KeysOf(z) = {}
      BY <2>6
    <3>2. Lined(a, b, c, d, o)
      BY <1>4
    <3>3. Lined(a, b \o z, c, d, o)
      BY <3>1, <3>2, OnlyKeysCount
    <3> QED BY <2>9, <3>3
  <2>11. Total(a, y, c, d) = Total(a, b, c, d)
    <3>1. KeysOf(b \o z) = KeysOf(b) \cup KeysOf(z)
      BY KeysOfConcat
    <3>2. KeysOf(y) = KeysOf(b)
      BY <2>6, <2>9, <3>1
    <3> QED BY <3>2 DEF Total
  <2>12. Lined(a, y \o c, <<>>, d, o) /\ Total(a, y \o c, <<>>, d) = Total(a, y, c, d)
    BY <2>10, MoveUp
  <2>13. pty' = a /\ First' = y \o c /\ Second' = <<>> /\ queued_input' = d
    BY <1>1, <1>2, <1>4, <2>2, <2>8, <2>9
  <2>14. InLine' /\ Accounted'
    BY <1>1, <1>2, <1>3, <1>6, <2>1, <2>11, <2>12, <2>13, KeysMove
  <2> QED BY <1>5, <2>3, <2>14 DEF KeyInv
<1> QED BY <1>7, <1>8

\* The Holder reads one message.
LEMMA DeliverKeepsKeys == ASSUME TypeOK, ChildInv, KeyInv, Deliver PROVE KeyInv'
<1>1. /\ UNCHANGED <<transport, launch, deferred, handoff, hibernated, queued_input, removed, typed,
                     writer, history, counts>>
      /\ pipe # <<>> /\ pipe' = Tail(pipe)
      /\ pty' = (IF Head(pipe).type = "input" THEN Append(pty, Head(pipe).value) ELSE pty)
  BY DEF Deliver, remoteOnly, launchVars, sessionVars, inputVars
<1>2. Remote /\ ~Held /\ Remote' /\ ~Held'
  BY <1>1 DEF ChildInv, TypeOK, Held, Remote
<1>3. Losses' /\ Lanes'
  BY <1>1, <1>2 DEF KeyInv, Losses, Lanes, Unlaunched
<1>4. pipe \in Seq(Message) /\ pty \in Seq(Nat)
  BY QueueTypes DEF TypeOK
<1>5. Head(pipe) \in Message /\ Tail(pipe) \in Seq(Message) /\ pipe = <<Head(pipe)>> \o Tail(pipe)
  BY <1>1, <1>4, HeadTailProperties
<1>6. PICK k \in Nat : k = IF Head(pipe).type = "input" THEN Head(pipe).value ELSE 0
  BY <1>5, Bounds DEF Message
<1>7. Head(pipe).type = "input" => k # 0
  BY <1>5, <1>6, Bounds DEF Message, Keys
<1>8. Values(pipe) = <<k>> \o Values(Tail(pipe)) /\ Values(Tail(pipe)) \in Seq(Nat)
  <2>1. <<Head(pipe)>> \in Seq(Message) /\ Values(<<Head(pipe)>>) = <<k>>
    BY <1>5, <1>6, ValuesOfOne
  <2>2. Values(<<Head(pipe)>> \o Tail(pipe)) = Values(<<Head(pipe)>>) \o Values(Tail(pipe))
    BY <1>5, <2>1, ValuesConcat
  <2> QED BY <1>5, <2>1, <2>2, ValuesType
<1>9. PICK a, t, c, d \in Seq(Nat) :
        a = pty /\ t = Values(Tail(pipe)) /\ c = Second /\ d = queued_input
  BY <1>8, QueueTypes
<1>10. PICK o : o = history.overtook
  OBVIOUS
<1>11. First = <<k>> \o t /\ First' = t /\ Second' = c /\ queued_input' = d
  BY <1>1, <1>2, <1>8, <1>9 DEF First, Second
<1>12. Lined(a, <<k>> \o t, c, d, o)
  BY <1>9, <1>10, <1>11 DEF KeyInv, InLine
<1>13. Shifted(a, k, t, c, d, o, Total(a, <<k>> \o t, c, d))
  BY <1>12, FirstArrives
<1>14. pty' = a \o <<k>> \/ (k = 0 /\ pty' = a)
  <2>1. Append(pty, k) = pty \o <<k>>
    BY <1>4, AppendIsConcat
  <2> QED BY <1>1, <1>6, <1>9, <2>1
<1>15. InLine /\ Accounted
  BY DEF KeyInv
<1>16. /\ Lined(pty', First', Second', queued_input', history'.overtook)
       /\ Total(pty', First', Second', queued_input') = Total(pty, First, Second, queued_input)
  BY <1>1, <1>9, <1>10, <1>11, <1>13, <1>14 DEF Shifted
<1>17. InLine' /\ Accounted'
  BY <1>1, <1>15, <1>16, KeysMove
<1> QED BY <1>3, <1>17 DEF KeyInv

\* Connecting, granting, breaking and giving up the channel.
LEMMA RemoteKeepsKeys ==
  ASSUME TypeOK, ChildInv, LinkInv, KeyInv, RemotePump \/ Break
  PROVE  KeyInv'
<1>1. CASE Connect \/ AcceptHello \/ Disconnect
  <2>1. UNCHANGED <<transport, launch, deferred, handoff, hibernated, queued_input, removed, typed,
                    pty, pipe, history, counts>>
    BY <1>1 DEF Connect, AcceptHello, Disconnect, remoteOnly, childVars, launchVars, sessionVars,
                inputVars
  <2>2. writer'.queue = writer.queue /\ (writer'.granted => writer.granted)
    BY <1>1, CutType DEF Connect, AcceptHello, Disconnect, TypeOK
  <2>3. InLine' /\ Accounted'
    BY <2>1, <2>2, QueuesStand DEF KeyInv
  <2>4. Lanes' /\ Losses'
    BY <2>1, <2>2 DEF KeyInv, Lanes, Losses, Held, Remote, Unlaunched
  <2> QED BY <2>3, <2>4 DEF KeyInv
<1>2. CASE Break
  <2>1. /\ UNCHANGED <<transport, launch, deferred, handoff, hibernated, queued_input, removed,
                       typed, pty>>
        /\ pipe' = <<>> /\ Remote /\ ~Held
        /\ counts' = [counts EXCEPT !.losses = @ + 1]
    BY <1>2 DEF Break, remoteOnly, childVars, launchVars, sessionVars, inputVars, Held, Remote
  <2>2. writer'.queue = writer.queue /\ writer'.granted = writer.granted
    BY <1>2 DEF Break, TypeOK
  <2>3. /\ history'.overtook = history.overtook
        /\ history'.lost = history.lost \cup KeysOf(Values(pipe))
    <3>1. pipe \in Seq(Message)
      BY DEF TypeOK
    <3>2. KeysOf(Values(pipe)) = {pipe[i].value : i \in {j \in DOMAIN pipe : pipe[j].type = "input"}}
      BY <3>1, ValuesCarried
    <3> QED BY <1>2, <3>2 DEF Break, TypeOK
  <2>3a. Losses'
    <3>1. counts \in [freezes : Nat, losses : Nat, restarts : Nat, visits : Nat]
      BY DEF KeyInv, Losses
    <3>2. counts' = [counts EXCEPT !.losses = @ + 1]
      BY <2>1
    <3>3. counts' \in [freezes : Nat, losses : Nat, restarts : Nat, visits : Nat]
      BY <3>1, <3>2
    <3> QED BY <2>1, <3>3 DEF Losses, Held
  <2>4. PICK a, b, c, d \in Seq(Nat) : a = pty /\ b = First /\ c = Second /\ d = queued_input
    BY QueueTypes
  <2>5. PICK o : o = history.overtook
    OBVIOUS
  <2>6. Lined(a, b, c, d, o) /\ b = Values(pipe)
    BY <2>1, <2>4, <2>5 DEF KeyInv, InLine, First
  <2>7. Lined(a, <<>>, c, d, o) /\ Total(a, <<>>, c, d) = Total(a, b, c, d) \ KeysOf(b)
    BY <2>6, Dropped
  <2>8. pty' = a /\ First' = <<>> /\ Second' = c /\ queued_input' = d
    <3>1. Values(<<>>) = <<>>
      BY DEF Values
    <3> QED BY <2>1, <2>2, <2>4, <3>1 DEF First, Second, Held
  <2>9. InLine'
    BY <2>3, <2>5, <2>7, <2>8 DEF InLine
  <2>10. KeysOf(b) \subseteq Total(a, b, c, d)
    BY DEF Total
  <2>11. Accounted'
    BY <2>1, <2>3, <2>4, <2>6, <2>7, <2>8, <2>10 DEF KeyInv, Accounted
  <2>12. Lanes'
    BY <2>1, <2>2 DEF KeyInv, Lanes, Held, Remote, Unlaunched
  <2> QED BY <2>9, <2>11, <2>12, <2>3a DEF KeyInv
<1> QED BY <1>1, <1>2, GrantKeepsKeys DEF RemotePump

\* A restart forgets every queue but not the terminal.
LEMMA RestartKeepsKeys == ASSUME TypeOK, ChildInv, KeyInv, Restart PROVE KeyInv'
<1>1. /\ UNCHANGED <<transport, pty, removed, typed>> /\ ~removed
      /\ queued_input' = <<>> /\ launch' = "pumping" /\ deferred'.queue = <<>>
      /\ handoff'.keys = <<>> /\ pipe' = <<>>
      /\ counts' = [counts EXCEPT !.restarts = @ + 1]
  BY DEF Restart, childVars, inputVars
<1>2. writer'.queue = <<>> /\ writer'.granted = FALSE
  BY CutType DEF Restart
<1>3. /\ history'.lost = (1..typed) \ ToSet(pty) /\ history'.overtook = history.overtook
  BY DEF Restart, TypeOK
<1>4. First' = <<>> /\ Second' = <<>>
  <2>1. Values(<<>>) = <<>>
    BY DEF Values
  <2> QED BY <1>1, <1>2, <2>1 DEF First, Second
<1>4a. Losses'
  <2>1. counts \in [freezes : Nat, losses : Nat, restarts : Nat, visits : Nat]
    BY DEF KeyInv, Losses
  <2>2. PICK n \in Nat : n = counts.restarts
    BY <2>1
  <2>3. counts' = [counts EXCEPT !.restarts = @ + 1]
    BY <1>1
  <2>4. counts' \in [freezes : Nat, losses : Nat, restarts : Nat, visits : Nat]
    BY <2>1, <2>3
  <2>5. counts'.restarts = n + 1
    BY <2>1, <2>2, <2>3
  <2> QED BY <2>2, <2>4, <2>5 DEF Losses
<1>5. PICK a, b, c, d \in Seq(Nat) : a = pty /\ b = First /\ c = Second /\ d = queued_input
  BY QueueTypes
<1>6. PICK o : o = history.overtook
  OBVIOUS
<1>7. Lined(a, <<>>, <<>>, <<>>, o)
  <2>1. Lined(a, b, c, d, o)
    BY <1>5, <1>6 DEF KeyInv, InLine
  <2>2. Lined(a, <<>>, c, d, o)
    BY <2>1, Dropped
  <2>3. Lined(a, <<>>, <<>>, d, o)
    BY <2>2, Dropped
  <2> QED BY <2>3, Dropped
<1>8. Total(a, <<>>, <<>>, <<>>) = KeysOf(a)
  BY SortedShort DEF Total
<1>9. KeysOf(a) = ToSet(pty) /\ KeysOf(a) \subseteq 1..typed
  <2>1. KeysOf(a) = ToSet(pty)
    BY <1>5, KeysAreNumbers DEF TypeOK
  <2>2. KeysOf(a) \subseteq Total(a, b, c, d)
    BY DEF Total
  <2> QED BY <1>5, <2>1, <2>2 DEF KeyInv, Accounted
<1>10. InLine'
  BY <1>1, <1>3, <1>4, <1>5, <1>6, <1>7 DEF InLine
<1>11. Accounted'
  BY <1>1, <1>3, <1>4, <1>5, <1>8, <1>9 DEF Accounted
<1>12. Lanes'
  BY <1>1, <1>2 DEF Lanes, Unlaunched
<1> QED BY <1>10, <1>11, <1>12, <1>4a DEF KeyInv

\* The invariant holds: Lanes and LinkInv say which queues can hold anything, so that
\* each of the five ways of a write finds the queues it passes empty or marked.
LEMMA KeyInvariant == Spec => []KeyInv
<1>1. Init => KeyInv
  <2> SUFFICES ASSUME Init PROVE KeyInv
    OBVIOUS
  <2>1. /\ pty = <<>> /\ queued_input = <<>> /\ deferred.queue = <<>> /\ handoff.keys = <<>>
        /\ writer.queue = <<>> /\ writer.granted = FALSE /\ pipe = <<>> /\ typed = 0
        /\ history.lost = {} /\ history.overtook = {}
    BY DEF Init, NoHistory
  <2>2. Lanes
    BY <2>1 DEF Lanes
  <2>3. counts \in [freezes : Nat, losses : Nat, restarts : Nat, visits : Nat]
    BY DEF Init
  <2>4. Losses
    BY <2>1, <2>3 DEF Losses
  <2>5. First = <<>> /\ Second = <<>>
    <3>1. Values(<<>>) = <<>>
      BY DEF Values
    <3> QED BY <2>1, <3>1 DEF First, Second
  <2>6. \A o : Lined(<<>>, <<>>, <<>>, <<>>, o)
    BY SortedShort DEF Lined, Before
  <2>7. Total(<<>>, <<>>, <<>>, <<>>) = {}
    BY SortedShort DEF Total
  <2>8. InLine
    BY <2>1, <2>5, <2>6 DEF InLine
  <2>9. Accounted
    BY <2>1, <2>5, <2>7 DEF Accounted
  <2> QED BY <2>2, <2>4, <2>8, <2>9 DEF KeyInv
<1>2. TypeOK /\ ChildInv /\ SizeInv /\ KeyInv /\ [Next]_vars => KeyInv'
  <2> SUFFICES ASSUME TypeOK, ChildInv, SizeInv, KeyInv, [Next]_vars PROVE KeyInv'
    OBVIOUS
  <2>1. LinkInv
    BY DEF SizeInv
  <2>2. CASE UNCHANGED vars
    <3>1. UNCHANGED <<transport, launch, deferred, handoff, hibernated, queued_input, writer,
                      pipe, removed, typed, pty, history, counts>>
      BY <2>2 DEF vars, childVars, launchVars, sessionVars, remoteVars, inputVars
    <3>2. InLine' /\ Accounted'
      BY <3>1, QueuesStand DEF KeyInv
    <3>3. Lanes' /\ Losses'
      BY <3>1 DEF KeyInv, Lanes, Losses, Held, Remote, Unlaunched
    <3> QED BY <3>2, <3>3 DEF KeyInv
  <2>3. CASE Launcher
    BY <2>3, LauncherKeepsKeys
  <2>4. CASE App \/ Sweep \/ Persist
    BY <2>1, <2>4, AppKeepsKeys
  <2>5. CASE RemotePump \/ Break
    BY <2>1, <2>5, RemoteKeepsKeys
  <2>6. CASE Deliver
    BY <2>6, DeliverKeepsKeys
  <2>7. CASE Restart
    BY <2>7, RestartKeepsKeys
  <2> QED BY <2>2, <2>3, <2>4, <2>5, <2>6, <2>7 DEF Next
<1> QED BY <1>1, <1>2, TypeCorrect, ChildInvariant, SizeInvariant, PTL DEF Spec

\* Where key k is in a queue, and in the terminal and three queues behind it.
Positions(queue, k) == {i \in DOMAIN queue : queue[i] = k}
Spots(k, a, b, c, d, s, t) ==
  ({"terminal"} \X Positions(a, k)) \cup ({s} \X Positions(b, k))
    \cup ({t} \X Positions(c, k)) \cup ({"hibernation"} \X Positions(d, k))

\* A key is once in a sorted queue that has it.
LEMMA OnceInAQueue ==
  ASSUME NEW q \in Seq(Nat), NEW o, Sorted(q, o), NEW k, k # 0
  PROVE  /\ k \in KeysOf(q) => \E i : Positions(q, k) = {i}
         /\ k \notin KeysOf(q) => Positions(q, k) = {}
<1>1. PICK n \in Nat : DOMAIN q = 1..n
  BY LenProperties
<1>2. ASSUME NEW i \in 1..n, NEW j \in 1..n, q[i] = k, q[j] = k, i < j
      PROVE  FALSE
  BY <1>1, <1>2 DEF Sorted, Ahead
<1>3. \A i, j \in 1..n : q[i] = k /\ q[j] = k => i = j
  BY <1>2
<1>4. ASSUME k \in KeysOf(q)
      PROVE  \E i : Positions(q, k) = {i}
  <2>1. PICK i \in 1..n : q[i] = k
    BY <1>1, <1>4 DEF KeysOf, ToSet
  <2>2. Positions(q, k) = {i}
    BY <1>1, <1>3, <2>1 DEF Positions
  <2> QED BY <2>2
<1>5. k \notin KeysOf(q) => Positions(q, k) = {}
  BY DEF Positions, KeysOf, ToSet
<1> QED BY <1>4, <1>5

\* ... and in one queue only of those in line.
LEMMA OnceInLine ==
  ASSUME NEW a \in Seq(Nat), NEW b \in Seq(Nat), NEW c \in Seq(Nat), NEW d \in Seq(Nat), NEW o,
         Lined(a, b, c, d, o), NEW k, k # 0, NEW s, NEW t
  PROVE  IF k \in Total(a, b, c, d)
         THEN \E p \in Spots(k, a, b, c, d, s, t) : Spots(k, a, b, c, d, s, t) = {p}
         ELSE Spots(k, a, b, c, d, s, t) = {}
<1>1. /\ KeysOf(a) \cap KeysOf(b) = {} /\ KeysOf(a) \cap KeysOf(c) = {}
      /\ KeysOf(a) \cap KeysOf(d) = {} /\ KeysOf(b) \cap KeysOf(c) = {}
      /\ KeysOf(b) \cap KeysOf(d) = {} /\ KeysOf(c) \cap KeysOf(d) = {}
  BY DEF Lined, Before, Ahead
<1>2. Sorted(a, o) /\ Sorted(b, o) /\ Sorted(c, o) /\ Sorted(d, o)
  BY DEF Lined
<1>3. /\ k \notin KeysOf(a) => Positions(a, k) = {}
      /\ k \notin KeysOf(b) => Positions(b, k) = {}
      /\ k \notin KeysOf(c) => Positions(c, k) = {}
      /\ k \notin KeysOf(d) => Positions(d, k) = {}
  BY <1>2, OnceInAQueue
<1>4. \A x : {x} \X {} = {}
  OBVIOUS
<1>5. PICK A, B, C, D : /\ A = {"terminal"} \X Positions(a, k) /\ B = {s} \X Positions(b, k)
                        /\ C = {t} \X Positions(c, k) /\ D = {"hibernation"} \X Positions(d, k)
  OBVIOUS
<1>6. /\ k \notin KeysOf(a) => A = {}
      /\ k \notin KeysOf(b) => B = {}
      /\ k \notin KeysOf(c) => C = {}
      /\ k \notin KeysOf(d) => D = {}
  BY <1>3, <1>4, <1>5
<1>7. /\ k \in KeysOf(a) => \E p : A = {p}
      /\ k \in KeysOf(b) => \E p : B = {p}
      /\ k \in KeysOf(c) => \E p : C = {p}
      /\ k \in KeysOf(d) => \E p : D = {p}
  <2>1. /\ k \in KeysOf(a) => \E i : Positions(a, k) = {i}
        /\ k \in KeysOf(b) => \E i : Positions(b, k) = {i}
        /\ k \in KeysOf(c) => \E i : Positions(c, k) = {i}
        /\ k \in KeysOf(d) => \E i : Positions(d, k) = {i}
    BY <1>2, OnceInAQueue
  <2>2. \A x, i : {x} \X {i} = {<<x, i>>}
    OBVIOUS
  <2>3. ASSUME k \in KeysOf(a) PROVE \E p : A = {p}
    <3>1. PICK i : Positions(a, k) = {i}
      BY <2>1, <2>3
    <3>2. A = {<<"terminal", i>>}
      BY <1>5, <2>2, <3>1
    <3> QED BY <3>2
  <2>4. ASSUME k \in KeysOf(b) PROVE \E p : B = {p}
    <3>1. PICK i : Positions(b, k) = {i}
      BY <2>1, <2>4
    <3>2. B = {<<s, i>>}
      BY <1>5, <2>2, <3>1
    <3> QED BY <3>2
  <2>5. ASSUME k \in KeysOf(c) PROVE \E p : C = {p}
    <3>1. PICK i : Positions(c, k) = {i}
      BY <2>1, <2>5
    <3>2. C = {<<t, i>>}
      BY <1>5, <2>2, <3>1
    <3> QED BY <3>2
  <2>6. ASSUME k \in KeysOf(d) PROVE \E p : D = {p}
    <3>1. PICK i : Positions(d, k) = {i}
      BY <2>1, <2>6
    <3>2. D = {<<"hibernation", i>>}
      BY <1>5, <2>2, <3>1
    <3> QED BY <3>2
  <2> QED BY <2>3, <2>4, <2>5, <2>6
<1>8. PICK S : S = Spots(k, a, b, c, d, s, t) /\ S = A \cup B \cup C \cup D
  BY <1>5 DEF Spots
<1>9. k \in Total(a, b, c, d) => \E p : S = {p}
  BY <1>1, <1>6, <1>7, <1>8 DEF Total
<1>10. k \notin Total(a, b, c, d) => S = {}
  BY <1>6, <1>8 DEF Total
<1>11. \A p : S = {p} => p \in S
  OBVIOUS
<1> QED BY <1>8, <1>9, <1>10, <1>11

\* The places of a key are its spots in the line.
LEMMA PlacesInLine ==
  ASSUME TypeOK, ChildInv, Lanes, NEW k \in Keys
  PROVE  \E s, t : Places(k) = Spots(k, pty, First, Second, queued_input, s, t)
<1>1. Positions(<<>>, k) = {}
  BY DEF Positions
<1>2. {i \in DOMAIN pipe : pipe[i] = Input(k)} = Positions(Values(pipe), k)
  <2>1. \A i \in DOMAIN pipe : pipe[i] \in Message
    BY LenProperties, ElementOfSeq DEF TypeOK
  <2>2. DOMAIN Values(pipe) = DOMAIN pipe
        /\ \A i \in DOMAIN pipe : Values(pipe)[i] = IF pipe[i].type = "input" THEN pipe[i].value ELSE 0
    BY DEF Values
  <2>3. k # 0 /\ k \in Nat
    BY Bounds DEF Keys
  <2>4. \A m \in Message : m = Input(k) <=> m.type = "input" /\ m.value = k
    BY DEF Message, Input
  <2>5. \A i \in DOMAIN pipe : pipe[i] = Input(k) <=> Values(pipe)[i] = k
    BY <2>1, <2>2, <2>3, <2>4
  <2> QED BY <2>2, <2>5 DEF Positions
<1>3. \A x : {x} \X {} = {}
  OBVIOUS
<1>4. Places(k) =
        ({"terminal"} \X Positions(pty, k)) \cup ({"launch"} \X Positions(deferred.queue, k))
          \cup ({"handoff"} \X Positions(handoff.keys, k))
          \cup ({"hibernation"} \X Positions(queued_input, k))
          \cup ({"reconnect"} \X Positions(writer.queue, k))
          \cup ({"channel"} \X Positions(Values(pipe), k))
  BY <1>2 DEF Places, Positions
<1>5. CASE Held
  <2>1. /\ First = handoff.keys /\ Second = deferred.queue
        /\ Positions(writer.queue, k) = {} /\ Positions(Values(pipe), k) = {}
    <3>1. Values(<<>>) = <<>>
      BY DEF Values
    <3> QED BY <1>1, <1>5, <3>1 DEF First, Second, Lanes, ChildInv
  <2>2. Places(k) = Spots(k, pty, First, Second, queued_input, "handoff", "launch")
    BY <1>3, <1>4, <2>1 DEF Spots
  <2> QED BY <2>2
<1>6. CASE Remote
  <2>1. /\ First = Values(pipe) /\ Second = writer.queue
        /\ Positions(handoff.keys, k) = {} /\ Positions(deferred.queue, k) = {}
    BY <1>1, <1>6 DEF First, Second, Lanes, Held, Remote
  <2>2. Places(k) = Spots(k, pty, First, Second, queued_input, "channel", "reconnect")
    BY <1>3, <1>4, <2>1 DEF Spots
  <2> QED BY <2>2
<1> QED BY <1>5, <1>6 DEF TypeOK, Held, Remote

\* What is typed is in exactly one place until it is in the terminal, or it was
\* lost, and keys reach the terminal in the order they were typed but for those
\* that passed a queue whose flush was still to come: for every interleaving of
\* writes with launch, wake, reconnect and restart.
THEOREM InputArrivesInOrder == Spec => []InputIsFaithful
<1>1. TypeOK /\ ChildInv /\ KeyInv => InputIsFaithful
  <2> SUFFICES ASSUME TypeOK, ChildInv, KeyInv PROVE InputIsFaithful
    OBVIOUS
  <2>1. Lanes /\ Losses /\ InLine /\ Accounted
    BY DEF KeyInv
  <2>2. ASSUME NEW i \in DOMAIN pty, NEW j \in DOMAIN pty, i < j
        PROVE  pty[i] < pty[j] \/ pty[i] \in history.overtook
    <3>1. pty[i] # 0 /\ pty[j] # 0
      <4>1. pty[i] \in Keys /\ pty[j] \in Keys
        BY LenProperties, ElementOfSeq DEF TypeOK
      <4> QED BY <4>1, Bounds DEF Keys
    <3>2. Sorted(pty, history.overtook)
      BY <2>1 DEF InLine, Lined
    <3> QED BY <2>2, <3>1, <3>2 DEF Sorted, Ahead
  <2>3. ASSUME ~removed, NEW k \in Keys
        PROVE  IF k \in (1..typed) \ history.lost
               THEN \E p \in Places(k) : Places(k) = {p}
               ELSE Places(k) = {}
    <3>1. PICK s, t : Places(k) = Spots(k, pty, First, Second, queued_input, s, t)
      BY <2>1, PlacesInLine
    <3>2. k # 0
      BY Bounds DEF Keys
    <3>3. Total(pty, First, Second, queued_input) = (1..typed) \ history.lost
      BY <2>1, <2>3 DEF Accounted
    <3>4. Lined(pty, First, Second, queued_input, history.overtook)
      BY <2>1 DEF InLine
    <3>5. /\ pty \in Seq(Nat) /\ First \in Seq(Nat) /\ Second \in Seq(Nat)
          /\ queued_input \in Seq(Nat)
      BY QueueTypes
    <3>6. IF k \in Total(pty, First, Second, queued_input)
          THEN \E p \in Spots(k, pty, First, Second, queued_input, s, t) :
                 Spots(k, pty, First, Second, queued_input, s, t) = {p}
          ELSE Spots(k, pty, First, Second, queued_input, s, t) = {}
      BY <3>2, <3>4, <3>5, OnceInLine
    <3> QED BY <3>1, <3>3, <3>6
  <2>4. Held /\ counts.restarts = 0 => history.lost = {}
    BY <2>1 DEF Losses
  <2> QED BY <2>2, <2>3, <2>4 DEF InputIsFaithful
<1> QED BY <1>1, TypeCorrect, ChildInvariant, KeyInvariant, PTL
=============================================================================
