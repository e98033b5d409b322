-------------------------- MODULE TurnWorkersProofs --------------------------
(***************************************************************************)
(* What TLC checks of TurnWorkers on a few workers, for any number of       *)
(* workers, providers, models and commands: the turn frames that plugins   *)
(* see nest and tell the truth, is_loading guards the turns, answers do    *)
(* not mix, a one-turn override lasts one turn and what a turn committed   *)
(* is kept.  FrameInv needs nothing else; the others build, in this order, *)
(* on the types, on where a worker stands (ControlInv) and on the fact     *)
(* that only one worker is under way unless turns overlap (Solo).          *)
(***************************************************************************)
EXTENDS TurnWorkers, SequenceTheorems, FiniteSetTheorems, TLAPS

(* The counters of the loop as functions of the frames dispatched so far:  *)
(* FramesNest alone does not say that an announced id is the next one, nor *)
(* that the id minted next is.  On exit the counter is left behind.        *)
FrameInv ==
  /\ closed \in Seq([id : Nat, by : Worker \cup {Nobody}, ok : BOOLEAN,
                     ender : Worker \cup {Nobody}])
  /\ opened \in [id : Nat, by : Worker \cup {Nobody}]
  /\ currentTurn \in Nat
  /\ FramesNest
  /\ quit \in BOOLEAN
  /\ currentTurn = None => opened = NoFrame
  /\ ~quit => /\ nextTurn = Len(closed) + (IF currentTurn = None THEN 0 ELSE 1)
              /\ pendingTurn \in {None, nextTurn + 1}

(* One more frame at the end keeps the numbering. *)
LEMMA CloseKeepsOrder ==
  ASSUME NEW frame \in [id : Nat, by : Worker \cup {Nobody}],
         NEW ok \in BOOLEAN, NEW w \in Worker \cup {Nobody},
         closed \in Seq([id : Nat, by : Worker \cup {Nobody}, ok : BOOLEAN,
                         ender : Worker \cup {Nobody}]),
         \A i \in DOMAIN closed : closed[i].id = i,
         frame.id = Len(closed) + 1
  PROVE  /\ Close(frame, ok, w) \in
              Seq([id : Nat, by : Worker \cup {Nobody}, ok : BOOLEAN,
                   ender : Worker \cup {Nobody}])
         /\ Len(Close(frame, ok, w)) = Len(closed) + 1
         /\ \A i \in DOMAIN Close(frame, ok, w) : Close(frame, ok, w)[i].id = i
  <1> DEFINE F == [id : Nat, by : Worker \cup {Nobody}, ok : BOOLEAN,
                   ender : Worker \cup {Nobody}]
             f == [id |-> frame.id, by |-> frame.by, ok |-> ok, ender |-> w]
  <1>1. f \in F
    OBVIOUS
  <1>2. Close(frame, ok, w) = Append(closed, f)
    BY DEF Close
  <1>3. Append(closed, f) \in Seq(F) /\ Len(Append(closed, f)) = Len(closed) + 1
    BY <1>1
  <1>4. \A i \in 1..(Len(closed) + 1) :
          Append(closed, f)[i] = IF i = Len(closed) + 1 THEN f ELSE closed[i]
    BY <1>1
  <1>5. f.id = Len(closed) + 1
    OBVIOUS
  <1>6. ASSUME NEW i \in 1..(Len(closed) + 1)
        PROVE  Append(closed, f)[i].id = i
    <2>1. CASE i = Len(closed) + 1
      BY <1>4, <1>5, <2>1
    <2>2. CASE i # Len(closed) + 1
      <3>1. i \in DOMAIN closed
        BY <2>2
      <3> QED BY <1>4, <2>2, <3>1
    <2> QED BY <2>1, <2>2
  <1> QED BY <1>2, <1>3, <1>6

LEMMA FrameInit == Init => FrameInv
  <1> SUFFICES ASSUME Init PROVE FrameInv
    OBVIOUS
  <1> USE DEF None, Nobody, NoFrame
  <1>1. closed = <<>> /\ opened = [id |-> 0, by |-> 0] /\ currentTurn = 0
        /\ nextTurn = 0 /\ pendingTurn = 0 /\ quit = FALSE
    BY DEF Init
  <1>2. closed \in Seq([id : Nat, by : Worker \cup {Nobody}, ok : BOOLEAN,
                       ender : Worker \cup {Nobody}])
        /\ Len(closed) = 0 /\ DOMAIN closed = {}
    BY <1>1
  <1>3. opened \in [id : Nat, by : Worker \cup {Nobody}] /\ opened.id = 0
    BY <1>1
  <1>4. quit \in BOOLEAN
    BY <1>1
  <1> QED BY <1>1, <1>2, <1>3, <1>4 DEF FrameInv, FramesNest

LEMMA FrameUnchanged ==
  ASSUME FrameInv, UNCHANGED <<frameVars, quit>>
  PROVE  FrameInv'
  BY DEF FrameInv, FramesNest, frameVars, NoFrame, None, Nobody

(* Steps of the workers and of the host never touch the frames. *)
LEMMA FrameTasks ==
  ASSUME FrameInv, NEW w \in Worker, Turn(w)
  PROVE  FrameInv'
  <1>1. UNCHANGED loopVars
    BY DEF Turn, ApplyOverride, TakeSnapshot, ReadProvider, ReadModel,
           LoopLimit, Iterate, ReplyError, ReplyTools, ToolEnds, Commit,
           SendComplete, ObserveCancel, ObserveAbort, DetachedEnds, Restore,
           Report, BashEnds
  <1> QED BY <1>1, FrameUnchanged DEF loopVars

LEMMA FrameHandle ==
  ASSUME FrameInv, NEW w \in Worker, Handle(w)
  PROVE  FrameInv'
  <1> USE DEF None, Nobody, NoFrame
  <1>0. ~quit /\ quit' = quit
    BY DEF Handle, HandleRoute, HandleFirst, HandleNext, HandleDelta,
           HandleToolStart, HandleToolEnd, HandleComplete, HandleStopped,
           HandleError, HandleRestored, HandleBashDone, Take, LoopFree, loopVars
  <1> DEFINE F == Seq([id : Nat, by : Worker \cup {Nobody}, ok : BOOLEAN,
                       ender : Worker \cup {Nobody}])
  <1>t. /\ closed \in F
        /\ opened \in [id : Nat, by : Worker \cup {Nobody}]
        /\ currentTurn \in Nat
        /\ nextTurn = Len(closed) + (IF currentTurn = None THEN 0 ELSE 1)
        /\ pendingTurn \in {None, nextTurn + 1}
        /\ \A i \in DOMAIN closed : closed[i].id = i
        /\ opened.id = currentTurn
        /\ currentTurn # None => currentTurn = Len(closed) + 1
        /\ currentTurn = None => opened = NoFrame
        /\ Len(closed) \in Nat /\ nextTurn \in Nat
    BY <1>0 DEF FrameInv, FramesNest
  <1>1. ASSUME HandleRoute(w) \/ HandleNext(w) \/ HandleDelta(w)
               \/ HandleToolStart(w) \/ HandleToolEnd(w) \/ HandleRestored(w)
               \/ HandleBashDone(w)
        PROVE  FrameInv'
    <2>1. UNCHANGED <<frameVars, quit>>
      BY <1>1 DEF HandleRoute, HandleNext, HandleDelta, HandleToolStart,
                  HandleToolEnd, HandleRestored, HandleBashDone, loopVars
    <2> QED BY <2>1, FrameUnchanged
  <1>2. CASE HandleFirst(w)
    <2>1. CASE currentTurn = None
      BY <1>0, <1>2, <1>t, <2>1 DEF HandleFirst, FrameInv, FramesNest
    <2>2. CASE currentTurn # None
      BY <1>0, <1>2, <1>t, <2>2 DEF HandleFirst, FrameInv, FramesNest
    <2> QED BY <2>1, <2>2
  <1>3. CASE HandleComplete(w)
    <2>0. currentTurn' = None /\ pendingTurn' = None /\ opened' = NoFrame
          /\ nextTurn' = nextTurn
      BY <1>3 DEF HandleComplete
    <2>1. CASE currentTurn = None
      <3>1. closed' = closed
        BY <1>3, <2>1 DEF HandleComplete
      <3> QED BY <1>0, <1>t, <2>0, <2>1, <3>1 DEF FrameInv, FramesNest
    <2>2. CASE currentTurn # None
      <3>1. closed' = Close(opened, TRUE, w)
        BY <1>3, <2>2 DEF HandleComplete
      <3>2. closed' \in F /\ Len(closed') = Len(closed) + 1
            /\ \A i \in DOMAIN closed' : closed'[i].id = i
        BY <1>t, <2>2, <3>1, CloseKeepsOrder
      <3> QED BY <1>0, <1>t, <2>0, <2>2, <3>2 DEF FrameInv, FramesNest
    <2> QED BY <2>1, <2>2
  <1>4. ASSUME HandleStopped(w) \/ HandleError(w) PROVE FrameInv'
    <2>1. pendingTurn' = None
      BY <1>4 DEF HandleStopped, HandleError
    <2>2. CASE closed' = closed /\ nextTurn' = nextTurn
               /\ currentTurn' = currentTurn /\ opened' = opened
      BY <1>0, <1>t, <2>1, <2>2 DEF FrameInv, FramesNest
    <2>3. CASE /\ currentTurn # None
               /\ closed' = Close(opened, FALSE, w) /\ nextTurn' = nextTurn
               /\ currentTurn' = None /\ opened' = NoFrame
      <3>1. closed' \in F /\ Len(closed') = Len(closed) + 1
            /\ \A i \in DOMAIN closed' : closed'[i].id = i
        BY <1>t, <2>3, CloseKeepsOrder
      <3>2. currentTurn' = None /\ opened' = NoFrame
            /\ nextTurn' = Len(closed) + 1
        BY <1>t, <2>3
      <3> QED BY <1>0, <1>t, <2>1, <3>1, <3>2 DEF FrameInv, FramesNest
    <2>4. CASE /\ currentTurn = None
               /\ closed' = Close([id |-> nextTurn + 1, by |-> w], FALSE, w)
               /\ nextTurn' = nextTurn + 1
               /\ currentTurn' = None /\ opened' = NoFrame
      <3> DEFINE frame == [id |-> nextTurn + 1, by |-> w]
      <3>1. frame \in [id : Nat, by : Worker \cup {Nobody}]
            /\ frame.id = Len(closed) + 1
        BY <1>t, <2>4
      <3>2. closed' = Close(frame, FALSE, w)
        BY <2>4
      <3> HIDE DEF frame
      <3>3. closed' \in F /\ Len(closed') = Len(closed) + 1
            /\ \A i \in DOMAIN closed' : closed'[i].id = i
        BY <1>t, <3>1, <3>2, CloseKeepsOrder
      <3>4. currentTurn' = None /\ opened' = NoFrame
            /\ nextTurn' = Len(closed) + 1
        BY <1>t, <2>4
      <3> QED BY <1>0, <1>t, <2>1, <3>3, <3>4 DEF FrameInv, FramesNest
    <2>5. CASE HandleStopped(w)
      <3>1. CASE currentTurn # None
        BY <2>3, <2>5, <3>1 DEF HandleStopped
      <3>2. CASE currentTurn = None /\ pendingTurn # None
        <4>1. pendingTurn = nextTurn + 1 /\ pendingTurn > nextTurn
          BY <1>t, <3>2
        <4> QED BY <2>4, <2>5, <3>2, <4>1 DEF HandleStopped
      <3>3. CASE currentTurn = None /\ pendingTurn = None
        BY <1>t, <2>2, <2>5, <3>3 DEF HandleStopped
      <3> QED BY <3>1, <3>2, <3>3
    <2>6. CASE HandleError(w)
      <3>1. CASE seen
        BY <2>2, <2>6, <3>1 DEF HandleError
      <3>2. CASE ~seen /\ currentTurn # None
        BY <2>3, <2>6, <3>2 DEF HandleError
      <3>3. CASE ~seen /\ currentTurn = None
        <4>1. (IF pendingTurn # None THEN pendingTurn ELSE nextTurn + 1)
                = nextTurn + 1
          BY <1>t
        <4>2. nextTurn + 1 > nextTurn
          BY <1>t
        <4> QED BY <2>4, <2>6, <3>3, <4>1, <4>2 DEF HandleError
      <3> QED BY <3>1, <3>2, <3>3
    <2> QED BY <1>4, <2>5, <2>6
  <1> QED BY <1>1, <1>2, <1>3, <1>4 DEF Handle

LEMMA FrameUser ==
  ASSUME FrameInv, User \/ GraceExpires
  PROVE  FrameInv'
  <1> USE DEF None, Nobody, NoFrame
  <1>1. ASSUME NEW w \in Worker, Submit(w) PROVE FrameInv'
    BY <1>1 DEF Submit, Spawn, LoopFree, FrameInv, FramesNest
  <1>2. CASE SubmitBlocked
    BY <1>2 DEF SubmitBlocked, LoopFree, FrameInv, FramesNest
  <1>3. CASE Quit
    <2>0. ~quit /\ quit' /\ currentTurn' = None /\ opened' = NoFrame
          /\ quit' \in BOOLEAN
      BY <1>3 DEF Quit, LoopFree
    <2>1. CASE closed' = closed
      BY <2>0, <2>1 DEF FrameInv, FramesNest
    <2>2. ASSUME NEW frame \in [id : Nat, by : Worker \cup {Nobody}],
                 frame.id = Len(closed) + 1,
                 closed' = Close(frame, FALSE, Nobody)
          PROVE  FrameInv'
      BY <2>0, <2>2, CloseKeepsOrder DEF FrameInv, FramesNest
    <2>3. CASE currentTurn # None
      BY <1>3, <2>2, <2>3 DEF Quit, FrameInv, FramesNest
    <2>4. CASE currentTurn = None /\ pendingTurn # None
      <3>1. pendingTurn = Len(closed) + 1 /\ pendingTurn \in Nat
        BY <2>0, <2>4 DEF FrameInv
      <3> QED BY <1>3, <2>2, <2>4, <3>1 DEF Quit
    <2>5. CASE currentTurn = None /\ pendingTurn = None
      BY <1>3, <2>1, <2>5 DEF Quit
    <2> QED BY <2>3, <2>4, <2>5
  <1>4. ASSUME \/ \E w \in Worker : SubmitBash(w)
               \/ SetModel \/ Resume \/ GraceExpires
               \/ \E m \in Model : ChangeModel(m) \/ SetOverride(m)
               \/ \E p \in Provider : Use(p)
        PROVE  FrameInv'
    <2>1. UNCHANGED <<frameVars, quit>>
      BY <1>4 DEF SubmitBash, SetModel, Resume, GraceExpires, ChangeModel,
                  SetOverride, Use, loopVars
    <2> QED BY <2>1, FrameUnchanged
  <1> QED BY <1>1, <1>2, <1>3, <1>4 DEF User

LEMMA FrameStep == FrameInv /\ [Next]_vars => FrameInv'
  <1> SUFFICES ASSUME FrameInv, [Next]_vars PROVE FrameInv'
    OBVIOUS
  <1>1. CASE UNCHANGED vars
    BY <1>1, FrameUnchanged DEF vars, loopVars
  <1>2. CASE User \/ GraceExpires
    BY <1>2, FrameUser
  <1>3. ASSUME NEW w \in Worker, (~quit /\ Turn(w)) \/ Handle(w)
        PROVE  FrameInv'
    BY <1>3, FrameTasks, FrameHandle
  <1> QED BY <1>1, <1>2, <1>3 DEF Next

(* TurnStart ids count 1, 2, 3, ... and each frame is closed before the    *)
(* next one opens, for every number of workers and every order of their    *)
(* messages (translate_turn_event_to_host_event, record_turn_error).       *)
THEOREM FramesAlwaysNest == Spec => []FramesNest
  <1>1. FrameInv => FramesNest
    BY DEF FrameInv
  <1> QED BY <1>1, FrameInit, FrameStep, PTL DEF Spec

-----------------------------------------------------------------------------
(* The queue of messages.  Types is TypeOK with the queue as a sequence and *)
(* the values of the functions that TypeOK leaves out.                      *)

Messages == [from : Worker, kind : Kinds]
Turns == Worker \cup {Resumed}

FlagTypes == loading \in BOOLEAN /\ seen \in BOOLEAN
LoopTypes ==
  /\ nextTurn \in Nat /\ pendingTurn \in Nat
  /\ nextCall \in Nat /\ lastCall \in Nat /\ calls \subseteq 1..nextCall
  /\ shown \in Model
  /\ override \in Model \cup {NoModel} /\ choosing \in Model \cup {NoModel}
  /\ live \subseteq Worker /\ strays \subseteq Worker
  /\ marks \subseteq {"overlap", "notice", "use", "change"}
  /\ commands \in 0..MaxCommands
HostTypes ==
  /\ activeProv \in Provider /\ hostModel \in Model
  /\ history \in Seq(Turns) /\ slot \in Worker \cup {Nobody}
TaskTypes ==
  /\ kind \in [Worker -> {"none", "prompt", "bash"}]
  /\ pc \in [Worker -> Pcs]
  /\ iter \in [Worker -> 0..MaxIterations]
  /\ taken \in [Worker -> Model \cup {NoModel}]
  /\ original \in [Worker -> Model \cup {NoModel}]
  /\ snapshot \in [Worker -> Seq(Turns)]
  /\ decision \in [Worker -> [provider : Provider \cup {NoModel},
                              model : Model \cup {NoModel}]]
  /\ call \in [Worker -> {"none", "running", "detached", "gone"}]
  /\ result \in [Worker -> {"none", "ok", "err"}]
BoxTypes == inbox \in Seq(Messages)
Types == FlagTypes /\ LoopTypes /\ HostTypes /\ TaskTypes /\ BoxTypes

(* Where a worker stands decides what it is, whether its call runs, whose  *)
(* channel may be installed and what it may have sent.                     *)
Sent(w, k) == \E i \in DOMAIN inbox : inbox[i] = Message(w, k)
InTurn == {"provider", "model", "top", "racing", "tool", "answered"}
Stands(w) ==
  /\ call[w] = "running" => pc[w] = "racing"
  /\ call[w] = "detached" => pc[w] = "returned"
  /\ slot = w => pc[w] \in InTurn \cup {"bash"}
  /\ pc[w] = "idle" => /\ kind[w] = "none" /\ iter[w] = 0
                       /\ decision[w] = NoRoute /\ ~InInbox(w)
  /\ pc[w] = "bash" => kind[w] = "bash"
  /\ pc[w] = "done" => kind[w] \in {"prompt", "bash"}
  /\ pc[w] \notin {"idle", "bash", "done"} => kind[w] = "prompt"
  /\ pc[w] \in {"apply", "snapshot", "provider", "model"} => iter[w] = 0
  /\ pc[w] \in {"racing", "tool", "answered", "returned", "restored"}
       => iter[w] > 0
  /\ kind[w] = "prompt" => original[w] \in Model
  /\ kind[w] = "prompt" /\ pc[w] = "done" => iter[w] > 0
  /\ Sent(w, "restored") => kind[w] = "prompt"
ControlInv == \A w \in Worker : Stands(w)

(* r is q with messages of w added at its end. *)
Grown(q, r, w) ==
  /\ r \in Seq(Messages) /\ Len(q) <= Len(r)
  /\ \A i \in 1..Len(q) : r[i] = q[i]
  /\ \A i \in (Len(q) + 1)..Len(r) : r[i].from = w

LEMMA MessageIsTyped ==
  ASSUME NEW w \in Worker, NEW k \in Kinds
  PROVE  Message(w, k) \in Messages /\ Message(w, k).from = w
         /\ Message(w, k).kind = k
  BY DEF Message, Messages

LEMMA PostAdds ==
  ASSUME BoxTypes, NEW w \in Worker, NEW k \in Kinds, Post(w, k)
  PROVE  /\ Grown(inbox, inbox', w)
         /\ Len(inbox) \in Nat /\ DOMAIN inbox = 1..Len(inbox)
         /\ Len(inbox') = Len(inbox) + 1 /\ DOMAIN inbox' = 1..(Len(inbox) + 1)
         /\ \A i \in 1..Len(inbox) : inbox'[i] = inbox[i]
         /\ inbox'[Len(inbox) + 1] = Message(w, k)
<1>1. Message(w, k) \in Messages /\ Message(w, k).from = w
  BY MessageIsTyped
<1>2. Append(inbox, Message(w, k)) \in Seq(Messages)
      /\ Len(Append(inbox, Message(w, k))) = Len(inbox) + 1
      /\ \A i \in 1..Len(inbox) : Append(inbox, Message(w, k))[i] = inbox[i]
      /\ Append(inbox, Message(w, k))[Len(inbox) + 1] = Message(w, k)
  BY <1>1, AppendProperties DEF BoxTypes
<1>3. Len(inbox) \in Nat /\ DOMAIN inbox = 1..Len(inbox)
  BY LenProperties DEF BoxTypes
<1>4. DOMAIN inbox' = 1..Len(inbox')
  BY <1>2, LenProperties DEF Post
<1> QED
  BY <1>1, <1>2, <1>3, <1>4 DEF Post, Grown

LEMMA TwoAreAdded ==
  ASSUME BoxTypes, NEW w \in Worker, NEW j \in Kinds, NEW k \in Kinds,
         inbox' = inbox \o <<Message(w, j), Message(w, k)>>
  PROVE  /\ Grown(inbox, inbox', w)
         /\ Len(inbox) \in Nat /\ DOMAIN inbox = 1..Len(inbox)
         /\ Len(inbox') = Len(inbox) + 2 /\ DOMAIN inbox' = 1..(Len(inbox) + 2)
         /\ \A i \in 1..Len(inbox) : inbox'[i] = inbox[i]
         /\ inbox'[Len(inbox) + 1] = Message(w, j)
         /\ inbox'[Len(inbox) + 2] = Message(w, k)
<1> DEFINE m == <<Message(w, j), Message(w, k)>>
<1>1. /\ Message(w, j) \in Messages /\ Message(w, j).from = w
      /\ Message(w, k) \in Messages /\ Message(w, k).from = w
  BY MessageIsTyped
<1>2. m \in Seq(Messages) /\ Len(m) = 2
      /\ m[1] = Message(w, j) /\ m[2] = Message(w, k)
  BY <1>1
<1>3. Len(inbox) \in Nat /\ DOMAIN inbox = 1..Len(inbox)
  BY LenProperties DEF BoxTypes
<1> HIDE DEF m
<1>4. inbox' = inbox \o m
  BY DEF m
<1>5. /\ inbox' \in Seq(Messages) /\ Len(inbox') = Len(inbox) + 2
      /\ \A i \in 1..(Len(inbox) + 2) :
           inbox'[i] = IF i <= Len(inbox) THEN inbox[i] ELSE m[i - Len(inbox)]
  BY <1>2, <1>3, <1>4, ConcatProperties DEF BoxTypes
<1>6. DOMAIN inbox' = 1..Len(inbox')
  BY <1>5, LenProperties
<1>7. /\ \A i \in 1..Len(inbox) : inbox'[i] = inbox[i]
      /\ inbox'[Len(inbox) + 1] = m[1] /\ inbox'[Len(inbox) + 2] = m[2]
  BY <1>3, <1>5
<1>8. \A i \in (Len(inbox) + 1)..(Len(inbox) + 2) :
        i = Len(inbox) + 1 \/ i = Len(inbox) + 2
  BY <1>3
<1> QED
  BY <1>1, <1>2, <1>3, <1>5, <1>6, <1>7, <1>8 DEF Grown

LEMMA TakeRemoves ==
  ASSUME BoxTypes, NEW w \in Worker, NEW k, Take(w, k)
  PROVE  /\ inbox' \in Seq(Messages)
         /\ Len(inbox) \in Nat \ {0} /\ DOMAIN inbox = 1..Len(inbox)
         /\ Len(inbox') = Len(inbox) - 1 /\ DOMAIN inbox' = 1..(Len(inbox) - 1)
         /\ \A i \in 1..(Len(inbox) - 1) : inbox'[i] = inbox[i + 1]
         /\ inbox[1] = Message(w, k)
         /\ Sent(w, k) /\ InInbox(w)
<1>1. inbox \in Seq(Messages) /\ inbox # <<>> /\ inbox' = Tail(inbox)
      /\ Head(inbox) = Message(w, k)
  BY DEF Take, BoxTypes
<1>2. Len(inbox) \in Nat \ {0} /\ DOMAIN inbox = 1..Len(inbox)
  BY <1>1, EmptySeq, LenProperties
<1>3. /\ inbox' \in Seq(Messages) /\ Len(inbox') = Len(inbox) - 1
      /\ \A i \in 1..Len(inbox') : inbox'[i] = inbox[i + 1]
  BY <1>1, HeadTailProperties
<1>4. DOMAIN inbox' = 1..Len(inbox')
  BY <1>3, LenProperties
<1>5. inbox[1] = Message(w, k) /\ 1 \in DOMAIN inbox
  BY <1>1, <1>2
<1>6. Sent(w, k)
  BY <1>5 DEF Sent
<1>7. InInbox(w)
  BY <1>5 DEF InInbox, Message
<1> QED
  BY <1>2, <1>3, <1>4, <1>5, <1>6, <1>7

(* What the steps do to Sent and InInbox. *)
LEMMA GrownSends ==
  ASSUME BoxTypes, NEW w \in Worker, Grown(inbox, inbox', w)
  PROVE  /\ \A v, k : Sent(v, k) => Sent(v, k)'
         /\ \A v : InInbox(v) => InInbox(v)'
         /\ \A v, k : v # w /\ Sent(v, k)' => Sent(v, k)
         /\ \A v : v # w /\ InInbox(v)' => InInbox(v)
<1>1. /\ Len(inbox) \in Nat /\ DOMAIN inbox = 1..Len(inbox)
      /\ Len(inbox') \in Nat /\ DOMAIN inbox' = 1..Len(inbox')
  BY LenProperties DEF BoxTypes, Grown
<1>2. \A i \in DOMAIN inbox : i \in DOMAIN inbox' /\ inbox'[i] = inbox[i]
  BY <1>1 DEF Grown
<1>3. \A i \in DOMAIN inbox' : i \in DOMAIN inbox \/ inbox'[i].from = w
  BY <1>1 DEF Grown
<1>4. \A v, k : Message(v, k).from = v
  BY DEF Message
<1> QED
  BY <1>2, <1>3, <1>4 DEF Sent, InInbox

LEMMA PostSends ==
  ASSUME BoxTypes, NEW w \in Worker, NEW k \in Kinds, Post(w, k)
  PROVE  \A j : Sent(w, j)' <=> Sent(w, j) \/ j = k
<1>1. /\ DOMAIN inbox = 1..Len(inbox) /\ DOMAIN inbox' = 1..(Len(inbox) + 1)
      /\ Len(inbox) \in Nat
      /\ \A i \in 1..Len(inbox) : inbox'[i] = inbox[i]
      /\ inbox'[Len(inbox) + 1] = Message(w, k)
  BY PostAdds
<1>2. \A j : Message(w, j) = Message(w, k) <=> j = k
  BY DEF Message
<1> QED
  BY <1>1, <1>2 DEF Sent

LEMMA TwoAreSent ==
  ASSUME BoxTypes, NEW w \in Worker, NEW j \in Kinds, NEW k \in Kinds,
         inbox' = inbox \o <<Message(w, j), Message(w, k)>>
  PROVE  \A l : Sent(w, l)' <=> Sent(w, l) \/ l = j \/ l = k
<1>1. /\ DOMAIN inbox = 1..Len(inbox) /\ DOMAIN inbox' = 1..(Len(inbox) + 2)
      /\ Len(inbox) \in Nat
      /\ \A i \in 1..Len(inbox) : inbox'[i] = inbox[i]
      /\ inbox'[Len(inbox) + 1] = Message(w, j)
      /\ inbox'[Len(inbox) + 2] = Message(w, k)
  BY TwoAreAdded
<1>2. \A l : /\ Message(w, l) = Message(w, k) <=> l = k
             /\ Message(w, l) = Message(w, j) <=> l = j
  BY DEF Message
<1>3. \A i \in 1..(Len(inbox) + 2) :
        i \in 1..Len(inbox) \/ i = Len(inbox) + 1 \/ i = Len(inbox) + 2
  BY <1>1
<1>4. Len(inbox) + 1 \in 1..(Len(inbox) + 2) /\ Len(inbox) + 2 \in 1..(Len(inbox) + 2)
      /\ \A i \in 1..Len(inbox) : i \in 1..(Len(inbox) + 2)
  BY <1>1
<1> QED
  BY <1>1, <1>2, <1>3, <1>4 DEF Sent

LEMMA TakeSends ==
  ASSUME BoxTypes, NEW w \in Worker, NEW k, Take(w, k)
  PROVE  /\ \A v, j : Sent(v, j)' => Sent(v, j)
         /\ \A v, j : Sent(v, j) => Sent(v, j)' \/ (v = w /\ j = k)
         /\ \A v : InInbox(v)' => InInbox(v)
         /\ \A v : InInbox(v) => InInbox(v)' \/ v = w
<1>1. /\ DOMAIN inbox = 1..Len(inbox) /\ DOMAIN inbox' = 1..(Len(inbox) - 1)
      /\ Len(inbox) \in Nat \ {0}
      /\ \A i \in 1..(Len(inbox) - 1) : inbox'[i] = inbox[i + 1]
      /\ inbox[1] = Message(w, k)
  BY TakeRemoves
<1>2. \A i \in DOMAIN inbox' : i + 1 \in DOMAIN inbox /\ inbox'[i] = inbox[i + 1]
  BY <1>1
<1>3. \A i \in DOMAIN inbox : i = 1 \/ (i - 1 \in DOMAIN inbox'
                                       /\ inbox'[i - 1] = inbox[i])
  BY <1>1
<1>4. \A v, j : /\ Message(v, j) = Message(w, k) <=> v = w /\ j = k
                /\ Message(v, j).from = v
  BY DEF Message
<1>5. ASSUME NEW v, NEW j, Sent(v, j), ~Sent(v, j)' PROVE v = w /\ j = k
  <2>1. PICK i \in DOMAIN inbox : inbox[i] = Message(v, j)
    BY <1>5 DEF Sent
  <2>2. i = 1
    BY <1>3, <1>5, <2>1 DEF Sent
  <2> QED
    BY <1>1, <1>4, <2>1, <2>2
<1>6. ASSUME NEW v, InInbox(v), ~InInbox(v)' PROVE v = w
  <2>1. PICK i \in DOMAIN inbox : inbox[i].from = v
    BY <1>6 DEF InInbox
  <2>2. i = 1
    BY <1>3, <1>6, <2>1 DEF InInbox
  <2> QED
    BY <1>1, <1>4, <2>1, <2>2
<1>7. \A v, j : Sent(v, j)' => Sent(v, j)
  BY <1>2 DEF Sent
<1>8. \A v : InInbox(v)' => InInbox(v)
  BY <1>2 DEF InInbox
<1> QED
  BY <1>5, <1>6, <1>7, <1>8

LEMMA BoxIsTyped ==
  ASSUME BoxTypes
  PROVE  \A i \in DOMAIN inbox : inbox[i].from \in Worker /\ inbox[i].kind \in Kinds
<1>1. \A i \in DOMAIN inbox : inbox[i] \in Messages
  BY LenProperties, ElementOfSeq DEF BoxTypes
<1> QED
  BY <1>1 DEF Messages

(* A step of a worker moves that worker only, adds messages of its own and *)
(* leaves the event loop alone.                                            *)
LEMMA TurnMoves ==
  ASSUME Types, ControlInv, NEW w \in Worker, Turn(w)
  PROVE  /\ UNCHANGED <<loopVars, activeProv, kind, taken, original, marks>>
         /\ \A v \in Worker \ {w} :
              /\ pc'[v] = pc[v] /\ iter'[v] = iter[v] /\ call'[v] = call[v]
              /\ snapshot'[v] = snapshot[v] /\ decision'[v] = decision[v]
              /\ result'[v] = result[v]
         /\ slot' \in {slot, w, Nobody}
         /\ pc[w] \notin {"idle", "done"}
<1>1. pc[w] \notin {"idle", "done"}
  BY DEF ControlInv, Stands, Turn, ApplyOverride, TakeSnapshot, ReadProvider,
         ReadModel, LoopLimit, Iterate, ReplyError, ReplyTools, ToolEnds, Commit,
         SendComplete, ObserveCancel, ObserveAbort, DetachedEnds, Restore,
         Report, BashEnds
<1> QED
  BY <1>1
  DEF Types, TaskTypes, Turn, ApplyOverride, TakeSnapshot, ReadProvider,
      ReadModel, LoopLimit, Iterate, ReplyError, ReplyTools, ToolEnds, Commit,
      SendComplete, ObserveCancel, ObserveAbort, DetachedEnds, Restore, Report,
      BashEnds, Goto, Return, hostVars

LEMMA TurnGrows ==
  ASSUME Types, NEW w \in Worker, Turn(w)
  PROVE  Grown(inbox, inbox', w)
<1> USE DEF Kinds
<1>1. BoxTypes
  BY DEF Types
<1>2. ASSUME UNCHANGED inbox PROVE Grown(inbox, inbox', w)
  <2>1. Len(inbox) \in Nat
    BY <1>1, LenProperties DEF BoxTypes
  <2> QED
    BY <1>1, <1>2, <2>1 DEF Grown, BoxTypes
<1>3. ASSUME NEW k \in Kinds, Post(w, k) PROVE Grown(inbox, inbox', w)
  BY <1>1, <1>3, PostAdds
<1>4. ASSUME NEW j \in Kinds, NEW k \in Kinds,
             inbox' = inbox \o <<Message(w, j), Message(w, k)>>
      PROVE  Grown(inbox, inbox', w)
  BY <1>1, <1>4, TwoAreAdded
<1>5. \/ UNCHANGED inbox
      \/ \E k \in Kinds : Post(w, k)
      \/ \E j, k \in Kinds : inbox' = inbox \o <<Message(w, j), Message(w, k)>>
  <2>1. CASE ApplyOverride(w) \/ TakeSnapshot(w) \/ ReadProvider(w)
             \/ LoopLimit(w) \/ ObserveAbort(w)
    BY <2>1 DEF ApplyOverride, TakeSnapshot, ReadProvider, LoopLimit, ObserveAbort
  <2>2. CASE ReadModel(w) \/ ReplyError(w) \/ ToolEnds(w) \/ Commit(w)
             \/ SendComplete(w) \/ ObserveCancel(w) \/ DetachedEnds(w)
    BY <2>2
    DEF ReadModel, ReplyError, ToolEnds, Commit, SendComplete, ObserveCancel,
        DetachedEnds
  <2>3. CASE Iterate(w)
    <3>1. (IF iter[w] = 0 THEN "first" ELSE "next") \in Kinds
      OBVIOUS
    <3> QED
      BY <2>3, <3>1 DEF Iterate
  <2>4. CASE Restore(w) \/ Report(w)
    BY <2>4 DEF Restore, Report
  <2>5. CASE ReplyTools(w)
    BY <2>5 DEF ReplyTools, PostText
  <2>6. CASE BashEnds(w)
    BY <2>6 DEF BashEnds
  <2> QED
    BY <2>1, <2>2, <2>3, <2>4, <2>5, <2>6 DEF Turn
<1> HIDE DEF Kinds
<1>6. CASE UNCHANGED inbox
  BY <1>2, <1>6
<1>7. CASE \E k \in Kinds : Post(w, k)
  BY <1>3, <1>7
<1>8. CASE \E j, k \in Kinds : inbox' = inbox \o <<Message(w, j), Message(w, k)>>
  BY <1>4, <1>8
<1> QED
  BY <1>5, <1>6, <1>7, <1>8

(* A message that the loop handles leaves the host and the workers alone. *)
LEMMA HandleTakes ==
  ASSUME NEW w \in Worker, Handle(w)
  PROVE  /\ UNCHANGED <<hostVars, taskVars, marks, commands, choosing, override,
                        quit>>
         /\ ~quit /\ choosing = NoModel
         /\ \E k \in Kinds : Take(w, k)
<1>1. UNCHANGED <<hostVars, taskVars, marks, commands, choosing, override, quit>>
  BY DEF Handle, HandleRoute, HandleFirst, HandleNext, HandleDelta,
         HandleToolStart, HandleToolEnd, HandleComplete, HandleStopped,
         HandleError, HandleRestored, HandleBashDone, loopVars, uiVars
<1>2. \E k \in Kinds : Take(w, k)
  BY DEF Handle, HandleRoute, HandleFirst, HandleNext, HandleDelta,
         HandleToolStart, HandleToolEnd, HandleComplete, HandleStopped,
         HandleError, HandleRestored, HandleBashDone, Kinds
<1> QED
  BY <1>1, <1>2 DEF Take, LoopFree

(* The notice of a disconnect goes to the worker whose channel is installed. *)
LEMMA GraceSends ==
  ASSUME Types, ControlInv, GraceExpires
  PROVE  /\ UNCHANGED <<loopVars, hostVars, kind, pc, iter, taken, original,
                        snapshot, decision, result>>
         /\ ~quit
         /\ \E w \in Worker : \/ UNCHANGED inbox
                              \/ slot = w /\ Post(w, "aborted")
         /\ \A v \in Worker :
              call'[v] = call[v] \/ (call[v] = "running" /\ call'[v] = "gone")
         /\ marks \subseteq marks'
<1>1. PICK w \in Worker \cup {Nobody}, sent \in BOOLEAN :
        /\ w # Nobody \/ sent
        /\ w # Nobody => call[w] = "running"
        /\ call' = IF w = Nobody THEN call ELSE [call EXCEPT ![w] = "gone"]
        /\ sent => slot # Nobody
        /\ IF sent THEN Post(slot, "aborted") ELSE UNCHANGED inbox
        /\ Mark(IF sent /\ w # slot THEN {"notice"} ELSE {})
  BY DEF GraceExpires
<1>2. slot \in Worker \cup {Nobody} /\ call \in [Worker -> {"none", "running", "detached", "gone"}]
  BY DEF Types, HostTypes, TaskTypes
<1>3. \E v \in Worker : UNCHANGED inbox \/ (slot = v /\ Post(v, "aborted"))
  <2>1. CASE sent
    BY <1>1, <1>2, <2>1
  <2>2. CASE ~sent
    BY <1>1, <2>2
  <2> QED
    BY <2>1, <2>2
<1>4. \A v \in Worker :
        call'[v] = call[v] \/ (call[v] = "running" /\ call'[v] = "gone")
  BY <1>1, <1>2
<1>5. marks \subseteq marks'
  BY <1>1 DEF Mark
<1> QED
  BY <1>3, <1>4, <1>5 DEF GraceExpires

(* The commands of the user leave the queue alone. *)
LEMMA UserMoves ==
  ASSUME User
  PROVE  /\ UNCHANGED <<inbox, iter, snapshot, decision, call, result>>
         /\ ~quit
         /\ marks \subseteq marks'
  BY DEF User, Submit, SubmitBash, Spawn, SubmitBlocked, SetModel, Resume, Quit,
         ChangeModel, SetOverride, Use, LoopFree, taskVars, Mark

LEMMA TypesInit == Init => Types /\ ControlInv
<1> SUFFICES ASSUME Init PROVE Types /\ ControlInv
  OBVIOUS
<1> USE ConstantsAssumption
<1>1. LoopTypes
  BY DEF Init, LoopTypes, None
<1>0. FlagTypes
  BY DEF Init, FlagTypes
<1>2. HostTypes
  <2>1. history \in Seq(Turns)
    BY EmptySeq DEF Init
  <2> QED
    BY <2>1 DEF Init, HostTypes
<1>3. TaskTypes
  <2>1. <<>> \in Seq(Turns)
    BY EmptySeq
  <2> QED
    BY <2>1 DEF Init, TaskTypes, NoRoute, Pcs
<1>4. BoxTypes
  BY EmptySeq DEF Init, BoxTypes
<1>5. ControlInv
  BY DEF Init, ControlInv, Stands, InTurn, Nobody, Worker, Sent, InInbox
<1> QED
  BY <1>0, <1>1, <1>2, <1>3, <1>4, <1>5 DEF Types

LEMMA TurnTypes ==
  ASSUME Types, ControlInv, NEW w \in Worker, Turn(w)
  PROVE  Types'
<1> USE ConstantsAssumption
<1>0. kind[w] = "prompt" => original[w] \in Model
  BY DEF ControlInv, Stands
<1>1. LoopTypes'
  BY DEF Types, LoopTypes, Turn, ApplyOverride, TakeSnapshot, ReadProvider,
         ReadModel, LoopLimit, Iterate, ReplyError, ReplyTools, ToolEnds, Commit,
         SendComplete, ObserveCancel, ObserveAbort, DetachedEnds, Restore,
         Report, BashEnds, Command, loopVars, frameVars, callVars, uiVars
<1>2. BoxTypes'
  BY TurnGrows DEF Grown, BoxTypes
<1>3. HostTypes'
  <2>1. CASE Commit(w)
    <3>1. snapshot[w] \in Seq(Turns) /\ w \in Turns
      BY DEF Types, TaskTypes, Turns
    <3>2. Append(snapshot[w], w) \in Seq(Turns)
      BY <3>1, AppendProperties
    <3> QED
      BY <2>1, <3>2 DEF Commit, Types, HostTypes
  <2>2. CASE ApplyOverride(w) \/ TakeSnapshot(w)
    BY <2>2 DEF ApplyOverride, TakeSnapshot, Types, HostTypes, TaskTypes
  <2>3. CASE Restore(w)
    <3>1. kind[w] = "prompt"
      BY <2>3 DEF Restore, ControlInv, Stands
    <3> QED
      BY <1>0, <2>3, <3>1 DEF Restore, Types, HostTypes
  <2>4. CASE LoopLimit(w) \/ ReplyError(w) \/ SendComplete(w)
             \/ ObserveCancel(w) \/ ObserveAbort(w) \/ BashEnds(w)
    BY <2>4
    DEF LoopLimit, ReplyError, SendComplete, ObserveCancel, ObserveAbort,
        BashEnds, Return, Types, HostTypes
  <2>5. CASE ReadProvider(w) \/ ReadModel(w) \/ Iterate(w) \/ ReplyTools(w)
             \/ ToolEnds(w) \/ DetachedEnds(w) \/ Report(w)
    BY <2>5
    DEF ReadProvider, ReadModel, Iterate, ReplyTools, ToolEnds, DetachedEnds,
        Report, hostVars, Types, HostTypes
  <2> QED
    BY <2>1, <2>2, <2>3, <2>4, <2>5 DEF Turn
<1>4. TaskTypes'
  <2> USE DEF Types, HostTypes, TaskTypes, Goto, Return, Pcs
  <2>1. CASE ApplyOverride(w)
    BY <2>1 DEF ApplyOverride
  <2>6. decision \in [Worker -> [provider : Provider \cup {NoModel},
                                 model : Model \cup {NoModel}]]
        /\ activeProv \in Provider \cup {NoModel}
        /\ hostModel \in Model \cup {NoModel}
    OBVIOUS
  <2>7. CASE ReadProvider(w)
    <3>1. decision' \in [Worker -> [provider : Provider \cup {NoModel},
                                    model : Model \cup {NoModel}]]
      BY ONLY <2>6, <2>7, w \in Worker DEF ReadProvider
    <3> QED
      BY <2>7, <3>1 DEF ReadProvider
  <2>8. CASE ReadModel(w)
    <3>1. decision' \in [Worker -> [provider : Provider \cup {NoModel},
                                    model : Model \cup {NoModel}]]
      BY ONLY <2>6, <2>8, w \in Worker DEF ReadModel
    <3> QED
      BY <2>8, <3>1 DEF ReadModel
  <2>2. CASE TakeSnapshot(w)
    BY <2>2 DEF TakeSnapshot
  <2>3. CASE LoopLimit(w) \/ ReplyError(w) \/ SendComplete(w)
             \/ ObserveCancel(w) \/ ObserveAbort(w) \/ BashEnds(w)
    BY <2>3
    DEF LoopLimit, ReplyError, SendComplete, ObserveCancel, ObserveAbort, BashEnds
  <2>4. CASE Iterate(w)
    BY <2>4 DEF Iterate
  <2>5. CASE ReplyTools(w) \/ ToolEnds(w) \/ Commit(w) \/ DetachedEnds(w)
             \/ Restore(w) \/ Report(w)
    BY <2>5 DEF ReplyTools, ToolEnds, Commit, DetachedEnds, Restore, Report
  <2> QED
    BY <2>1, <2>2, <2>3, <2>4, <2>5, <2>7, <2>8 DEF Turn
<1>f. FlagTypes'
  BY TurnMoves DEF Types, FlagTypes, loopVars, frameVars
<1> QED
  BY <1>f, <1>1, <1>2, <1>3, <1>4 DEF Types

LEMMA HandleTypes ==
  ASSUME Types, ControlInv, FrameInv, NEW w \in Worker, Handle(w)
  PROVE  Types'
<1>1. BoxTypes'
  BY HandleTakes, TakeRemoves DEF Types, BoxTypes
<1>2. HostTypes' /\ TaskTypes'
  <2>1. UNCHANGED <<hostVars, taskVars>>
    BY HandleTakes
  <2> QED
    BY <2>1 DEF Types, HostTypes, TaskTypes, hostVars, taskVars
<1>3. LoopTypes'
  <2>1. CASE HandleRestored(w)
    <3>1. Sent(w, "restored")
      BY <2>1, TakeRemoves DEF HandleRestored, Types
    <3>2. original[w] \in Model
      BY <3>1 DEF ControlInv, Stands
    <3> QED
      BY <2>1, <3>2 DEF HandleRestored, Types, LoopTypes, frameVars, callVars
  <2> USE DEF Types, LoopTypes, None, loopVars, frameVars, callVars, uiVars
  <2>2. CASE HandleRoute(w)
    BY <2>2 DEF HandleRoute
  <2>3. CASE HandleFirst(w)
    BY <2>3 DEF HandleFirst
  <2>4. CASE HandleNext(w)
    BY <2>4 DEF HandleNext
  <2>5. CASE HandleDelta(w)
    BY <2>5 DEF HandleDelta
  <2>6. CASE HandleBashDone(w)
    BY <2>6 DEF HandleBashDone
  <2>7. CASE HandleToolStart(w)
    BY <2>7 DEF HandleToolStart
  <2>8. CASE HandleToolEnd(w)
    BY <2>8 DEF HandleToolEnd
  <2>9. CASE HandleComplete(w)
    BY <2>9 DEF HandleComplete
  <2>10. CASE HandleStopped(w)
    BY <2>10 DEF HandleStopped
  <2>11. CASE HandleError(w)
    <3>1. nextTurn' \in Nat /\ pendingTurn' \in Nat /\ lastCall' \in Nat
      <4>1. CASE seen
        BY <2>11, <4>1 DEF HandleError
      <4>2. CASE ~seen
        <5>1. CASE currentTurn # None
          BY <2>11, <4>2, <5>1 DEF HandleError
        <5>2. CASE currentTurn = None
          BY <2>11, <4>2, <5>2 DEF HandleError
        <5> QED
          BY <5>1, <5>2
      <4> QED
        BY <4>1, <4>2
    <3>2. UNCHANGED <<strays, nextCall, calls, uiVars, marks, commands>>
      BY <2>11 DEF HandleError
    <3> QED
      BY <3>1, <3>2
  <2> QED
    BY <2>1, <2>2, <2>3, <2>4, <2>5, <2>6, <2>7, <2>8, <2>9, <2>10, <2>11 DEF Handle
<1>f. FlagTypes'
  BY DEF Types, FlagTypes, Handle, HandleRoute, HandleFirst,
         HandleNext, HandleDelta, HandleToolStart, HandleToolEnd, HandleComplete,
         HandleStopped, HandleError, HandleRestored, HandleBashDone, loopVars,
         frameVars
<1> QED
  BY <1>f, <1>1, <1>2, <1>3 DEF Types

LEMMA GraceTypes ==
  ASSUME Types, ControlInv, GraceExpires
  PROVE  Types'
<1> USE ConstantsAssumption
<1>1. BoxTypes'
  <2>1. PICK w \in Worker : UNCHANGED inbox \/ Post(w, "aborted")
    BY GraceSends
  <2>2. "aborted" \in Kinds
    BY DEF Kinds
  <2>3. ASSUME Post(w, "aborted") PROVE inbox' \in Seq(Messages)
    BY <2>2, <2>3, PostAdds DEF Types, Grown
  <2> QED
    BY <2>1, <2>3 DEF Types, BoxTypes
<1>2. LoopTypes'
  BY DEF GraceExpires, Mark, Command, Types, LoopTypes, loopVars, frameVars,
         callVars, uiVars
<1>3. TaskTypes' /\ HostTypes'
  BY DEF GraceExpires, Types, TaskTypes, HostTypes, hostVars
<1>f. FlagTypes'
  BY DEF Types, FlagTypes, GraceExpires, loopVars, frameVars
<1> QED
  BY <1>f, <1>1, <1>2, <1>3 DEF Types

LEMMA UserTypes ==
  ASSUME Types, User
  PROVE  Types'
<1> USE ConstantsAssumption
<1>1. BoxTypes'
  BY UserMoves DEF Types, BoxTypes
<1>2. LoopTypes'
  <2> USE DEF Types, LoopTypes, Mark, None, frameVars, callVars, uiVars
  <2>1. ASSUME NEW w \in Worker, Submit(w) PROVE LoopTypes'
    BY <2>1 DEF Submit, Spawn
  <2>2. ASSUME NEW w \in Worker, SubmitBash(w) PROVE LoopTypes'
    BY <2>2 DEF SubmitBash, Spawn
  <2>3. CASE SubmitBlocked \/ SetModel
    BY <2>3 DEF SubmitBlocked, SetModel
  <2>4. CASE Resume
    BY <2>4 DEF Resume, Command
  <2>5. CASE Quit
    <3>1. pendingTurn' \in Nat
      <4>1. CASE currentTurn # None
        BY <2>5, <4>1 DEF Quit
      <4>2. CASE currentTurn = None
        BY <2>5, <4>2 DEF Quit
      <4> QED
        BY <4>1, <4>2
    <3>2. UNCHANGED <<nextTurn, strays, callVars, uiVars, marks, commands>>
      BY <2>5 DEF Quit
    <3> QED
      BY <3>1, <3>2
  <2>6. ASSUME NEW m \in Model, ChangeModel(m) PROVE LoopTypes'
    BY <2>6 DEF ChangeModel, Command
  <2>7. ASSUME NEW m \in Model, SetOverride(m) PROVE LoopTypes'
    BY <2>7 DEF SetOverride, Command
  <2>8. ASSUME NEW p \in Provider, Use(p) PROVE LoopTypes'
    BY <2>8 DEF Use, Command
  <2> QED
    BY <2>1, <2>2, <2>3, <2>4, <2>5, <2>6, <2>7, <2>8 DEF User
<1>3. HostTypes'
  <2>1. CASE Resume
    <3>1. Resumed \in Turns
      BY DEF Turns
    <3>2. <<Resumed>> \in Seq(Turns)
      BY <3>1
    <3> QED
      BY <2>1, <3>2 DEF Resume, Types, HostTypes
  <2>2. ASSUME NEW w \in Worker, Submit(w) \/ SubmitBash(w) PROVE HostTypes'
    BY <2>2 DEF Submit, SubmitBash, hostVars, Types, HostTypes
  <2>3. CASE SubmitBlocked \/ SetModel \/ Quit
    BY <2>3 DEF SubmitBlocked, SetModel, Quit, hostVars, Types, HostTypes, LoopTypes
  <2>4. ASSUME NEW m \in Model, ChangeModel(m) \/ SetOverride(m) PROVE HostTypes'
    BY <2>4 DEF ChangeModel, SetOverride, hostVars, Types, HostTypes
  <2>5. ASSUME NEW p \in Provider, Use(p) PROVE HostTypes'
    BY <2>5 DEF Use, Types, HostTypes
  <2> QED
    BY <2>1, <2>2, <2>3, <2>4, <2>5 DEF User
<1>4. TaskTypes'
  <2>1. ASSUME NEW w \in Worker, Submit(w) PROVE TaskTypes'
    BY <2>1 DEF Submit, Goto, Pcs, Types, TaskTypes, LoopTypes
  <2>3. ASSUME NEW w \in Worker, SubmitBash(w) PROVE TaskTypes'
    BY <2>3 DEF SubmitBash, Goto, Pcs, Types, TaskTypes
  <2>2. ASSUME ~\E w \in Worker : Submit(w) \/ SubmitBash(w) PROVE TaskTypes'
    <3>1. UNCHANGED taskVars
      BY <2>2 DEF User, SubmitBlocked, SetModel, Resume, Quit, ChangeModel,
                  SetOverride, Use
    <3> QED
      BY <3>1 DEF taskVars, Types, TaskTypes
  <2> QED
    BY <2>1, <2>2, <2>3
<1>f. FlagTypes'
  BY DEF Types, FlagTypes, User, Submit, SubmitBash, SubmitBlocked,
         SetModel, Resume, Quit, ChangeModel, SetOverride, Use, frameVars
<1> QED
  BY <1>f, <1>1, <1>2, <1>3, <1>4 DEF Types

LEMMA TypesStep ==
  ASSUME Types, ControlInv, FrameInv, [Next]_vars
  PROVE  Types'
<1>1. CASE UNCHANGED vars
  BY <1>1
  DEF Types, FlagTypes, LoopTypes, HostTypes, TaskTypes, BoxTypes, vars, loopVars, frameVars,
      callVars, uiVars, hostVars, taskVars
<1> QED
  BY <1>1, TurnTypes, HandleTypes, GraceTypes, UserTypes DEF Next

(* A worker that a step leaves alone stands where it stood. *)
LEMMA OthersStand ==
  ASSUME NEW v \in Worker, Stands(v),
         kind'[v] = kind[v], pc'[v] = pc[v], iter'[v] = iter[v],
         original'[v] = original[v], decision'[v] = decision[v],
         call'[v] = call[v] \/ (call[v] = "running" /\ call'[v] = "gone"),
         slot' = v => slot = v,
         InInbox(v)' => InInbox(v) \/ pc[v] # "idle",
         Sent(v, "restored")' => Sent(v, "restored")
  PROVE  Stands(v)'
  BY DEF Stands

LEMMA TurnStands ==
  ASSUME Types, ControlInv, NEW w \in Worker, Turn(w)
  PROVE  ControlInv'
<1>1. Stands(w)
  BY DEF ControlInv
<1>2. BoxTypes /\ Grown(inbox, inbox', w)
  BY TurnGrows DEF Types
<1>3. ASSUME NEW v \in Worker, v # w PROVE Stands(v)'
  <2>1. /\ kind'[v] = kind[v] /\ pc'[v] = pc[v] /\ iter'[v] = iter[v]
        /\ original'[v] = original[v] /\ decision'[v] = decision[v]
        /\ call'[v] = call[v]
        /\ slot' = v => slot = v
    BY <1>3, TurnMoves, ConstantsAssumption DEF Nobody, Worker
  <2>2. /\ InInbox(v)' => InInbox(v)
        /\ Sent(v, "restored")' => Sent(v, "restored")
    BY <1>2, <1>3, GrownSends
  <2> QED
    BY <2>1, <2>2, OthersStand DEF ControlInv
<1>4. Stands(w)'
  <2>0. /\ pc \in [Worker -> Pcs] /\ iter \in [Worker -> 0..MaxIterations]
        /\ call \in [Worker -> {"none", "running", "detached", "gone"}]
        /\ slot \in Worker \cup {Nobody} /\ w # Nobody /\ MaxIterations \in Nat \ {0}
    BY ConstantsAssumption DEF Types, TaskTypes, HostTypes, Nobody, Worker
  <2>1. /\ kind'[w] = kind[w] /\ original'[w] = original[w]
        /\ kind[w] = "prompt" => original'[w] \in Model
    BY <1>1, TurnMoves DEF Stands
  <2>2. CASE BashEnds(w)
    <3>1. pc[w] = "bash" /\ pc'[w] = "done" /\ kind[w] = "bash" /\ slot' = Nobody
          /\ call' = call
      BY <1>1, <2>0, <2>2 DEF BashEnds, Goto, Stands
    <3>2. ~Sent(w, "restored")'
      <4>1. PICK k \in {"toolEnd", "error"} :
              inbox' = inbox \o <<Message(w, k), Message(w, "bashDone")>>
        BY <2>2 DEF BashEnds
      <4>2. k \in Kinds /\ "bashDone" \in Kinds
        BY DEF Kinds
      <4>3. Sent(w, "restored")' => Sent(w, "restored")
        BY <1>2, <4>1, <4>2, TwoAreSent
      <4> QED
        BY <1>1, <3>1, <4>3 DEF Stands
    <3> QED
      BY <1>1, <2>0, <2>1, <3>1, <3>2 DEF Stands
  <2>3. ASSUME ~BashEnds(w) PROVE Stands(w)'
    <3>1. /\ kind[w] = "prompt"
          /\ pc'[w] # "idle" /\ pc'[w] # "bash"
          /\ slot' = w => pc'[w] \in InTurn
      BY <1>1, <2>0, <2>3
      DEF Turn, ApplyOverride, TakeSnapshot, ReadProvider, ReadModel, LoopLimit,
          Iterate, ReplyError, ReplyTools, ToolEnds, Commit, SendComplete,
          ObserveCancel, ObserveAbort, DetachedEnds, Restore, Report, Goto,
          Return, Stands, InTurn, hostVars
    <3>2. /\ call'[w] = "running" => pc'[w] = "racing"
          /\ call'[w] = "detached" => pc'[w] = "returned"
      BY <1>1, <2>0, <2>3
      DEF Turn, ApplyOverride, TakeSnapshot, ReadProvider, ReadModel, LoopLimit,
          Iterate, ReplyError, ReplyTools, ToolEnds, Commit, SendComplete,
          ObserveCancel, ObserveAbort, DetachedEnds, Restore, Report, Goto,
          Return, Stands
    <3>3. /\ pc'[w] \in {"apply", "snapshot", "provider", "model"} => iter'[w] = 0
          /\ pc'[w] \in {"racing", "tool", "answered", "returned", "restored", "done"}
               => iter'[w] > 0
      BY <1>1, <2>0, <2>3
      DEF Turn, ApplyOverride, TakeSnapshot, ReadProvider, ReadModel, LoopLimit,
          Iterate, ReplyError, ReplyTools, ToolEnds, Commit, SendComplete,
          ObserveCancel, ObserveAbort, DetachedEnds, Restore, Report, Goto,
          Return, Stands
    <3> QED
      BY <2>1, <3>1, <3>2, <3>3 DEF Stands
  <2> QED
    BY <2>2, <2>3
<1> QED
  BY <1>3, <1>4 DEF ControlInv

LEMMA HandleStands ==
  ASSUME Types, ControlInv, NEW w \in Worker, Handle(w)
  PROVE  ControlInv'
<1>1. UNCHANGED <<hostVars, taskVars>>
  BY HandleTakes
<1>2. /\ \A v, j : Sent(v, j)' => Sent(v, j)
      /\ \A v : InInbox(v)' => InInbox(v)
  BY HandleTakes, TakeSends DEF Types
<1>3. ASSUME NEW v \in Worker PROVE Stands(v)'
  <2>1. /\ kind' = kind /\ pc' = pc /\ iter' = iter /\ original' = original
        /\ decision' = decision /\ call' = call /\ slot' = slot
    BY <1>1 DEF hostVars, taskVars
  <2> QED
    BY <1>2, <2>1, OthersStand DEF ControlInv
<1> QED
  BY <1>3 DEF ControlInv

LEMMA GraceStands ==
  ASSUME Types, ControlInv, GraceExpires
  PROVE  ControlInv'
<1>1. BoxTypes
  BY DEF Types
<1>2. /\ UNCHANGED <<hostVars, kind, pc, iter, original, decision>>
      /\ \A v \in Worker :
           call'[v] = call[v] \/ (call[v] = "running" /\ call'[v] = "gone")
  BY GraceSends
<1>3. PICK w \in Worker : UNCHANGED inbox \/ (slot = w /\ Post(w, "aborted"))
  BY GraceSends
<1>4. ASSUME NEW v \in Worker
      PROVE  /\ InInbox(v)' => InInbox(v) \/ pc[v] # "idle"
             /\ Sent(v, "restored")' => Sent(v, "restored")
  <2>1. CASE UNCHANGED inbox
    BY <2>1 DEF InInbox, Sent
  <2>2. CASE slot = w /\ Post(w, "aborted")
    <3>1. "aborted" \in Kinds /\ pc[w] # "idle"
      BY <2>2 DEF Kinds, ControlInv, Stands, InTurn
    <3>2. Grown(inbox, inbox', w)
      BY <1>1, <2>2, <3>1, PostAdds
    <3>3. Sent(w, "restored")' => Sent(w, "restored")
      BY <1>1, <2>2, <3>1, PostSends
    <3> QED
      BY <1>1, <3>1, <3>2, <3>3, GrownSends
  <2> QED
    BY <1>3, <2>1, <2>2
<1>5. ASSUME NEW v \in Worker PROVE Stands(v)'
  <2>1. /\ kind' = kind /\ pc' = pc /\ iter' = iter /\ original' = original
        /\ decision' = decision /\ slot' = slot
    BY <1>2 DEF hostVars
  <2> QED
    BY <1>2, <1>4, <2>1, OthersStand DEF ControlInv
<1> QED
  BY <1>5 DEF ControlInv

LEMMA UserStands ==
  ASSUME Types, ControlInv, User
  PROVE  ControlInv'
<1>1. UNCHANGED <<inbox, iter, decision, call>>
  BY UserMoves
<1>2. \A v : (InInbox(v)' <=> InInbox(v)) /\ (Sent(v, "restored")' <=> Sent(v, "restored"))
  BY <1>1 DEF InInbox, Sent
<1>3. ASSUME NEW w \in Worker, Submit(w) PROVE ControlInv'
  <2>1. /\ pc[w] = "idle" /\ slot' = slot
        /\ shown \in Model
        /\ \A v \in Worker :
             /\ pc'[v] = IF v = w THEN "apply" ELSE pc[v]
             /\ kind'[v] = IF v = w THEN "prompt" ELSE kind[v]
             /\ original'[v] = IF v = w THEN shown ELSE original[v]
    BY <1>3 DEF Submit, Spawn, Goto, hostVars, Types, LoopTypes, TaskTypes
  <2>2. ASSUME NEW v \in Worker PROVE Stands(v)'
    <3>1. CASE v = w
      BY <1>1, <1>2, <2>1, <3>1 DEF ControlInv, Stands, InTurn
    <3>2. CASE v # w
      BY <1>1, <1>2, <2>1, <3>2, OthersStand DEF ControlInv
    <3> QED
      BY <3>1, <3>2
  <2> QED
    BY <2>2 DEF ControlInv
<1>4. ASSUME NEW w \in Worker, SubmitBash(w) PROVE ControlInv'
  <2>1. /\ pc[w] = "idle" /\ slot' = w /\ original' = original
        /\ \A v \in Worker :
             /\ pc'[v] = IF v = w THEN "bash" ELSE pc[v]
             /\ kind'[v] = IF v = w THEN "bash" ELSE kind[v]
    BY <1>4 DEF SubmitBash, Spawn, Goto, Types, TaskTypes
  <2>2. ASSUME NEW v \in Worker PROVE Stands(v)'
    <3>1. CASE v = w
      <4>1. ~InInbox(w)
        BY <2>1 DEF ControlInv, Stands
      <4>2. ~Sent(w, "restored")
        BY <4>1 DEF InInbox, Sent, Message
      <4> QED
        BY <1>1, <1>2, <2>1, <3>1, <4>2 DEF ControlInv, Stands, InTurn
    <3>2. CASE v # w
      BY <1>1, <1>2, <2>1, <3>2, OthersStand DEF ControlInv
    <3> QED
      BY <3>1, <3>2
  <2> QED
    BY <2>2 DEF ControlInv
<1>5. ASSUME ~\E w \in Worker : Submit(w) \/ SubmitBash(w) PROVE ControlInv'
  <2>1. UNCHANGED <<taskVars, slot>>
    BY <1>5 DEF User, SubmitBlocked, SetModel, Resume, Quit, ChangeModel,
                SetOverride, Use, hostVars
  <2>2. kind' = kind /\ pc' = pc /\ original' = original /\ slot' = slot
    BY <2>1 DEF taskVars
  <2>3. ASSUME NEW v \in Worker PROVE Stands(v)'
    BY <1>1, <1>2, <2>2, OthersStand DEF ControlInv
  <2> QED
    BY <2>3 DEF ControlInv
<1> QED
  BY <1>3, <1>4, <1>5

LEMMA ControlStep ==
  ASSUME Types, ControlInv, [Next]_vars
  PROVE  ControlInv'
<1>1. CASE UNCHANGED vars
  BY <1>1 DEF ControlInv, Stands, InInbox, Sent, vars, hostVars, taskVars
<1> QED
  BY <1>1, TurnStands, HandleStands, GraceStands, UserStands DEF Next

TypeInv == Types /\ ControlInv /\ FrameInv

LEMMA TypeInvariance == Spec => []TypeInv
<1>1. Init => TypeInv
  BY TypesInit, FrameInit DEF TypeInv
<1>2. TypeInv /\ [Next]_vars => TypeInv'
  BY TypesStep, ControlStep, FrameStep DEF TypeInv
<1> QED
  BY <1>1, <1>2, PTL DEF Spec

(* Every value has its type: a restored model is one that the screen       *)
(* showed, and the messages come from workers (run_app, run_turn).         *)
THEOREM WorkersAreTyped == Spec => []TypeOK
<1>1. TypeInv => TypeOK
  <2> SUFFICES ASSUME TypeInv PROVE TypeOK
    OBVIOUS
  <2>1. /\ loading \in BOOLEAN /\ seen \in BOOLEAN /\ quit \in BOOLEAN
        /\ currentTurn \in Nat
    BY DEF TypeInv, Types, FlagTypes, FrameInv
  <2>2. \A i \in DOMAIN inbox : inbox[i].from \in Worker /\ inbox[i].kind \in Kinds
    BY BoxIsTyped DEF TypeInv, Types
  <2>3. \A i \in DOMAIN history : history[i] \in Worker \cup {Resumed}
    BY LenProperties, ElementOfSeq DEF TypeInv, Types, HostTypes, Turns
  <2> QED
    BY <2>1, <2>2, <2>3
    DEF TypeOK, TypeInv, Types, LoopTypes, HostTypes, TaskTypes
<1> QED
  BY <1>1, TypeInvariance, PTL

-----------------------------------------------------------------------------
(* Unless turns overlap, one worker at a time is under way: a prompt, a     *)
(* /bash or a /resume that starts while another one is not finished leaves  *)
(* its mark.                                                                *)
Solo == "overlap" \notin marks =>
          \A v, w \in Worker : Alive(v) /\ Alive(w) => v = w

LEMMA MarksGrow ==
  ASSUME Types, ControlInv, [Next]_vars
  PROVE  marks \subseteq marks'
<1>1. CASE UNCHANGED vars
  BY <1>1 DEF vars
<1> QED
  BY <1>1, TurnMoves, HandleTakes, GraceSends, UserMoves DEF Next

LEMMA StartsAlone ==
  ASSUME "overlap" \notin marks',
         \/ \E w \in Worker : Submit(w) \/ SubmitBash(w)
         \/ SubmitBlocked \/ Resume
  PROVE  \A v \in Worker : ~Alive(v)
<1>1. Mark(IF \E v \in Worker : Alive(v) THEN {"overlap"} ELSE {})
  BY DEF Submit, SubmitBash, Spawn, SubmitBlocked, Resume
<1> QED
  BY <1>1 DEF Mark

LEMMA StepsAreOfTheLiving ==
  ASSUME Types, ControlInv, NEW w \in Worker, Turn(w) \/ Handle(w)
  PROVE  Alive(w)
<1>1. CASE Turn(w)
  BY <1>1, TurnMoves DEF Alive
<1>2. CASE Handle(w)
  <2>1. PICK k \in Kinds : Take(w, k)
    BY <1>2, HandleTakes
  <2> QED
    BY <2>1, TakeRemoves DEF Alive, Types
<1> QED
  BY <1>1, <1>2

LEMMA AliveStep ==
  ASSUME Types, ControlInv, [Next]_vars, NEW v \in Worker, Alive(v)'
  PROVE  Alive(v) \/ Submit(v) \/ SubmitBash(v)
<1>1. CASE UNCHANGED vars
  BY <1>1 DEF vars, taskVars, Alive, InInbox
<1>2. ASSUME NEW w \in Worker, Turn(w) PROVE Alive(v)
  <2>1. CASE v = w
    BY <1>2, <2>1, StepsAreOfTheLiving
  <2>2. CASE v # w
    <3>1. pc'[v] = pc[v]
      BY <1>2, <2>2, TurnMoves
    <3>2. InInbox(v)' => InInbox(v)
      BY <1>2, <2>2, TurnGrows, GrownSends DEF Types
    <3> QED
      BY <3>1, <3>2 DEF Alive
  <2> QED
    BY <2>1, <2>2
<1>3. ASSUME NEW w \in Worker, Handle(w) PROVE Alive(v)
  <2>1. pc' = pc
    BY <1>3, HandleTakes DEF taskVars
  <2>2. InInbox(v)' => InInbox(v)
    BY <1>3, HandleTakes, TakeSends DEF Types
  <2> QED
    BY <2>1, <2>2 DEF Alive
<1>4. ASSUME GraceExpires PROVE Alive(v)
  <2>1. pc' = pc
    BY <1>4, GraceSends
  <2>2. PICK w \in Worker : UNCHANGED inbox \/ (slot = w /\ Post(w, "aborted"))
    BY <1>4, GraceSends
  <2>3. CASE UNCHANGED inbox
    BY <2>1, <2>3 DEF Alive, InInbox
  <2>4. CASE slot = w /\ Post(w, "aborted")
    <3>1. "aborted" \in Kinds /\ pc[w] \notin {"idle", "done"}
      BY <2>4 DEF Kinds, ControlInv, Stands, InTurn
    <3>2. Grown(inbox, inbox', w) /\ BoxTypes
      BY <2>4, <3>1, PostAdds DEF Types
    <3>3. v # w => (InInbox(v)' => InInbox(v))
      BY <3>2, GrownSends
    <3> QED
      BY <2>1, <3>1, <3>3 DEF Alive
  <2> QED
    BY <2>2, <2>3, <2>4
<1>5. ASSUME User PROVE Alive(v) \/ Submit(v) \/ SubmitBash(v)
  <2>1. InInbox(v)' => InInbox(v)
    BY <1>5, UserMoves DEF InInbox
  <2>2. pc'[v] = pc[v] \/ Submit(v) \/ SubmitBash(v)
    BY <1>5
    DEF User, Submit, SubmitBash, SubmitBlocked, SetModel, Resume, Quit,
        ChangeModel, SetOverride, Use, Goto, taskVars, Types, TaskTypes
  <2> QED
    BY <2>1, <2>2 DEF Alive
<1> QED
  BY <1>1, <1>2, <1>3, <1>4, <1>5 DEF Next

LEMMA SoloInit == Init => Solo
  BY DEF Init, Solo, Alive, InInbox

LEMMA SoloStep ==
  ASSUME Types, ControlInv, Solo, [Next]_vars
  PROVE  Solo'
<1> SUFFICES ASSUME "overlap" \notin marks', NEW v \in Worker, NEW w \in Worker,
                    Alive(v)', Alive(w)'
             PROVE  v = w
  BY DEF Solo
<1>1. "overlap" \notin marks
  BY MarksGrow
<1>2. \/ Alive(v) /\ Alive(w)
      \/ \E u \in {v, w} : Submit(u) \/ SubmitBash(u)
  BY AliveStep
<1>3. ASSUME NEW u \in Worker, Submit(u) \/ SubmitBash(u), NEW t \in Worker, Alive(t)'
      PROVE  t = u
  <2>1. ~Alive(t)
    BY <1>3, StartsAlone
  <2>2. UNCHANGED inbox
    BY <1>3, UserMoves DEF User
  <2>3. t # u => pc'[t] = pc[t]
    BY <1>3 DEF Submit, SubmitBash, Goto, Types, TaskTypes
  <2> QED
    BY <1>3, <2>1, <2>2, <2>3 DEF Alive, InInbox
<1> QED
  BY <1>1, <1>2, <1>3 DEF Solo

SoloInv == TypeInv /\ Solo

LEMMA SoloInvariance == Spec => []SoloInv
<1>1. Init => SoloInv
  BY TypesInit, FrameInit, SoloInit DEF SoloInv, TypeInv
<1>2. SoloInv /\ [Next]_vars => SoloInv'
  BY TypesStep, ControlStep, FrameStep, SoloStep DEF SoloInv, TypeInv
<1> QED
  BY <1>1, <1>2, PTL DEF Spec

(* The worker that takes a step is the only one under way. *)
LEMMA Alone ==
  ASSUME SoloInv, "overlap" \notin marks, NEW w \in Worker, Turn(w) \/ Handle(w)
  PROVE  /\ Alive(w)
         /\ \A v \in Worker : v # w => ~Alive(v)
         /\ \A i \in DOMAIN inbox : inbox[i].from = w
<1>1. Alive(w)
  BY StepsAreOfTheLiving DEF SoloInv, TypeInv
<1>2. \A v \in Worker : v # w => ~Alive(v)
  BY <1>1 DEF SoloInv, Solo
<1>3. \A i \in DOMAIN inbox : inbox[i].from \in Worker
  BY BoxIsTyped DEF SoloInv, TypeInv, Types
<1> QED
  BY <1>1, <1>2, <1>3 DEF Alive, InInbox

-----------------------------------------------------------------------------
(* The text of two turns is never in the same entry.  A turn's first text  *)
(* comes after its RouteSelected, which flushes what an earlier turn left. *)
AnswerInv ==
  "overlap" \notin marks =>
    /\ \E x \in Worker \cup {Nobody} : live \subseteq {x}
    /\ \A i \in DOMAIN inbox : inbox[i].kind = "delta" =>
         \/ live \subseteq {inbox[i].from}
         \/ \E j \in DOMAIN inbox : j < i /\ inbox[j].kind = "route"
    /\ \A w \in Worker :
         pc[w] \in {"top", "racing", "tool"} \/ call[w] = "detached" =>
           \/ live \subseteq {w}
           \/ \E j \in DOMAIN inbox : inbox[j].kind = "route"

LEMMA AnswerTurn ==
  ASSUME SoloInv, AnswerInv, "overlap" \notin marks, NEW w \in Worker, Turn(w)
  PROVE  AnswerInv'
<1> DEFINE Streams(v) == pc[v] \in {"top", "racing", "tool"} \/ call[v] = "detached"
           Routed == \E j \in DOMAIN inbox : inbox[j].kind = "route"
<1>0. Types /\ ControlInv /\ BoxTypes
  BY DEF SoloInv, TypeInv, Types
<1>1. /\ UNCHANGED live
      /\ \A v \in Worker \ {w} : pc'[v] = pc[v] /\ call'[v] = call[v]
  BY <1>0, TurnMoves DEF loopVars, uiVars
<1>2. Grown(inbox, inbox', w)
  BY <1>0, TurnGrows
<1>3. /\ Len(inbox) \in Nat /\ DOMAIN inbox = 1..Len(inbox)
      /\ Len(inbox') \in Nat /\ DOMAIN inbox' = 1..Len(inbox')
      /\ \A i \in DOMAIN inbox : i \in DOMAIN inbox' /\ inbox'[i] = inbox[i]
      /\ \A i \in DOMAIN inbox' : \/ i \in DOMAIN inbox
                                  \/ i > Len(inbox) /\ inbox'[i].from = w
  BY <1>0, <1>2, LenProperties DEF BoxTypes, Grown
<1>4. Routed => Routed'
  BY <1>3
<1>5. ASSUME NEW v \in Worker, Streams(v)' PROVE live \subseteq {v} \/ Routed'
  <2>1. CASE v # w
    <3>1. pc[v] \in {"idle", "done"} /\ ~Streams(v)
      BY <1>0, <2>1, Alone DEF Alive, ControlInv, Stands
    <3> QED
      BY <1>1, <1>5, <2>1, <3>1
  <2>2. CASE v = w
    <3>1. CASE Streams(w)
      BY <1>4, <2>2, <3>1 DEF AnswerInv
    <3>2. ASSUME ~Streams(w) PROVE ReadModel(w)
      BY <1>0, <1>5, <2>2, <3>2
      DEF Turn, ApplyOverride, TakeSnapshot, ReadProvider, LoopLimit, Iterate,
          ReplyError, ReplyTools, ToolEnds, Commit, SendComplete, ObserveCancel,
          ObserveAbort, DetachedEnds, Restore, Report, BashEnds, Goto, Return,
          Types, TaskTypes
    <3>3. ASSUME ReadModel(w) PROVE Routed'
      <4>1. Post(w, "route") /\ "route" \in Kinds
        BY <3>3 DEF ReadModel, Kinds
      <4>2. inbox'[Len(inbox) + 1] = Message(w, "route")
            /\ Len(inbox) + 1 \in DOMAIN inbox'
        <5>1. /\ inbox'[Len(inbox) + 1] = Message(w, "route")
              /\ DOMAIN inbox' = 1..(Len(inbox) + 1)
          BY <1>0, <4>1, PostAdds
        <5> QED
          BY <1>3, <5>1
      <4> QED
        BY <4>2 DEF Message
    <3> QED
      BY <3>1, <3>2, <3>3
  <2> QED
    BY <2>1, <2>2
<1>6. ASSUME NEW i \in DOMAIN inbox', i > Len(inbox), inbox'[i].kind = "delta"
      PROVE  Streams(w)
  <2>1. ASSUME NEW k \in Kinds, Post(w, k) PROVE k = "delta"
    <3>1. inbox'[i] = Message(w, k)
      <4>1. /\ inbox'[Len(inbox) + 1] = Message(w, k)
            /\ DOMAIN inbox' = 1..(Len(inbox) + 1)
        BY <1>0, <2>1, PostAdds
      <4> QED
        BY <1>3, <1>6, <4>1
    <3> QED
      BY <1>6, <3>1 DEF Message
  <2>2. ASSUME UNCHANGED inbox PROVE FALSE
    BY <1>3, <1>6, <2>2
  <2>3. ASSUME NEW k \in Kinds, k # "delta",
               inbox' = inbox \o <<Message(w, k), Message(w, "bashDone")>>
        PROVE  FALSE
    <3>1. "bashDone" \in Kinds
      BY DEF Kinds
    <3>2. inbox'[i] = Message(w, k) \/ inbox'[i] = Message(w, "bashDone")
      BY <1>0, <1>3, <1>6, <2>3, <3>1, TwoAreAdded
    <3> QED
      BY <1>6, <2>3, <3>2 DEF Message
  <2>4. CASE ReplyError(w) \/ ReplyTools(w) \/ Commit(w) \/ DetachedEnds(w)
    BY <2>4 DEF ReplyError, ReplyTools, Commit, DetachedEnds
  <2>5. CASE ApplyOverride(w) \/ TakeSnapshot(w) \/ ReadProvider(w)
             \/ LoopLimit(w) \/ ObserveAbort(w)
    BY <2>2, <2>5
    DEF ApplyOverride, TakeSnapshot, ReadProvider, LoopLimit, ObserveAbort
  <2>6. CASE ReadModel(w) \/ ToolEnds(w) \/ SendComplete(w) \/ ObserveCancel(w)
    BY <2>1, <2>6 DEF ReadModel, ToolEnds, SendComplete, ObserveCancel, Kinds
  <2>7. CASE Iterate(w)
    BY <2>1, <2>7 DEF Iterate, Kinds
  <2>8. CASE Restore(w) \/ Report(w)
    BY <2>1, <2>2, <2>8 DEF Restore, Report, Kinds
  <2>9. CASE BashEnds(w)
    BY <2>3, <2>9 DEF BashEnds, Kinds
  <2> QED
    BY <2>4, <2>5, <2>6, <2>7, <2>8, <2>9 DEF Turn
<1>7. ASSUME NEW i \in DOMAIN inbox', inbox'[i].kind = "delta"
      PROVE  \/ live \subseteq {inbox'[i].from}
             \/ \E j \in DOMAIN inbox' : j < i /\ inbox'[j].kind = "route"
  <2>1. CASE i \in DOMAIN inbox
    BY <1>3, <1>7, <2>1 DEF AnswerInv
  <2>2. CASE i \notin DOMAIN inbox
    <3>1. i > Len(inbox) /\ inbox'[i].from = w
      BY <1>3, <2>2
    <3>2. live \subseteq {w} \/ Routed
      BY <1>6, <1>7, <3>1 DEF AnswerInv
    <3> QED
      BY <1>3, <3>1, <3>2
  <2> QED
    BY <2>1, <2>2
<1> QED
  BY <1>1, <1>5, <1>7 DEF AnswerInv

LEMMA AnswerHandle ==
  ASSUME SoloInv, AnswerInv, "overlap" \notin marks, NEW w \in Worker, Handle(w)
  PROVE  AnswerInv'
<1>0. Types /\ ControlInv /\ BoxTypes
  BY DEF SoloInv, TypeInv, Types
<1>1. pc' = pc /\ call' = call
  BY HandleTakes DEF taskVars
<1>2. PICK k \in Kinds : Take(w, k)
  BY HandleTakes
<1>3. /\ Len(inbox) \in Nat \ {0} /\ DOMAIN inbox = 1..Len(inbox)
      /\ DOMAIN inbox' = 1..(Len(inbox) - 1)
      /\ \A i \in DOMAIN inbox' : i + 1 \in DOMAIN inbox /\ inbox'[i] = inbox[i + 1]
      /\ \A i \in DOMAIN inbox : i # 1 => /\ i - 1 \in DOMAIN inbox'
                                          /\ inbox'[i - 1] = inbox[i]
      /\ inbox[1] = Message(w, k) /\ 1 \in DOMAIN inbox
  BY <1>0, <1>2, TakeRemoves
<1>4. /\ \A i \in DOMAIN inbox' : inbox'[i].from = w
      /\ \A v \in Worker : pc[v] \in {"top", "racing", "tool"} \/ call[v] = "detached"
                           => v = w
  BY <1>0, <1>3, Alone DEF Alive, ControlInv, Stands
<1>5. CASE live' \subseteq {w}
  BY <1>1, <1>4, <1>5 DEF AnswerInv
<1>6. CASE HandleRoute(w) \/ HandleToolStart(w) \/ HandleComplete(w)
           \/ HandleStopped(w)
  <2>1. live' = {}
    BY <1>6 DEF HandleRoute, HandleToolStart, HandleComplete, HandleStopped
  <2> QED
    BY <1>5, <2>1
<1>7. CASE HandleDelta(w)
  <2>1. inbox[1].kind = "delta" /\ inbox[1].from = w
    <3>1. Take(w, "delta")
      BY <1>7 DEF HandleDelta
    <3>2. inbox[1] = Message(w, "delta")
      BY <1>0, <3>1, TakeRemoves
    <3> QED
      BY <3>2 DEF Message
  <2>2. \A j \in DOMAIN inbox : ~(j < 1)
    BY <1>3
  <2>3. live \subseteq {w}
    BY <1>3, <2>1, <2>2 DEF AnswerInv
  <2>4. live' \subseteq {w}
    BY <1>7, <2>3 DEF HandleDelta
  <2> QED
    BY <1>5, <2>4
<1>8. CASE HandleFirst(w) \/ HandleNext(w) \/ HandleToolEnd(w) \/ HandleError(w)
           \/ HandleRestored(w) \/ HandleBashDone(w)
  <2>1. live' = live
    BY <1>8 DEF HandleFirst, HandleNext, HandleToolEnd, HandleError,
                HandleRestored, HandleBashDone, loopVars, uiVars
  <2>2. inbox[1].kind # "route"
    <3>1. PICK j \in Kinds \ {"route"} : Take(w, j)
      BY <1>8
      DEF HandleFirst, HandleNext, HandleToolEnd, HandleError, HandleRestored,
          HandleBashDone, Kinds
    <3>2. inbox[1] = Message(w, j)
      BY <1>0, <3>1, TakeRemoves
    <3> QED
      BY <3>2 DEF Message
  <2>3. \A j \in DOMAIN inbox : inbox[j].kind = "route" =>
          j - 1 \in DOMAIN inbox' /\ inbox'[j - 1].kind = "route"
    BY <1>3, <2>2
  <2>4. ASSUME NEW i \in DOMAIN inbox', inbox'[i].kind = "delta"
        PROVE  \/ live \subseteq {inbox'[i].from}
               \/ \E j \in DOMAIN inbox' : j < i /\ inbox'[j].kind = "route"
    <3>1. i + 1 \in DOMAIN inbox /\ inbox'[i] = inbox[i + 1]
      BY <1>3
    <3>2. \/ live \subseteq {inbox'[i].from}
          \/ \E j \in DOMAIN inbox : j < i + 1 /\ inbox[j].kind = "route"
      BY <2>4, <3>1 DEF AnswerInv
    <3>3. ASSUME NEW j \in DOMAIN inbox, j < i + 1, inbox[j].kind = "route"
          PROVE  j - 1 \in DOMAIN inbox' /\ j - 1 < i /\ inbox'[j - 1].kind = "route"
      BY <1>3, <2>3, <3>3
    <3> QED
      BY <3>2, <3>3
  <2>5. ASSUME NEW v \in Worker,
               pc[v] \in {"top", "racing", "tool"} \/ call[v] = "detached"
        PROVE  \/ live \subseteq {v}
               \/ \E j \in DOMAIN inbox' : inbox'[j].kind = "route"
    BY <2>3, <2>5 DEF AnswerInv
  <2> QED
    BY <1>1, <2>1, <2>4, <2>5 DEF AnswerInv
<1> QED
  BY <1>6, <1>7, <1>8 DEF Handle

LEMMA AnswerOther ==
  ASSUME SoloInv, AnswerInv, "overlap" \notin marks', User \/ GraceExpires
  PROVE  AnswerInv'
<1>0. Types /\ ControlInv /\ BoxTypes /\ "overlap" \notin marks
  BY MarksGrow DEF SoloInv, TypeInv, Types, Next
<1>1. CASE GraceExpires
  <2>1. live' = live /\ pc' = pc
        /\ \A v \in Worker : call'[v] = call[v] \/ call'[v] = "gone"
    BY <1>0, <1>1, GraceSends DEF loopVars, uiVars
  <2>2. PICK w \in Worker : UNCHANGED inbox \/ Post(w, "aborted")
    BY <1>0, <1>1, GraceSends
  <2>3. CASE UNCHANGED inbox
    BY <1>0, <2>1, <2>3 DEF AnswerInv
  <2>4. CASE Post(w, "aborted")
    <3>1. "aborted" \in Kinds
      BY DEF Kinds
    <3>2. /\ Len(inbox) \in Nat /\ DOMAIN inbox = 1..Len(inbox)
          /\ \A i \in DOMAIN inbox : i \in DOMAIN inbox' /\ inbox'[i] = inbox[i]
          /\ \A i \in DOMAIN inbox' : i \in DOMAIN inbox \/ inbox'[i] = Message(w, "aborted")
      BY <1>0, <2>4, <3>1, PostAdds
    <3>3. \A i \in DOMAIN inbox' : inbox'[i].kind = "delta" => i \in DOMAIN inbox
      BY <3>2 DEF Message
    <3> QED
      BY <1>0, <2>1, <3>2, <3>3 DEF AnswerInv
  <2> QED
    BY <2>2, <2>3, <2>4
<1>2. ASSUME NEW w \in Worker, Submit(w) \/ SubmitBash(w) PROVE AnswerInv'
  <2>1. \A v \in Worker : ~Alive(v)
    BY <1>2, StartsAlone
  <2>2. \A i \in DOMAIN inbox : inbox[i].from \in Worker
    BY <1>0, BoxIsTyped
  <2>3. DOMAIN inbox = {}
    BY <2>1, <2>2 DEF Alive, InInbox
  <2>4. \A v \in Worker : pc[v] \in {"idle", "done"} /\ call[v] # "detached"
    BY <1>0, <2>1 DEF Alive, ControlInv, Stands
  <2>5. UNCHANGED <<inbox, live, call>>
        /\ \A v \in Worker : pc'[v] = pc[v] \/ pc'[v] \in {"apply", "bash"}
    BY <1>0, <1>2 DEF Submit, SubmitBash, Goto, uiVars, Types, TaskTypes
  <2>6. \A v \in Worker : pc'[v] \notin {"top", "racing", "tool"} /\ call'[v] # "detached"
    BY <2>4, <2>5
  <2> QED
    BY <1>0, <2>3, <2>5, <2>6 DEF AnswerInv
<1>3. ASSUME ~\E w \in Worker : Submit(w) \/ SubmitBash(w), User PROVE AnswerInv'
  <2>1. UNCHANGED <<inbox, pc, call>> /\ live' \in {{}, live}
    BY <1>3 DEF User, SubmitBlocked, SetModel, Resume, Quit, ChangeModel,
                SetOverride, Use, taskVars, uiVars
  <2> QED
    BY <1>0, <2>1 DEF AnswerInv
<1> QED
  BY <1>1, <1>2, <1>3

LEMMA AnswerInit == Init => AnswerInv
  BY DEF Init, AnswerInv, Nobody

LEMMA AnswerStep ==
  ASSUME SoloInv, AnswerInv, [Next]_vars
  PROVE  AnswerInv'
<1>1. CASE UNCHANGED vars
  BY <1>1 DEF AnswerInv, vars, loopVars, uiVars, taskVars
<1>2. CASE "overlap" \in marks'
  BY <1>2 DEF AnswerInv
<1>3. "overlap" \notin marks' => "overlap" \notin marks
  BY MarksGrow DEF SoloInv, TypeInv
<1> QED
  BY <1>1, <1>2, <1>3, AnswerTurn, AnswerHandle, AnswerOther DEF Next

(* Unless turns overlap, live_text holds text of at most one turn at a     *)
(* time, although the flush and the text both go through the queue         *)
(* (App::apply_turn_event: RouteSelected, TextDelta).                      *)
THEOREM AnswersStayApart == Spec => []AnswersAreNotMixed
<1>1. AnswerInv => AnswersAreNotMixed
  <2> SUFFICES ASSUME AnswerInv, "overlap" \notin marks PROVE Cardinality(live) <= 1
    BY DEF AnswersAreNotMixed
  <2>1. PICK x : live \subseteq {x}
    BY DEF AnswerInv
  <2>2. IsFiniteSet({x}) /\ Cardinality({x}) = 1
    BY FS_Singleton
  <2>3. Cardinality(live) <= Cardinality({x})
    BY <2>1, <2>2, FS_Subset
  <2> QED
    BY <2>2, <2>3
<1>2. SoloInv /\ AnswerInv /\ [Next]_vars => AnswerInv'
  BY AnswerStep
<1> QED
  BY <1>1, <1>2, AnswerInit, SoloInvariance, PTL DEF Spec

-----------------------------------------------------------------------------
(* Which step of a worker sends what ends its turn. *)
LEMMA TurnSends ==
  ASSUME Types, NEW w \in Worker, Turn(w)
  PROVE  /\ Sent(w, "first")' => Sent(w, "first") \/ (Iterate(w) /\ iter[w] = 0)
         /\ Sent(w, "complete")' => Sent(w, "complete") \/ SendComplete(w)
         /\ Sent(w, "cancelled")' => Sent(w, "cancelled") \/ ObserveCancel(w)
         /\ Sent(w, "aborted")' => Sent(w, "aborted")
         /\ Sent(w, "error")' => \/ Sent(w, "error") \/ BashEnds(w)
                                 \/ Report(w) /\ result[w] = "err"
         /\ Sent(w, "bashDone")' => Sent(w, "bashDone") \/ BashEnds(w)
<1>0. BoxTypes
  BY DEF Types
<1>1. ASSUME UNCHANGED inbox PROVE \A k : Sent(w, k)' => Sent(w, k)
  BY <1>1 DEF Sent
<1>2. ASSUME NEW j \in Kinds, Post(w, j)
      PROVE  \A k : Sent(w, k)' => Sent(w, k) \/ k = j
  BY <1>0, <1>2, PostSends
<1>3. ASSUME NEW j \in Kinds, NEW l \in Kinds,
             inbox' = inbox \o <<Message(w, j), Message(w, l)>>
      PROVE  \A k : Sent(w, k)' => Sent(w, k) \/ k = j \/ k = l
  BY <1>0, <1>3, TwoAreSent
<1>4. CASE ApplyOverride(w) \/ TakeSnapshot(w) \/ ReadProvider(w)
           \/ LoopLimit(w) \/ ObserveAbort(w)
  BY <1>1, <1>4
  DEF ApplyOverride, TakeSnapshot, ReadProvider, LoopLimit, ObserveAbort
<1>5. CASE ReadModel(w) \/ ToolEnds(w) \/ ReplyError(w) \/ Commit(w)
           \/ DetachedEnds(w)
  BY <1>2, <1>5 DEF ReadModel, ToolEnds, ReplyError, Commit, DetachedEnds, Kinds
<1>6. CASE SendComplete(w) \/ ObserveCancel(w)
  BY <1>2, <1>6 DEF SendComplete, ObserveCancel, Kinds
<1>7. CASE Iterate(w)
  BY <1>2, <1>7 DEF Iterate, Kinds
<1>8. CASE Restore(w)
  BY <1>1, <1>2, <1>8 DEF Restore, Kinds
<1>9. CASE Report(w)
  BY <1>1, <1>2, <1>9 DEF Report, Kinds
<1>10. CASE ReplyTools(w)
  BY <1>3, <1>10 DEF ReplyTools, PostText, Kinds
<1>11. CASE BashEnds(w)
  <2>1. PICK j \in {"toolEnd", "error"} :
          inbox' = inbox \o <<Message(w, j), Message(w, "bashDone")>>
    BY <1>11 DEF BashEnds
  <2>2. \A k : Sent(w, k)' => Sent(w, k) \/ k = j \/ k = "bashDone"
    <3>1. j \in Kinds /\ "bashDone" \in Kinds
      BY DEF Kinds
    <3> QED
      BY <1>3, <2>1, <3>1
  <2> QED
    BY <1>11, <2>1, <2>2
<1> QED
  BY <1>4, <1>5, <1>6, <1>7, <1>8, <1>9, <1>10, <1>11 DEF Turn

LEMMA SentIsAlive == \A w \in Worker : \A k : Sent(w, k) => Alive(w)
  BY DEF Sent, Alive, InInbox, Message

(* Unless turns overlap, the working copy of a turn is the conversation,   *)
(* until the turn adds itself to it.                                       *)
HistoryInv ==
  "overlap" \notin marks =>
    \A w \in Worker :
      /\ pc[w] \in InTurn \ {"answered"} => snapshot[w] = history
      /\ pc[w] = "answered" \/ Sent(w, "complete") =>
           \E i \in DOMAIN history : history[i] = w

LEMMA AppendExtends ==
  ASSUME NEW s \in Seq(Turns), NEW w \in Worker
  PROVE  /\ Extends(s, s) /\ Extends(s, Append(s, w))
         /\ \E i \in DOMAIN Append(s, w) : Append(s, w)[i] = w
<1>1. w \in Turns /\ Len(s) \in Nat
  BY LenProperties DEF Turns
<1>2. Append(s, w) \in Seq(Turns) /\ Len(Append(s, w)) = Len(s) + 1
      /\ Append(s, w)[Len(s) + 1] = w
  BY <1>1, AppendProperties
<1>3. SubSeq(s, 1, Len(s)) = s
  BY SubSeqFull
<1>4. SubSeq(Append(s, w), 1, Len(s)) = s
  <2>1. CASE Len(s) = 0
    <3>1. s = <<>>
      BY <2>1, EmptySeq
    <3> QED
      BY <1>2, <2>1, <3>1, SubSeqEmpty
  <2>2. CASE Len(s) > 0
    <3>1. Append(s, w) = s \o <<w>> /\ <<w>> \in Seq(Turns)
      BY <1>1, AppendIsConcat
    <3>2. 1 \in 1..Len(s) /\ Len(s) \in 1..Len(s)
      BY <1>1, <2>2
    <3>3. SubSeq(s \o <<w>>, 1, Len(s)) = SubSeq(s, 1, Len(s))
      BY <3>1, <3>2, SubSeqOfConcat1
    <3> QED
      BY <1>3, <3>1, <3>3
  <2> QED
    BY <1>1, <2>1, <2>2
<1>5. Len(s) + 1 \in DOMAIN Append(s, w)
  BY <1>1, <1>2, LenProperties
<1> QED
  BY <1>1, <1>2, <1>3, <1>4, <1>5 DEF Extends

LEMMA HistoryTurn ==
  ASSUME SoloInv, HistoryInv, "overlap" \notin marks, NEW w \in Worker, Turn(w)
  PROVE  HistoryInv' /\ Extends(history, history')
<1>0. Types /\ ControlInv
  BY DEF SoloInv, TypeInv
<1>1. ASSUME NEW v \in Worker, v # w
      PROVE  pc'[v] \notin InTurn /\ ~Sent(v, "complete")'
  <2>1. ~Alive(v) /\ pc'[v] = pc[v]
    BY <1>0, <1>1, Alone, TurnMoves
  <2>2. ~Sent(v, "complete") /\ pc[v] \in {"idle", "done"}
    BY <2>1, SentIsAlive DEF Alive
  <2>3. ~Sent(v, "complete")'
    BY <1>0, <1>1, <2>2, TurnGrows, GrownSends DEF Types
  <2> QED
    BY <2>1, <2>2, <2>3 DEF InTurn
<1>2. history \in Seq(Turns) /\ snapshot \in [Worker -> Seq(Turns)]
      /\ pc \in [Worker -> Pcs]
  BY <1>0 DEF Types, HostTypes, TaskTypes
<1>3. /\ pc[w] \in InTurn \ {"answered"} => snapshot[w] = history
      /\ pc[w] = "answered" \/ Sent(w, "complete") =>
           \E i \in DOMAIN history : history[i] = w
  BY DEF HistoryInv
<1>4. CASE Commit(w)
  <2>1. history' = Append(history, w) /\ pc'[w] = "answered"
    BY <1>2, <1>3, <1>4 DEF Commit, Goto, InTurn
  <2>2. /\ Extends(history, history')
        /\ \E i \in DOMAIN history' : history'[i] = w
    BY <1>2, <2>1, AppendExtends
  <2>3. ASSUME NEW v \in Worker
        PROVE  /\ pc'[v] \in InTurn \ {"answered"} => snapshot'[v] = history'
               /\ pc'[v] = "answered" \/ Sent(v, "complete")' =>
                    \E i \in DOMAIN history' : history'[i] = v
    <3>1. CASE v = w
      BY <2>1, <2>2, <3>1
    <3>2. CASE v # w
      BY <1>1, <3>2 DEF InTurn
    <3> QED
      BY <3>1, <3>2
  <2> QED
    BY <2>2, <2>3 DEF HistoryInv
<1>5. ASSUME ~Commit(w) PROVE HistoryInv' /\ Extends(history, history')
  <2>1. history' = history
    BY <1>5
    DEF Turn, ApplyOverride, TakeSnapshot, ReadProvider, ReadModel, LoopLimit,
        Iterate, ReplyError, ReplyTools, ToolEnds, SendComplete, ObserveCancel,
        ObserveAbort, DetachedEnds, Restore, Report, BashEnds, hostVars
  <2>2. pc'[w] \in InTurn \ {"answered"} => snapshot'[w] = history
    <3>1. CASE TakeSnapshot(w)
      BY <1>2, <3>1 DEF TakeSnapshot
    <3>2. ASSUME ~TakeSnapshot(w)
          PROVE  snapshot' = snapshot /\ (pc'[w] \in InTurn \ {"answered"}
                                          => pc[w] \in InTurn \ {"answered"})
      BY <1>2, <1>5, <3>2
      DEF Turn, ApplyOverride, ReadProvider, ReadModel, LoopLimit, Iterate,
          ReplyError, ReplyTools, ToolEnds, SendComplete, ObserveCancel,
          ObserveAbort, DetachedEnds, Restore, Report, BashEnds, Goto, Return,
          InTurn
    <3> QED
      BY <1>3, <3>1, <3>2
  <2>3. pc'[w] # "answered"
    BY <1>0, <1>2, <1>5
    DEF Turn, ApplyOverride, TakeSnapshot, ReadProvider, ReadModel, LoopLimit,
        Iterate, ReplyError, ReplyTools, ToolEnds, SendComplete, ObserveCancel,
        ObserveAbort, DetachedEnds, Restore, Report, BashEnds, Goto, Return,
        ControlInv, Stands
  <2>4. Sent(w, "complete")' => Sent(w, "complete") \/ pc[w] = "answered"
    BY <1>0, TurnSends DEF SendComplete
  <2>5. ASSUME NEW v \in Worker
        PROVE  /\ pc'[v] \in InTurn \ {"answered"} => snapshot'[v] = history'
               /\ pc'[v] = "answered" \/ Sent(v, "complete")' =>
                    \E i \in DOMAIN history' : history'[i] = v
    <3>1. CASE v = w
      BY <1>3, <2>1, <2>2, <2>3, <2>4, <3>1
    <3>2. CASE v # w
      BY <1>1, <3>2 DEF InTurn
    <3> QED
      BY <3>1, <3>2
  <2>6. Extends(history, history')
    BY <1>2, <2>1, AppendExtends
  <2> QED
    BY <2>5, <2>6 DEF HistoryInv
<1> QED
  BY <1>4, <1>5

LEMMA HistoryOther ==
  ASSUME SoloInv, HistoryInv, "overlap" \notin marks',
         User \/ GraceExpires \/ \E w \in Worker : Handle(w)
  PROVE  HistoryInv' /\ (history' = history \/ history' = <<Resumed>>)
<1>0. Types /\ ControlInv /\ BoxTypes /\ "overlap" \notin marks
  BY MarksGrow DEF SoloInv, TypeInv, Types, Next
<1>1. ASSUME NEW w \in Worker, Handle(w)
      PROVE  HistoryInv' /\ history' = history
  <2>1. history' = history /\ pc' = pc /\ snapshot' = snapshot
    BY <1>1, HandleTakes DEF hostVars, taskVars
  <2>2. \A v : Sent(v, "complete")' => Sent(v, "complete")
    BY <1>0, <1>1, HandleTakes, TakeSends
  <2> QED
    BY <1>0, <2>1, <2>2 DEF HistoryInv
<1>2. CASE GraceExpires
  <2>1. history' = history /\ pc' = pc /\ snapshot' = snapshot
    BY <1>0, <1>2, GraceSends DEF hostVars
  <2>2. PICK w \in Worker : UNCHANGED inbox \/ Post(w, "aborted")
    BY <1>0, <1>2, GraceSends
  <2>3. \A v : Sent(v, "complete")' => Sent(v, "complete")
    <3>1. CASE UNCHANGED inbox
      BY <3>1 DEF Sent
    <3>2. CASE Post(w, "aborted")
      <4>1. "aborted" \in Kinds
        BY DEF Kinds
      <4>2. Grown(inbox, inbox', w) /\ (Sent(w, "complete")' => Sent(w, "complete"))
        BY <1>0, <3>2, <4>1, PostAdds, PostSends
      <4> QED
        BY <1>0, <4>2, GrownSends
    <3> QED
      BY <2>2, <3>1, <3>2
  <2> QED
    BY <1>0, <2>1, <2>3 DEF HistoryInv
<1>3. ASSUME (\E w \in Worker : Submit(w) \/ SubmitBash(w)) \/ Resume
      PROVE  HistoryInv' /\ (history' = history \/ history' = <<Resumed>>)
  <2>1. \A v \in Worker : ~Alive(v)
    BY <1>3, StartsAlone
  <2>2. UNCHANGED inbox /\ (history' = history \/ history' = <<Resumed>>)
        /\ \A v \in Worker : pc'[v] = pc[v] \/ pc'[v] \in {"apply", "bash"}
    BY <1>0, <1>3 DEF Submit, SubmitBash, Resume, Goto, hostVars, taskVars, Types,
                      TaskTypes
  <2>3. \A v \in Worker : ~Sent(v, "complete")' /\ pc'[v] \notin InTurn
    BY <2>1, <2>2, SentIsAlive DEF Sent, Alive, InTurn
  <2> QED
    BY <2>2, <2>3 DEF HistoryInv, InTurn
<1>4. ASSUME User, ~(\E w \in Worker : Submit(w) \/ SubmitBash(w)), ~Resume
      PROVE  HistoryInv' /\ history' = history
  <2>1. history' = history /\ UNCHANGED <<pc, snapshot, inbox>>
    BY <1>4 DEF User, SubmitBlocked, SetModel, Quit, ChangeModel, SetOverride,
                Use, hostVars, taskVars
  <2> QED
    BY <1>0, <2>1 DEF HistoryInv, Sent
<1> QED
  BY <1>1, <1>2, <1>3, <1>4

LEMMA HistoryInit == Init => HistoryInv
  BY DEF Init, HistoryInv, InTurn, Sent

LEMMA HistoryStep ==
  ASSUME SoloInv, HistoryInv, [Next]_vars
  PROVE  HistoryInv'
<1>1. CASE UNCHANGED vars
  BY <1>1 DEF HistoryInv, Sent, vars, hostVars, taskVars
<1>2. CASE "overlap" \in marks'
  BY <1>2 DEF HistoryInv
<1>3. "overlap" \notin marks' => "overlap" \notin marks
  BY MarksGrow DEF SoloInv, TypeInv
<1> QED
  BY <1>1, <1>2, <1>3, HistoryTurn, HistoryOther DEF Next

(* Unless turns overlap, no step drops what a turn committed or /resume    *)
(* loaded, although a turn commits a copy it took when it began, and the   *)
(* transcript written on TurnComplete contains the turn (run_turn_inner,   *)
(* do_resume_from_path, run_app).                                          *)
THEOREM CommittedTurnsAreKept == Spec => HistoryIsKept
<1> DEFINE Kept == \/ "overlap" \in marks'
                   \/ /\ Extends(history, history') \/ history' = <<Resumed>>
                      /\ \A w \in Worker :
                           HandleComplete(w) => \E i \in DOMAIN saved' : saved'[i] = w
<1>1. SoloInv /\ HistoryInv /\ [Next]_vars => [Kept]_vars
  <2> SUFFICES ASSUME SoloInv, HistoryInv, Next, "overlap" \notin marks'
               PROVE  Kept
    OBVIOUS
  <2>1. "overlap" \notin marks /\ history \in Seq(Turns)
    BY MarksGrow DEF SoloInv, TypeInv, Types, HostTypes
  <2>2. Extends(history, history)
    <3>1. SubSeq(history, 1, Len(history)) = history /\ Len(history) \in Nat
      BY <2>1, SubSeqFull, LenProperties
    <3> QED
      BY <3>1 DEF Extends
  <2>3. Extends(history, history') \/ history' = <<Resumed>>
    BY <2>1, <2>2, HistoryTurn, HistoryOther DEF Next
  <2>4. ASSUME NEW w \in Worker, HandleComplete(w)
        PROVE  \E i \in DOMAIN saved' : saved'[i] = w
    <3>1. Take(w, "complete") /\ saved' = history
      BY <2>4 DEF HandleComplete
    <3>2. Sent(w, "complete")
      BY <3>1, TakeRemoves DEF SoloInv, TypeInv, Types
    <3> QED
      BY <2>1, <3>1, <3>2 DEF HistoryInv
  <2> QED
    BY <2>3, <2>4
<1>2. SoloInv /\ HistoryInv /\ [Next]_vars => HistoryInv'
  BY HistoryStep
<1> QED
  BY <1>1, <1>2, HistoryInit, SoloInvariance, PTL DEF Spec, HistoryIsKept

-----------------------------------------------------------------------------
(* A one-turn override.  While no command changes the model in between, the *)
(* host's model is that of the turn under way, and else the one on screen.  *)
Calm == marks \cap {"overlap", "use", "change"} = {}
Chosen(w) == IF taken[w] = NoModel THEN original[w] ELSE taken[w]
Applied(w) == pc[w] \in InTurn \cup {"snapshot", "returned"}
OverrideInv ==
  Calm =>
    /\ choosing = NoModel
    /\ \A w \in Worker :
         /\ kind[w] = "prompt" => original[w] = shown
         /\ Applied(w) => hostModel = Chosen(w)
         /\ decision[w].model # NoModel => decision[w].model = Chosen(w)
    /\ (\A w \in Worker : ~Applied(w)) => hostModel = shown

LEMMA OverrideTurn ==
  ASSUME SoloInv, OverrideInv, Calm, NEW w \in Worker, Turn(w)
  PROVE  OverrideInv'
<1>0. Types /\ ControlInv
  BY DEF SoloInv, TypeInv
<1>1. /\ choosing' = choosing /\ shown' = shown /\ kind' = kind
      /\ original' = original /\ taken' = taken
      /\ \A v \in Worker \ {w} : pc'[v] = pc[v] /\ decision'[v] = decision[v]
  BY <1>0, TurnMoves DEF loopVars, uiVars
<1>2. /\ choosing = NoModel
      /\ \A v \in Worker :
           /\ kind[v] = "prompt" => original[v] = shown
           /\ Applied(v) => hostModel = Chosen(v)
           /\ decision[v].model # NoModel => decision[v].model = Chosen(v)
      /\ (\A v \in Worker : ~Applied(v)) => hostModel = shown
  BY DEF OverrideInv
<1>3. \A v \in Worker : v # w => ~Applied(v)
  BY Alone DEF Alive, Applied, InTurn, Calm
<1>4. \A v \in Worker : /\ Chosen(v)' = Chosen(v)
                        /\ v # w => ~Applied(v)'
  BY <1>1, <1>3 DEF Chosen, Applied
<1>5. /\ pc \in [Worker -> Pcs]
      /\ kind[w] = "prompt" \/ pc[w] = "bash"
      /\ decision \in [Worker -> [provider : Provider \cup {NoModel},
                                  model : Model \cup {NoModel}]]
  BY <1>0, TurnMoves DEF Types, TaskTypes, ControlInv, Stands
<1>6. /\ Applied(w)' => hostModel' = Chosen(w)
      /\ ~Applied(w)' => hostModel' = shown
  <2>1. CASE ApplyOverride(w)
    <3>1. hostModel = shown /\ original[w] = shown
      BY <1>2, <1>3, <1>5, <2>1 DEF ApplyOverride, Applied, InTurn
    <3>2. hostModel' = Chosen(w)
      BY <2>1, <3>1 DEF ApplyOverride, Chosen
    <3>3. Applied(w)'
      BY <1>5, <2>1 DEF ApplyOverride, Goto, Applied
    <3> QED
      BY <3>2, <3>3
  <2>2. CASE Restore(w)
    <3>1. hostModel = Chosen(w) /\ original[w] = shown
      BY <1>2, <1>5, <2>2 DEF Restore, Applied
    <3>2. hostModel' = shown
      BY <2>2, <3>1 DEF Restore, Chosen
    <3>3. ~Applied(w)'
      BY <1>5, <2>2 DEF Restore, Goto, Applied, InTurn
    <3> QED
      BY <3>2, <3>3
  <2>3. ASSUME ~ApplyOverride(w), ~Restore(w)
        PROVE  hostModel' = hostModel /\ (Applied(w)' <=> Applied(w))
    <3>1. hostModel' = hostModel
      BY <2>3
      DEF Turn, TakeSnapshot, ReadProvider, ReadModel, LoopLimit, Iterate,
          ReplyError, ReplyTools, ToolEnds, Commit, SendComplete, ObserveCancel,
          ObserveAbort, DetachedEnds, Report, BashEnds, hostVars
    <3>2. CASE TakeSnapshot(w) \/ ReadProvider(w) \/ ReadModel(w)
               \/ LoopLimit(w) \/ Iterate(w) \/ ReplyError(w) \/ ReplyTools(w)
               \/ ToolEnds(w)
      BY <1>5, <3>1, <3>2
      DEF TakeSnapshot, ReadProvider, ReadModel, LoopLimit, Iterate, ReplyError,
          ReplyTools, ToolEnds, Goto, Return, Applied, InTurn
    <3>3. CASE Commit(w) \/ SendComplete(w) \/ ObserveCancel(w) \/ ObserveAbort(w)
      BY <1>5, <3>1, <3>3
      DEF Commit, SendComplete, ObserveCancel, ObserveAbort, Goto, Return,
          Applied, InTurn
    <3>4. CASE DetachedEnds(w)
      BY <3>1, <3>4 DEF DetachedEnds, Applied
    <3>5. CASE Report(w) \/ BashEnds(w)
      <4>1. pc[w] \in {"restored", "bash"} /\ pc'[w] = "done"
        BY <1>5, <3>5 DEF Report, BashEnds, Goto
      <4> QED
        BY <3>1, <4>1 DEF Applied, InTurn
    <3> QED
      BY <2>3, <3>2, <3>3, <3>4, <3>5 DEF Turn
  <2> QED
    BY <1>2, <1>3, <2>1, <2>2, <2>3
<1>7. decision'[w].model # NoModel => decision'[w].model = Chosen(w)
  <2>1. CASE ReadModel(w)
    <3>1. hostModel = Chosen(w)
      BY <1>2, <2>1 DEF ReadModel, Applied, InTurn
    <3>2. decision'[w].model = hostModel
      BY <1>5, <2>1 DEF ReadModel
    <3> QED
      BY <3>1, <3>2
  <2>2. CASE ReadProvider(w)
    <3>1. decision'[w].model = decision[w].model
      BY <1>5, <2>2 DEF ReadProvider
    <3> QED
      BY <1>2, <3>1
  <2>3. ASSUME ~ReadModel(w), ~ReadProvider(w) PROVE decision' = decision
    BY <2>3
    DEF Turn, ApplyOverride, TakeSnapshot, LoopLimit, Iterate, ReplyError,
        ReplyTools, ToolEnds, Commit, SendComplete, ObserveCancel, ObserveAbort,
        DetachedEnds, Restore, Report, BashEnds
  <2> QED
    BY <1>2, <2>1, <2>2, <2>3
<1>8. ASSUME NEW v \in Worker
      PROVE  /\ kind'[v] = "prompt" => original'[v] = shown'
             /\ Applied(v)' => hostModel' = Chosen(v)'
             /\ decision'[v].model # NoModel => decision'[v].model = Chosen(v)'
  BY <1>1, <1>2, <1>4, <1>6, <1>7
<1> QED
  BY <1>1, <1>2, <1>6, <1>8 DEF OverrideInv

LEMMA OverrideOther ==
  ASSUME SoloInv, OverrideInv, Calm',
         User \/ GraceExpires \/ \E w \in Worker : Handle(w)
  PROVE  OverrideInv'
<1>0. Types /\ ControlInv /\ Calm /\ "overlap" \notin marks'
  BY MarksGrow DEF SoloInv, TypeInv, Calm, Next
<1>1. /\ choosing = NoModel
      /\ \A v \in Worker :
           /\ kind[v] = "prompt" => original[v] = shown
           /\ Applied(v) => hostModel = Chosen(v)
           /\ decision[v].model # NoModel => decision[v].model = Chosen(v)
      /\ (\A v \in Worker : ~Applied(v)) => hostModel = shown
  BY <1>0 DEF OverrideInv
<1>2. ASSUME UNCHANGED <<choosing, shown, kind, original, taken, pc, decision,
                         hostModel>>
      PROVE  OverrideInv'
  BY <1>0, <1>2 DEF OverrideInv, Applied, Chosen
<1>3. ASSUME NEW w \in Worker, Handle(w) PROVE OverrideInv'
  <2>1. UNCHANGED <<choosing, kind, original, taken, pc, decision, hostModel>>
    BY <1>3, HandleTakes DEF hostVars, taskVars
  <2>2. shown' = shown
    <3>1. CASE HandleRestored(w)
      <4>1. Sent(w, "restored")
        BY <1>0, <3>1, TakeRemoves DEF HandleRestored, Types
      <4>2. original[w] = shown
        BY <1>0, <1>1, <4>1 DEF ControlInv, Stands
      <4> QED
        BY <3>1, <4>2 DEF HandleRestored
    <3>2. ASSUME ~HandleRestored(w) PROVE shown' = shown
      BY <1>3, <3>2
      DEF Handle, HandleRoute, HandleFirst, HandleNext, HandleDelta,
          HandleToolStart, HandleToolEnd, HandleComplete, HandleStopped,
          HandleError, HandleBashDone, loopVars, uiVars
    <3> QED
      BY <3>1, <3>2
  <2> QED
    BY <1>2, <2>1, <2>2
<1>4. CASE GraceExpires
  BY <1>0, <1>2, <1>4, GraceSends DEF loopVars, uiVars, hostVars
<1>5. ASSUME NEW w \in Worker, Submit(w) \/ SubmitBash(w) PROVE OverrideInv'
  <2>1. \A v \in Worker : ~Alive(v) /\ ~Applied(v)
    BY <1>0, <1>5, StartsAlone DEF Alive, Applied, InTurn
  <2>2. hostModel = shown
    BY <1>1, <2>1
  <2>3. /\ hostModel' = hostModel /\ shown' = shown /\ choosing' = choosing
        /\ decision' = decision /\ pc[w] = "idle"
        /\ \A v \in Worker : pc'[v] = IF v = w THEN pc'[w] ELSE pc[v]
        /\ pc'[w] \in {"apply", "bash"}
        /\ \A v \in Worker \ {w} : /\ kind'[v] = kind[v] /\ original'[v] = original[v]
                                   /\ taken'[v] = taken[v]
        /\ kind'[w] = "prompt" => original'[w] = shown
    BY <1>0, <1>5 DEF Submit, SubmitBash, Spawn, Goto, uiVars, hostVars, Types,
                      TaskTypes
  <2>4. decision[w].model = NoModel
    BY <1>0, <2>3 DEF ControlInv, Stands, NoRoute
  <2>5. \A v \in Worker : ~Applied(v)'
    BY <2>1, <2>3 DEF Applied, InTurn
  <2>6. ASSUME NEW v \in Worker
        PROVE  /\ kind'[v] = "prompt" => original'[v] = shown'
               /\ decision'[v].model # NoModel => decision'[v].model = Chosen(v)'
    <3>1. CASE v = w
      BY <2>3, <2>4, <3>1
    <3>2. CASE v # w
      BY <1>1, <2>3, <3>2 DEF Chosen
    <3> QED
      BY <3>1, <3>2
  <2> QED
    BY <1>1, <2>2, <2>3, <2>5, <2>6 DEF OverrideInv
<1>6. ASSUME SubmitBlocked \/ Resume \/ Quit \/ \E m \in Model : SetOverride(m)
      PROVE  OverrideInv'
  BY <1>2, <1>6 DEF SubmitBlocked, Resume, Quit, SetOverride, uiVars, hostVars,
                    taskVars
<1>7. CASE SetModel
  BY <1>1, <1>7 DEF SetModel
<1>8. ASSUME (\E m \in Model : ChangeModel(m)) \/ \E p \in Provider : Use(p)
      PROVE  FALSE
  BY <1>8 DEF ChangeModel, Use, Mark, Calm
<1> QED
  BY <1>3, <1>4, <1>5, <1>6, <1>7, <1>8 DEF User

LEMMA OverrideInit == Init => OverrideInv
  BY DEF Init, OverrideInv, Applied, InTurn, NoRoute

LEMMA OverrideStep ==
  ASSUME SoloInv, OverrideInv, [Next]_vars
  PROVE  OverrideInv'
<1>1. CASE UNCHANGED vars
  BY <1>1 DEF OverrideInv, Calm, Applied, Chosen, vars, loopVars, uiVars,
              hostVars, taskVars
<1>2. CASE ~Calm'
  BY <1>2 DEF OverrideInv
<1>3. Calm' => Calm
  BY MarksGrow DEF SoloInv, TypeInv, Calm
<1> QED
  BY <1>1, <1>2, <1>3, OverrideTurn, OverrideOther DEF Next

(* A one-turn override is used by the turn it was given for and by no      *)
(* other, and the host's model is the one on the screen when nothing is    *)
(* under way, whether turns succeed, fail, are cancelled or aborted (the   *)
(* worker of run_app, Host::run_turn_inner).                               *)
THEOREM OverridesLastOneTurn == Spec => []OverrideIsForOneTurn
<1>1. OverrideInv => OverrideIsForOneTurn
  BY DEF OverrideInv, OverrideIsForOneTurn, Calm, Chosen, Quiet, Applied, InTurn,
         Alive
<1>2. SoloInv /\ OverrideInv /\ [Next]_vars => OverrideInv'
  BY OverrideStep
<1> QED
  BY <1>1, <1>2, OverrideInit, SoloInvariance, PTL DEF Spec

-----------------------------------------------------------------------------
(* While a turn may still commit, none of the messages that lower          *)
(* is_loading is on its way.                                               *)
Ends == {"complete", "cancelled", "aborted"}
IdleInv ==
  Undisturbed => \A w \in Worker : MayCommit(w) =>
    loading /\ \A k \in Ends \cup {"error", "bashDone"} : ~Sent(w, k)

LEMMA CommittersLive ==
  ASSUME Types, NEW w \in Worker, MayCommit(w)
  PROVE  Alive(w)
  BY DEF MayCommit, Alive

(* Under way and undisturbed, a notice goes to the turn whose call it ends. *)
LEMMA GraceStops ==
  ASSUME Types, ControlInv, GraceExpires, Undisturbed'
  PROVE  \/ UNCHANGED inbox
         \/ \E w \in Worker : /\ slot = w /\ Post(w, "aborted")
                              /\ call[w] = "running" /\ call'[w] = "gone"
<1>1. PICK w \in Worker \cup {Nobody}, sent \in BOOLEAN :
        /\ w # Nobody => call[w] = "running"
        /\ call' = IF w = Nobody THEN call ELSE [call EXCEPT ![w] = "gone"]
        /\ sent => slot # Nobody
        /\ IF sent THEN Post(slot, "aborted") ELSE UNCHANGED inbox
        /\ Mark(IF sent /\ w # slot THEN {"notice"} ELSE {})
  BY DEF GraceExpires
<1>2. CASE ~sent
  BY <1>1, <1>2
<1>3. CASE sent
  <2>1. w = slot /\ slot \in Worker
    BY <1>1, <1>3 DEF Mark, Undisturbed, Types, HostTypes
  <2>2. call'[w] = "gone"
    BY <1>1, <1>3, <2>1 DEF Types, TaskTypes
  <2> QED
    BY <1>1, <1>3, <2>1, <2>2
<1> QED
  BY <1>2, <1>3

LEMMA IdleTurn ==
  ASSUME SoloInv, IdleInv, Undisturbed, NEW w \in Worker, Turn(w)
  PROVE  IdleInv'
<1>0. Types /\ ControlInv /\ BoxTypes
  BY DEF SoloInv, TypeInv, Types
<1>1. loading' = loading
  BY <1>0, TurnMoves DEF loopVars
<1>2. ASSUME NEW v \in Worker, v # w PROVE ~MayCommit(v)'
  <2>1. ~Alive(v)
    BY <1>2, Alone DEF Undisturbed
  <2>2. pc'[v] = pc[v] /\ call'[v] = call[v]
    BY <1>0, <1>2, TurnMoves
  <2> QED
    BY <2>1, <2>2 DEF MayCommit, Alive
<1>3. ASSUME MayCommit(w)'
      PROVE  loading' /\ \A k \in Ends \cup {"error", "bashDone"} : ~Sent(w, k)'
  <2>0. pc \in [Worker -> Pcs]
        /\ call \in [Worker -> {"none", "running", "detached", "gone"}]
        /\ (pc[w] = "bash" => kind[w] = "bash")
        /\ (call[w] = "detached" => pc[w] = "returned")
    BY <1>0 DEF Types, TaskTypes, ControlInv, Stands
  <2>1. MayCommit(w) /\ ~SendComplete(w) /\ ~ObserveCancel(w) /\ ~Report(w)
        /\ ~BashEnds(w)
    <3>1. ~SendComplete(w) /\ ~ObserveCancel(w) /\ ~Report(w) /\ ~BashEnds(w)
      <4>1. SendComplete(w) \/ ObserveCancel(w) => pc'[w] = "returned"
        BY <2>0 DEF SendComplete, ObserveCancel, Return, Goto
      <4>2. Report(w) \/ BashEnds(w) => pc'[w] = "done"
        BY <2>0 DEF Report, BashEnds, Goto
      <4> QED
        BY <1>3, <4>1, <4>2 DEF MayCommit
    <3>2. CASE ApplyOverride(w) \/ TakeSnapshot(w) \/ ReadProvider(w)
               \/ ReadModel(w) \/ Iterate(w) \/ ToolEnds(w)
      <4>1. pc[w] \in {"apply", "snapshot", "provider", "model", "top", "tool"}
        BY <3>2 DEF ApplyOverride, TakeSnapshot, ReadProvider, ReadModel, Iterate,
                    ToolEnds
      <4> QED
        BY <3>1, <4>1 DEF MayCommit
    <3>3. CASE ReplyTools(w)
      <4>1. pc[w] = "racing" /\ call[w] = "running"
        BY <3>3 DEF ReplyTools
      <4> QED
        BY <3>1, <4>1 DEF MayCommit
    <3>4. CASE LoopLimit(w) \/ ReplyError(w) \/ SendComplete(w)
               \/ ObserveCancel(w) \/ ObserveAbort(w)
      <4>1. pc'[w] = "returned"
        BY <2>0, <3>4 DEF LoopLimit, ReplyError, SendComplete, ObserveCancel,
                          ObserveAbort, Return, Goto
      <4> QED
        BY <1>3, <4>1 DEF MayCommit
    <3>5. CASE Commit(w) \/ Restore(w) \/ Report(w) \/ BashEnds(w)
      <4>1. pc'[w] \in {"answered", "restored", "done"}
        BY <2>0, <3>5 DEF Commit, Restore, Report, BashEnds, Goto
      <4> QED
        BY <1>3, <4>1 DEF MayCommit
    <3>6. CASE DetachedEnds(w)
      <4>1. pc'[w] = "returned"
        BY <2>0, <3>6 DEF DetachedEnds
      <4> QED
        BY <1>3, <4>1 DEF MayCommit
    <3> QED
      BY <3>1, <3>2, <3>3, <3>4, <3>5, <3>6 DEF Turn
  <2>2. loading /\ \A k \in Ends \cup {"error", "bashDone"} : ~Sent(w, k)
    BY <2>1 DEF IdleInv
  <2>3. \A k \in Ends \cup {"error", "bashDone"} : ~Sent(w, k)'
    BY <1>0, <2>1, <2>2, TurnSends DEF Ends
  <2> QED
    BY <1>1, <2>2, <2>3
<1> QED
  BY <1>2, <1>3 DEF IdleInv

LEMMA IdleOther ==
  ASSUME SoloInv, IdleInv, Undisturbed',
         User \/ GraceExpires \/ \E w \in Worker : Handle(w)
  PROVE  IdleInv'
<1>0. Types /\ ControlInv /\ BoxTypes /\ Undisturbed /\ "overlap" \notin marks'
  BY MarksGrow DEF SoloInv, TypeInv, Types, Undisturbed, Next
<1>1. \A w \in Worker : MayCommit(w) =>
        loading /\ \A k \in Ends \cup {"error", "bashDone"} : ~Sent(w, k)
  BY <1>0 DEF IdleInv
<1>2. ASSUME NEW w \in Worker, Handle(w) PROVE IdleInv'
  <2>1. pc' = pc /\ call' = call
    BY <1>2, HandleTakes DEF taskVars
  <2>2. \A v, k : Sent(v, k)' => Sent(v, k)
    BY <1>0, <1>2, HandleTakes, TakeSends
  <2>3. ASSUME NEW v \in Worker, MayCommit(v) PROVE loading'
    <3>1. v = w
      BY <1>0, <1>2, <2>3, Alone, CommittersLive DEF Undisturbed
    <3>2. ASSUME NEW k \in Ends \cup {"error", "bashDone"}, Take(w, k) PROVE FALSE
      BY <1>0, <1>1, <2>3, <3>1, <3>2, TakeRemoves
    <3>3. UNCHANGED loading
      BY <1>2, <3>2
      DEF Handle, HandleRoute, HandleFirst, HandleNext, HandleDelta,
          HandleToolStart, HandleToolEnd, HandleComplete, HandleStopped,
          HandleError, HandleRestored, HandleBashDone, loopVars, Ends
    <3> QED
      BY <1>1, <2>3, <3>3
  <2> QED
    BY <1>1, <2>1, <2>2, <2>3 DEF IdleInv, MayCommit
<1>3. CASE GraceExpires
  <2>1. pc' = pc /\ loading' = loading
        /\ \A v \in Worker : call'[v] = call[v] \/ call'[v] = "gone"
    BY <1>0, <1>3, GraceSends DEF loopVars
  <2>2. \A v \in Worker : MayCommit(v)' => MayCommit(v)
    BY <2>1 DEF MayCommit
  <2>3. CASE UNCHANGED inbox
    BY <1>1, <2>1, <2>2, <2>3 DEF IdleInv, Sent
  <2>4. ASSUME NEW w \in Worker, slot = w, Post(w, "aborted"), call[w] = "running",
               call'[w] = "gone"
        PROVE  IdleInv'
    <3>1. "aborted" \in Kinds /\ ~MayCommit(w)'
      BY <1>0, <2>1, <2>4 DEF Kinds, MayCommit, ControlInv, Stands
    <3>2. Grown(inbox, inbox', w)
      BY <1>0, <2>4, <3>1, PostAdds
    <3>3. \A v, k : v # w /\ Sent(v, k)' => Sent(v, k)
      BY <1>0, <3>2, GrownSends
    <3> QED
      BY <1>1, <2>1, <2>2, <3>1, <3>3 DEF IdleInv
  <2> QED
    BY <1>0, <1>3, <2>3, <2>4, GraceStops
<1>4. ASSUME NEW w \in Worker, Submit(w) \/ SubmitBash(w) PROVE IdleInv'
  <2>1. \A v \in Worker : ~Alive(v)
    BY <1>0, <1>4, StartsAlone
  <2>2. loading' /\ UNCHANGED <<inbox, call>>
        /\ \A v \in Worker : v # w => pc'[v] = pc[v]
    BY <1>0, <1>4 DEF Submit, SubmitBash, Goto, Types, TaskTypes
  <2>3. \A v \in Worker : \A k : ~Sent(v, k)'
    BY <2>1, <2>2, SentIsAlive DEF Sent
  <2> QED
    BY <2>2, <2>3 DEF IdleInv
<1>5. ASSUME User, ~\E w \in Worker : Submit(w) \/ SubmitBash(w) PROVE IdleInv'
  <2>1. UNCHANGED <<inbox, pc, call, loading>>
    BY <1>5 DEF User, SubmitBlocked, SetModel, Resume, Quit, ChangeModel,
                SetOverride, Use, taskVars
  <2> QED
    BY <1>1, <2>1 DEF IdleInv, MayCommit, Sent
<1> QED
  BY <1>2, <1>3, <1>4, <1>5

LEMMA IdleInit == Init => IdleInv
  BY DEF Init, IdleInv, MayCommit

LEMMA IdleStep ==
  ASSUME SoloInv, IdleInv, [Next]_vars
  PROVE  IdleInv'
<1>1. CASE UNCHANGED vars
  BY <1>1 DEF IdleInv, Undisturbed, MayCommit, Sent, vars, loopVars, taskVars
<1>2. CASE ~Undisturbed'
  BY <1>2 DEF IdleInv
<1>3. Undisturbed' => Undisturbed
  BY MarksGrow DEF SoloInv, TypeInv, Undisturbed
<1> QED
  BY <1>1, <1>2, <1>3, IdleTurn, IdleOther DEF Next

(* Unless turns overlap or a notice went to another turn than the one it   *)
(* is about, is_loading is up as long as a turn may still add to the       *)
(* conversation (run_app).                                                 *)
THEOREM LoadingGuardsTurns == Spec => []IdleMeansNoTurn
<1>1. IdleInv => IdleMeansNoTurn
  BY DEF IdleInv, IdleMeansNoTurn
<1>2. SoloInv /\ IdleInv /\ [Next]_vars => IdleInv'
  BY IdleStep
<1> QED
  BY <1>1, <1>2, IdleInit, SoloInvariance, PTL DEF Spec

-----------------------------------------------------------------------------
(* One truthful frame for each prompt.  A prompt's frame opens with its     *)
(* first iteration and closes with the first message that ends the turn;    *)
(* the queue holds one such message at most, after "first" and before the   *)
(* error that is reported last.                                             *)
Special == Ends \cup {"first", "error"}
From(i, w, K) == inbox[i].from = w /\ inbox[i].kind \in K
OrderOK(w) ==
  /\ \A i, j \in DOMAIN inbox : From(i, w, Ends) /\ From(j, w, Ends) => i = j
  /\ \A i, j \in DOMAIN inbox : From(i, w, {"first"}) /\ From(j, w, Special) => i <= j
  /\ \A i, j \in DOMAIN inbox : From(i, w, {"error"}) /\ inbox[j].from = w => j <= i

Framed(w) == \E i \in DOMAIN closed : closed[i].by = w
Mentions(i, w) == w \in {closed[i].by, closed[i].ender}
Ending(w) == Framed(w) \/ \E k \in Ends : Sent(w, k)

(* What the worker has said about its turn. *)
Reports(w) ==
  /\ pc[w] \in {"returned", "restored", "done"} => result[w] \in {"ok", "err"}
  /\ pc[w] \notin {"returned", "restored", "done"} => result[w] = "none"
  /\ Ending(w) => /\ pc[w] \in {"racing", "returned", "restored", "done"}
                  /\ pc[w] = "racing" => call[w] = "gone"
  /\ result[w] = "ok" => Framed(w) \/ Sent(w, "complete")
  /\ Sent(w, "complete") => result[w] = "ok"
  /\ Sent(w, "cancelled") \/ Sent(w, "aborted") => result[w] # "ok"
  /\ Sent(w, "error") => pc[w] = "done" /\ result[w] = "err"
  /\ pc[w] = "done" /\ result[w] = "err" => Framed(w) \/ Sent(w, "error")
  /\ iter[w] = 0 => ~Sent(w, "first")

(* What the loop knows of the turn under way. *)
Stage(w) ==
  IF Framed(w)
  THEN /\ seen /\ currentTurn = None /\ pendingTurn = None
       /\ \A k \in Ends \cup {"first"} : ~Sent(w, k)
       /\ iter[w] > 0
  ELSE /\ ~seen
       /\ currentTurn = None => /\ pendingTurn # None
                                /\ iter[w] > 0 => Sent(w, "first")
       /\ currentTurn # None => /\ pendingTurn = None /\ opened.by = w
                                /\ ~Sent(w, "first") /\ iter[w] > 0

Owned(w) ==
  \A i \in DOMAIN closed : Mentions(i, w) =>
    /\ closed[i].by = w /\ closed[i].ender = w
    /\ closed[i].ok = (result[w] = "ok")
    /\ \A j \in DOMAIN closed : Mentions(j, w) => j = i

Truth(w) ==
  /\ kind[w] = "prompt" => OrderOK(w) /\ Reports(w) /\ Owned(w)
  /\ kind[w] = "prompt" /\ Alive(w) => Stage(w)
  /\ kind[w] = "bash" => \A k \in Ends \cup {"first"} : ~Sent(w, k)
  /\ pc[w] = "idle" => /\ result[w] = "none"
                       /\ \A i \in DOMAIN closed : ~Mentions(i, w)

NoPrompt == \A w \in Worker : kind[w] = "prompt" => ~Alive(w)
TruthInv ==
  Undisturbed /\ ~quit =>
    /\ strays = {}
    /\ NoPrompt => currentTurn = None /\ pendingTurn = None
    /\ \A w \in Worker : Truth(w)

(* Order of the messages of one worker. *)
LEMMA OrderPlain ==
  ASSUME BoxTypes, NEW w \in Worker, OrderOK(w), Grown(inbox, inbox', w),
         ~Sent(w, "error"),
         \A i \in DOMAIN inbox' : inbox'[i].kind \in Special => i \in DOMAIN inbox
  PROVE  OrderOK(w)'
<1>1. /\ DOMAIN inbox = 1..Len(inbox) /\ DOMAIN inbox' = 1..Len(inbox')
      /\ Len(inbox) \in Nat /\ Len(inbox') \in Nat
      /\ \A i \in DOMAIN inbox : inbox'[i] = inbox[i]
  BY LenProperties DEF BoxTypes, Grown
<1>2. \A i \in DOMAIN inbox : ~From(i, w, {"error"})
  <2>1. \A i \in DOMAIN inbox : inbox[i] \in Messages
    BY LenProperties, ElementOfSeq DEF BoxTypes
  <2>2. \A i \in DOMAIN inbox : inbox[i].from = w /\ inbox[i].kind = "error"
                                => inbox[i] = Message(w, "error")
    BY <2>1 DEF Messages, Message
  <2> QED
    BY <2>2 DEF From, Sent
<1>3. \A i \in DOMAIN inbox' : inbox'[i].kind \in Special =>
        i \in DOMAIN inbox /\ inbox'[i] = inbox[i]
  BY <1>1
<1>4. \A i, j \in DOMAIN inbox' : From(i, w, Ends)' /\ From(j, w, Ends)' => i = j
  BY <1>3 DEF OrderOK, From, Special
<1>5. \A i, j \in DOMAIN inbox' :
        From(i, w, {"first"})' /\ From(j, w, Special)' => i <= j
  BY <1>3 DEF OrderOK, From, Special
<1>6. \A i \in DOMAIN inbox' : ~From(i, w, {"error"})'
  BY <1>2, <1>3 DEF From, Special
<1> QED
  BY <1>4, <1>5, <1>6 DEF OrderOK

LEMMA SentWhere ==
  ASSUME BoxTypes, NEW w \in Worker, NEW i \in DOMAIN inbox, inbox[i].from = w
  PROVE  Sent(w, inbox[i].kind)
<1>1. inbox[i] \in Messages
  BY LenProperties, ElementOfSeq DEF BoxTypes
<1>2. inbox[i] = Message(w, inbox[i].kind)
  BY <1>1 DEF Messages, Message
<1> QED
  BY <1>2 DEF Sent

LEMMA OrderPost ==
  ASSUME BoxTypes, NEW w \in Worker, OrderOK(w), NEW k \in Special \cap Kinds,
         Post(w, k), ~Sent(w, "error"),
         k \in Ends => \A j \in Ends : ~Sent(w, j),
         k = "first" => \A j \in Special : ~Sent(w, j)
  PROVE  OrderOK(w)'
<1>1. /\ DOMAIN inbox = 1..Len(inbox) /\ DOMAIN inbox' = 1..(Len(inbox) + 1)
      /\ Len(inbox) \in Nat
      /\ \A i \in 1..Len(inbox) : inbox'[i] = inbox[i]
      /\ inbox'[Len(inbox) + 1] = Message(w, k)
  BY PostAdds
<1> DEFINE n == Len(inbox) + 1
<1>2. /\ \A i \in DOMAIN inbox' : i = n \/ (i \in DOMAIN inbox /\ i < n
                                           /\ inbox'[i] = inbox[i])
      /\ inbox'[n].kind = k /\ inbox'[n].from = w
  BY <1>1 DEF Message
<1>3. \A i \in DOMAIN inbox : \A K : From(i, w, K) => \E j \in K : Sent(w, j)
  BY SentWhere DEF From
<1>4. "first" \notin Ends /\ "error" \notin Ends /\ "first" \in Special
      /\ Ends \subseteq Special
  BY DEF Ends, Special
<1> HIDE DEF n
<1>5. ASSUME NEW i \in DOMAIN inbox', NEW j \in DOMAIN inbox',
             From(i, w, Ends)', From(j, w, Ends)'
      PROVE  i = j
  <2>1. CASE k \in Ends
    <3>1. \A l \in DOMAIN inbox : ~From(l, w, Ends)
      BY <1>3, <2>1
    <3> QED
      BY <1>2, <1>5, <3>1 DEF From
  <2>2. CASE k \notin Ends
    <3>1. i # n /\ j # n
      BY <1>2, <1>5, <2>2 DEF From
    <3> QED
      BY <1>2, <1>5, <3>1 DEF From, OrderOK
  <2> QED
    BY <2>1, <2>2
<1>6. ASSUME NEW i \in DOMAIN inbox', NEW j \in DOMAIN inbox',
             From(i, w, {"first"})', From(j, w, Special)'
      PROVE  i <= j
  <2>1. CASE i = n
    <3>1. k = "first"
      BY <1>2, <1>6, <2>1 DEF From
    <3>2. \A l \in DOMAIN inbox : ~From(l, w, Special)
      BY <1>3, <3>1
    <3>3. j = n
      BY <1>2, <1>6, <3>2 DEF From
    <3> QED
      BY <1>1, <2>1, <3>3 DEF n
  <2>2. CASE i # n
    <3>1. i \in DOMAIN inbox /\ i < n /\ From(i, w, {"first"})
      BY <1>2, <1>6, <2>2 DEF From
    <3>2. CASE j = n
      BY <1>1, <3>1, <3>2 DEF n
    <3>3. CASE j # n
      <4>1. j \in DOMAIN inbox /\ From(j, w, Special)
        BY <1>2, <1>6, <3>3 DEF From
      <4> QED
        BY <3>1, <4>1 DEF OrderOK
    <3> QED
      BY <3>2, <3>3
  <2> QED
    BY <2>1, <2>2
<1>7. ASSUME NEW i \in DOMAIN inbox', NEW j \in DOMAIN inbox',
             From(i, w, {"error"})', inbox'[j].from = w
      PROVE  j <= i
  <2>1. i = n
    <3>1. \A l \in DOMAIN inbox : ~From(l, w, {"error"})
      BY <1>3
    <3> QED
      BY <1>2, <1>7, <3>1 DEF From
  <2> QED
    BY <1>1, <2>1 DEF n
<1> QED
  BY <1>5, <1>6, <1>7 DEF OrderOK

LEMMA OrderTake ==
  ASSUME BoxTypes, NEW w \in Worker, NEW k, Take(w, k), NEW v \in Worker, OrderOK(v)
  PROVE  OrderOK(v)'
<1>1. /\ DOMAIN inbox = 1..Len(inbox) /\ DOMAIN inbox' = 1..(Len(inbox) - 1)
      /\ Len(inbox) \in Nat \ {0}
      /\ \A i \in 1..(Len(inbox) - 1) : inbox'[i] = inbox[i + 1]
  BY TakeRemoves
<1>2. \A i \in DOMAIN inbox' : /\ i + 1 \in DOMAIN inbox /\ i \in Int
                               /\ inbox'[i] = inbox[i + 1]
  BY <1>1
<1>3. \A i, j \in Int : (i + 1 = j + 1 => i = j) /\ (i + 1 <= j + 1 => i <= j)
  OBVIOUS
<1>4. \A i \in DOMAIN inbox' : \A K : From(i, v, K)' => From(i + 1, v, K)
  BY <1>2 DEF From
<1>5. \A i, j \in DOMAIN inbox' : From(i, v, Ends)' /\ From(j, v, Ends)' => i = j
  BY <1>2, <1>3, <1>4 DEF OrderOK
<1>6. \A i, j \in DOMAIN inbox' :
        From(i, v, {"first"})' /\ From(j, v, Special)' => i <= j
  BY <1>2, <1>3, <1>4 DEF OrderOK
<1>7. \A i, j \in DOMAIN inbox' :
        From(i, v, {"error"})' /\ inbox'[j].from = v => j <= i
  BY <1>2, <1>3, <1>4 DEF OrderOK
<1> QED
  BY <1>5, <1>6, <1>7 DEF OrderOK

(* What the order says about the message that the loop takes. *)
LEMMA TakeInOrder ==
  ASSUME BoxTypes, NEW w \in Worker, NEW k, Take(w, k), OrderOK(w)
  PROVE  /\ k \in Ends => \A j \in Ends : ~Sent(w, j)'
         /\ k \in Special \ {"first"} => ~Sent(w, "first")
         /\ k = "first" => ~Sent(w, "first")'
         /\ k = "error" => ~InInbox(w)'
<1>1. /\ DOMAIN inbox = 1..Len(inbox) /\ DOMAIN inbox' = 1..(Len(inbox) - 1)
      /\ Len(inbox) \in Nat \ {0}
      /\ \A i \in 1..(Len(inbox) - 1) : inbox'[i] = inbox[i + 1]
      /\ inbox[1] = Message(w, k)
  BY TakeRemoves
<1>2. /\ 1 \in DOMAIN inbox /\ inbox[1].from = w /\ inbox[1].kind = k
      /\ \A i \in DOMAIN inbox' : /\ i + 1 \in DOMAIN inbox /\ i + 1 > 1
                                  /\ inbox'[i] = inbox[i + 1]
  BY <1>1 DEF Message
<1>3. \A j : Message(w, j).from = w /\ Message(w, j).kind = j
  BY DEF Message
<1>4. ASSUME k \in Ends, NEW j \in Ends, Sent(w, j)' PROVE FALSE
  <2>1. PICK i \in DOMAIN inbox' : inbox'[i] = Message(w, j)
    BY <1>4 DEF Sent
  <2>2. From(i + 1, w, Ends) /\ From(1, w, Ends)
    BY <1>2, <1>3, <1>4, <2>1 DEF From
  <2> QED
    BY <1>2, <2>2 DEF OrderOK
<1>5. ASSUME k \in Special \ {"first"}, Sent(w, "first") PROVE FALSE
  <2>1. PICK i \in DOMAIN inbox : inbox[i] = Message(w, "first")
    BY <1>5 DEF Sent
  <2>2. From(i, w, {"first"}) /\ From(1, w, Special)
    BY <1>2, <1>3, <1>5, <2>1 DEF From
  <2>3. i <= 1
    BY <1>2, <2>2 DEF OrderOK
  <2>4. i = 1
    BY <1>1, <2>3
  <2> QED
    BY <1>2, <1>3, <1>5, <2>1, <2>4
<1>6. ASSUME k = "first", Sent(w, "first")' PROVE FALSE
  <2>1. PICK i \in DOMAIN inbox' : inbox'[i] = Message(w, "first")
    BY <1>6 DEF Sent
  <2>2. From(i + 1, w, {"first"}) /\ From(1, w, Special)
    BY <1>2, <1>3, <1>6, <2>1 DEF From, Special
  <2>3. i + 1 <= 1
    BY <1>2, <2>2 DEF OrderOK
  <2> QED
    BY <1>1, <2>3
<1>7. ASSUME k = "error", InInbox(w)' PROVE FALSE
  <2>1. PICK i \in DOMAIN inbox' : inbox'[i].from = w
    BY <1>7 DEF InInbox
  <2>2. inbox[i + 1].from = w /\ From(1, w, {"error"})
    BY <1>2, <1>7, <2>1 DEF From
  <2>3. i + 1 <= 1
    BY <1>2, <2>2 DEF OrderOK
  <2> QED
    BY <1>1, <2>3
<1> QED
  BY <1>4, <1>5, <1>6, <1>7

(* The other steps of a worker send nothing that its frame depends on. *)
LEMMA PlainTurns ==
  ASSUME Types, NEW w \in Worker, Turn(w), ~SendComplete(w), ~ObserveCancel(w),
         ~(Iterate(w) /\ iter[w] = 0), ~(Report(w) /\ result[w] = "err"),
         ~BashEnds(w)
  PROVE  \A i \in DOMAIN inbox' : inbox'[i].kind \in Special => i \in DOMAIN inbox
<1>0. BoxTypes
  BY DEF Types
<1> DEFINE Plain == \A i \in DOMAIN inbox' : inbox'[i].kind \in Special
                                             => i \in DOMAIN inbox
<1>1. ASSUME UNCHANGED inbox PROVE Plain
  BY <1>1
<1>2. ASSUME NEW k \in Kinds \ Special, Post(w, k) PROVE Plain
  <2>1. /\ DOMAIN inbox = 1..Len(inbox) /\ DOMAIN inbox' = 1..(Len(inbox) + 1)
        /\ Len(inbox) \in Nat /\ inbox'[Len(inbox) + 1] = Message(w, k)
    BY <1>0, <1>2, PostAdds
  <2>2. inbox'[Len(inbox) + 1].kind \notin Special
    BY <2>1 DEF Message
  <2> QED
    BY <2>1, <2>2
<1>3. ASSUME NEW j \in Kinds \ Special, NEW k \in Kinds \ Special,
             inbox' = inbox \o <<Message(w, j), Message(w, k)>>
      PROVE  Plain
  <2>1. /\ DOMAIN inbox = 1..Len(inbox) /\ DOMAIN inbox' = 1..(Len(inbox) + 2)
        /\ Len(inbox) \in Nat /\ inbox'[Len(inbox) + 1] = Message(w, j)
        /\ inbox'[Len(inbox) + 2] = Message(w, k)
    BY <1>0, <1>3, TwoAreAdded
  <2>2. /\ inbox'[Len(inbox) + 1].kind \notin Special
        /\ inbox'[Len(inbox) + 2].kind \notin Special
    BY <2>1 DEF Message
  <2> QED
    BY <2>1, <2>2
<1>4. {"route", "delta", "toolEnd", "toolStart", "next", "restored"}
        \subseteq Kinds \ Special
  BY DEF Kinds, Special, Ends
<1> HIDE DEF Plain
<1>5. ASSUME ApplyOverride(w) \/ TakeSnapshot(w) \/ ReadProvider(w)
           \/ LoopLimit(w) \/ ObserveAbort(w) PROVE Plain
  BY <1>1, <1>5
  DEF ApplyOverride, TakeSnapshot, ReadProvider, LoopLimit, ObserveAbort
<1>6. ASSUME ReadModel(w) \/ ToolEnds(w) \/ ReplyError(w) \/ Commit(w)
           \/ DetachedEnds(w) PROVE Plain
  BY <1>2, <1>4, <1>6 DEF ReadModel, ToolEnds, ReplyError, Commit, DetachedEnds
<1>7. ASSUME Iterate(w) /\ iter[w] # 0 PROVE Plain
  BY <1>2, <1>4, <1>7 DEF Iterate
<1>8. ASSUME Restore(w) PROVE Plain
  BY <1>1, <1>2, <1>4, <1>8 DEF Restore
<1>9. ASSUME Report(w) /\ result[w] # "err" PROVE Plain
  BY <1>1, <1>9 DEF Report
<1>10. ASSUME ReplyTools(w) PROVE Plain
  BY <1>3, <1>4, <1>10 DEF ReplyTools, PostText
<1>11. Plain
  BY <1>5, <1>6, <1>7, <1>8, <1>9, <1>10 DEF Turn
<1> QED
  BY <1>11 DEF Plain

(* A worker that is not under way keeps its frame. *)
LEMMA DeadStay ==
  ASSUME NEW v \in Worker, Truth(v), ~Alive(v), ~Alive(v)',
         UNCHANGED <<closed>>,
         kind'[v] = kind[v], pc'[v] = pc[v], iter'[v] = iter[v],
         result'[v] = result[v]
  PROVE  Truth(v)'
<1>1. /\ \A k : ~Sent(v, k) /\ ~Sent(v, k)'
      /\ \A i \in DOMAIN inbox' : inbox'[i].from # v
      /\ pc[v] \in {"idle", "done"}
  BY DEF Alive, InInbox, Sent, Message
<1>2. (Framed(v)' <=> Framed(v)) /\ (\A i : Mentions(i, v)' <=> Mentions(i, v))
  BY DEF Framed, Mentions
<1>3. kind[v] = "prompt" => OrderOK(v)'
  BY <1>1 DEF OrderOK, From
<1>4. kind[v] = "prompt" => Reports(v)'
  BY <1>1, <1>2 DEF Truth, Reports, Ending
<1>5. kind[v] = "prompt" => Owned(v)'
  BY <1>2 DEF Truth, Owned
<1> QED
  BY <1>1, <1>2, <1>3, <1>4, <1>5 DEF Truth

LEMMA TruthTurn ==
  ASSUME SoloInv, TruthInv, Undisturbed, NEW w \in Worker, Turn(w), ~quit
  PROVE  TruthInv'
<1>0. /\ Types /\ ControlInv /\ BoxTypes /\ Stands(w) /\ "overlap" \notin marks
      /\ Grown(inbox, inbox', w)
  BY TurnGrows DEF SoloInv, TypeInv, Types, ControlInv, Undisturbed
<1>1. /\ UNCHANGED <<closed, strays, currentTurn, pendingTurn, seen, opened, quit,
                     kind, marks>>
      /\ \A v \in Worker \ {w} : /\ pc'[v] = pc[v] /\ iter'[v] = iter[v]
                                 /\ result'[v] = result[v]
  BY <1>0, TurnMoves DEF loopVars, frameVars
<1>2. /\ strays = {} /\ (NoPrompt => currentTurn = None /\ pendingTurn = None)
      /\ \A v \in Worker : Truth(v)
  BY DEF TruthInv
<1>3. Alive(w) /\ \A v \in Worker : v # w => ~Alive(v)
  BY <1>0, Alone
<1>4. \A v \in Worker : v # w => ~Alive(v)'
  <2>1. \A v \in Worker : v # w => ~InInbox(v)'
    BY <1>0, <1>3, GrownSends DEF Alive
  <2> QED
    BY <1>1, <1>3, <2>1 DEF Alive
<1>5. ASSUME NEW v \in Worker, v # w PROVE Truth(v)'
  BY <1>1, <1>2, <1>3, <1>4, <1>5, DeadStay
<1>6. /\ pc \in [Worker -> Pcs] /\ iter \in [Worker -> 0..MaxIterations]
      /\ result \in [Worker -> {"none", "ok", "err"}]
      /\ call \in [Worker -> {"none", "running", "detached", "gone"}]
      /\ MaxIterations \in Nat
  BY <1>0, ConstantsAssumption DEF Types, TaskTypes
<1>7. \A k : Sent(w, k) => Sent(w, k)'
  BY <1>0, GrownSends
<1>8. (Framed(w)' <=> Framed(w)) /\ (\A i : Mentions(i, w)' <=> Mentions(i, w))
  BY <1>1 DEF Framed, Mentions
<1>9. CASE kind[w] = "bash"
  <2>1. BashEnds(w)
    BY <1>0, <1>9
    DEF Turn, ApplyOverride, TakeSnapshot, ReadProvider, ReadModel, LoopLimit,
        Iterate, ReplyError, ReplyTools, ToolEnds, Commit, SendComplete,
        ObserveCancel, ObserveAbort, DetachedEnds, Restore, Report, Stands
  <2>2. pc'[w] = "done"
    BY <1>6, <2>1 DEF BashEnds, Goto
  <2>3. ~Iterate(w) /\ ~SendComplete(w) /\ ~ObserveCancel(w)
    BY <2>1 DEF BashEnds, Iterate, SendComplete, ObserveCancel
  <2>4. \A k \in Ends \cup {"first"} : ~Sent(w, k)'
    BY <1>0, <1>2, <1>9, <2>3, TurnSends DEF Truth, Ends
  <2>5. Truth(w)'
    BY <1>1, <1>9, <2>2, <2>4 DEF Truth
  <2>6. NoPrompt
    BY <1>3, <1>9 DEF NoPrompt
  <2> QED
    BY <1>1, <1>2, <1>5, <2>5, <2>6 DEF TruthInv
<1>10. CASE kind[w] = "prompt"
  <2>1. OrderOK(w) /\ Reports(w) /\ Owned(w) /\ Stage(w)
    BY <1>2, <1>3, <1>10 DEF Truth
  <2>2. ~Sent(w, "error") /\ pc[w] # "done" /\ ~BashEnds(w)
    <3>1. pc[w] # "done" /\ pc[w] # "bash"
      BY <1>0, <1>10, TurnMoves DEF Stands
    <3> QED
      BY <2>1, <3>1 DEF Reports, BashEnds
  <2>3. /\ Sent(w, "first")' => Sent(w, "first") \/ (Iterate(w) /\ iter[w] = 0)
        /\ Sent(w, "complete")' => Sent(w, "complete") \/ SendComplete(w)
        /\ Sent(w, "cancelled")' => Sent(w, "cancelled") \/ ObserveCancel(w)
        /\ Sent(w, "aborted")' => Sent(w, "aborted")
        /\ Sent(w, "error")' => Report(w) /\ result[w] = "err"
    BY <1>0, <2>2, TurnSends
  (* Where the steps lead. *)
  <2>4. /\ pc'[w] \notin {"returned", "restored", "done"} => result'[w] = "none"
        /\ pc'[w] \in {"returned", "restored", "done"} => result'[w] \in {"ok", "err"}
        /\ pc[w] \in {"returned", "restored"} => /\ result'[w] = result[w]
                                                 /\ pc'[w] \in {"returned", "restored", "done"}
        /\ pc[w] \notin {"returned", "restored"} /\ result'[w] = "ok" => SendComplete(w)
        /\ pc[w] = "racing" /\ call[w] = "gone" => pc'[w] = "returned"
    BY <1>0, <1>6, <2>1, <2>2
    DEF Turn, ApplyOverride, TakeSnapshot, ReadProvider, ReadModel, LoopLimit,
        Iterate, ReplyError, ReplyTools, ToolEnds, Commit, SendComplete,
        ObserveCancel, ObserveAbort, DetachedEnds, Restore, Report, Goto, Return,
        Reports, Stands
  <2>5. /\ iter'[w] \in Nat /\ iter'[w] >= iter[w]
        /\ iter[w] = 0 /\ iter'[w] > 0 => Iterate(w)
        /\ Iterate(w) => iter'[w] > 0
    BY <1>6
    DEF Turn, ApplyOverride, TakeSnapshot, ReadProvider, ReadModel, LoopLimit,
        Iterate, ReplyError, ReplyTools, ToolEnds, Commit, SendComplete,
        ObserveCancel, ObserveAbort, DetachedEnds, Restore, Report, BashEnds
  <2>6. ASSUME Ending(w)
        PROVE  /\ ~Iterate(w) /\ ~SendComplete(w) /\ ~ObserveCancel(w)
               /\ pc[w] \in {"racing", "returned", "restored"}
               /\ pc'[w] \in {"returned", "restored", "done"}
               /\ pc[w] = "racing" => call[w] = "gone"
    BY <2>1, <2>2, <2>4, <2>6 DEF Reports, Iterate, SendComplete, ObserveCancel
  <2>7. SendComplete(w) => Sent(w, "complete")' /\ result'[w] = "ok"
                           /\ pc'[w] = "returned" /\ pc[w] = "answered"
    <3>1. ASSUME SendComplete(w) PROVE Sent(w, "complete")'
      BY <1>0, <3>1, PostSends DEF SendComplete, Kinds
    <3> QED
      BY <1>6, <3>1 DEF SendComplete, Return, Goto
  <2>8. ObserveCancel(w) => result'[w] = "err" /\ pc'[w] = "returned"
                            /\ pc[w] = "racing" /\ call[w] = "running"
    BY <1>6 DEF ObserveCancel, Return, Goto
  <2>9. Report(w) => /\ pc'[w] = "done" /\ result'[w] = result[w]
                     /\ result[w] = "err" => Sent(w, "error")'
    <3>1. ASSUME Report(w), result[w] = "err" PROVE Sent(w, "error")'
      BY <1>0, <3>1, PostSends DEF Report, Kinds
    <3> QED
      BY <1>6, <3>1 DEF Report, Goto
  <2>10. Iterate(w) /\ iter[w] = 0 => Sent(w, "first")'
    <3> SUFFICES ASSUME Iterate(w), iter[w] = 0 PROVE Sent(w, "first")'
      OBVIOUS
    <3>1. Post(w, "first") /\ "first" \in Kinds
      BY DEF Iterate, Kinds
    <3> QED
      BY <1>0, <3>1, PostSends
  <2>11. pc'[w] = "done" => Report(w)
    BY <1>6, <2>2
    DEF Turn, ApplyOverride, TakeSnapshot, ReadProvider, ReadModel, LoopLimit,
        Iterate, ReplyError, ReplyTools, ToolEnds, Commit, SendComplete,
        ObserveCancel, ObserveAbort, DetachedEnds, Restore, Goto, Return
  <2>12. Ending(w)' => Ending(w) \/ SendComplete(w) \/ ObserveCancel(w)
    BY <1>8, <2>3 DEF Ending, Ends
  <2>13. Reports(w)'
    <3>1. Ending(w)' => /\ pc'[w] \in {"racing", "returned", "restored", "done"}
                        /\ pc'[w] = "racing" => call'[w] = "gone"
      BY <2>6, <2>7, <2>8, <2>12
    <3>2. result'[w] = "ok" => Framed(w)' \/ Sent(w, "complete")'
      <4>1. CASE pc[w] \in {"returned", "restored"}
        BY <1>7, <1>8, <2>1, <2>4, <4>1 DEF Reports
      <4>2. CASE pc[w] \notin {"returned", "restored"}
        BY <2>4, <2>7, <4>2
      <4> QED
        BY <4>1, <4>2
    <3>3. Sent(w, "complete")' => result'[w] = "ok"
      <4>1. CASE Sent(w, "complete")
        <5>1. result[w] = "ok" /\ pc[w] \in {"returned", "restored"}
          BY <2>1, <2>2, <4>1 DEF Reports
        <5> QED
          BY <2>4, <5>1
      <4> QED
        BY <2>3, <2>7, <4>1
    <3>4. Sent(w, "cancelled")' \/ Sent(w, "aborted")' => result'[w] # "ok"
      <4>1. CASE Sent(w, "cancelled") \/ Sent(w, "aborted")
        <5>1. Ending(w) /\ result[w] # "ok"
          BY <2>1, <4>1 DEF Reports, Ending, Ends
        <5> QED
          BY <2>4, <2>6, <5>1
      <4>2. CASE ObserveCancel(w)
        BY <2>8, <4>2
      <4> QED
        BY <2>3, <4>1, <4>2
    <3>5. Sent(w, "error")' => pc'[w] = "done" /\ result'[w] = "err"
      BY <2>3, <2>9
    <3>6. pc'[w] = "done" /\ result'[w] = "err" => Sent(w, "error")'
      BY <2>9, <2>11
    <3>7. iter'[w] = 0 => ~Sent(w, "first")'
      BY <1>6, <2>1, <2>3, <2>5 DEF Reports
    <3> QED
      BY <2>4, <3>1, <3>2, <3>3, <3>4, <3>5, <3>6, <3>7 DEF Reports
  <2>14. Owned(w)'
    <3>1. CASE Framed(w)
      <4>1. result'[w] = "ok" <=> result[w] = "ok"
        <5>1. Ending(w)
          BY <3>1 DEF Ending
        <5>2. CASE pc[w] \in {"returned", "restored"}
          BY <2>4, <5>2
        <5>3. CASE pc[w] = "racing"
          <6>1. result[w] = "none"
            BY <2>1, <5>3 DEF Reports
          <6> QED
            BY <2>4, <2>6, <5>1, <5>3, <6>1
        <5> QED
          BY <2>6, <5>1, <5>2, <5>3
      <4>2. ASSUME NEW i \in DOMAIN closed, Mentions(i, w)
            PROVE  closed[i].ok = (result'[w] = "ok")
        <5>1. closed[i].ok = (result[w] = "ok")
          BY <2>1, <4>2 DEF Owned
        <5>2. (result[w] = "ok") \in BOOLEAN /\ (result'[w] = "ok") \in BOOLEAN
          OBVIOUS
        <5> QED
          BY <4>1, <5>1, <5>2, Zenon
      <4> QED
        BY <1>1, <1>8, <2>1, <4>2 DEF Owned
    <3>2. CASE ~Framed(w)
      <4>1. \A i \in DOMAIN closed : ~Mentions(i, w)
        BY <2>1, <3>2 DEF Owned, Framed
      <4> QED
        BY <1>1, <1>8, <4>1 DEF Owned
    <3> QED
      BY <3>1, <3>2
  <2>15. Stage(w)'
    <3>1. CASE Framed(w)
      <4>1. Ending(w)
        BY <3>1 DEF Ending
      <4>2. \A k \in Ends \cup {"first"} : ~Sent(w, k)'
        BY <2>1, <2>3, <2>6, <3>1, <4>1 DEF Stage, Ends
      <4> QED
        BY <1>1, <1>6, <1>8, <2>1, <2>5, <3>1, <4>2 DEF Stage
    <3>2. CASE ~Framed(w)
      <4>1. iter[w] > 0 => iter'[w] > 0
        BY <1>6, <2>5
      <4>2. currentTurn = None => /\ pendingTurn # None
                                  /\ iter'[w] > 0 => Sent(w, "first")'
        BY <1>6, <1>7, <2>1, <2>5, <2>10, <3>2 DEF Stage
      <4>3. currentTurn # None => /\ pendingTurn = None /\ opened.by = w
                                  /\ ~Sent(w, "first")' /\ iter'[w] > 0
        <5>1. iter[w] > 0 => iter[w] # 0
          BY <1>6
        <5> QED
          BY <2>1, <2>3, <3>2, <4>1, <5>1 DEF Stage
      <4>4. ~seen
        BY <2>1, <3>2 DEF Stage
      <4> QED
        BY <1>1, <1>8, <3>2, <4>2, <4>3, <4>4 DEF Stage
    <3> QED
      BY <3>1, <3>2
  <2>16. OrderOK(w)'
    <3>1. CASE SendComplete(w)
      <4>1. Post(w, "complete") /\ "complete" \in Special \cap Kinds
        BY <3>1 DEF SendComplete, Kinds, Special, Ends
      <4>2. \A j \in Ends : ~Sent(w, j)
        BY <2>6, <3>1 DEF Ending
      <4> QED
        BY <1>0, <2>1, <2>2, <4>1, <4>2, OrderPost
    <3>2. CASE ObserveCancel(w)
      <4>1. Post(w, "cancelled") /\ "cancelled" \in Special \cap Kinds
        BY <3>2 DEF ObserveCancel, Kinds, Special, Ends
      <4>2. \A j \in Ends : ~Sent(w, j)
        BY <2>6, <3>2 DEF Ending
      <4> QED
        BY <1>0, <2>1, <2>2, <4>1, <4>2, OrderPost
    <3>3. CASE Iterate(w) /\ iter[w] = 0
      <4>1. Post(w, "first") /\ "first" \in Special \cap Kinds /\ "first" \notin Ends
        BY <3>3 DEF Iterate, Kinds, Special, Ends
      <4>2. \A j \in Special : ~Sent(w, j)
        BY <2>1, <2>2, <2>6, <3>3 DEF Ending, Special, Reports
      <4> QED
        BY <1>0, <2>1, <2>2, <4>1, <4>2, OrderPost
    <3>4. CASE Report(w) /\ result[w] = "err"
      <4>1. Post(w, "error") /\ "error" \in Special \cap Kinds
            /\ "error" \notin Ends /\ "error" # "first"
        BY <3>4 DEF Report, Kinds, Special, Ends
      <4> QED
        BY <1>0, <2>1, <2>2, <4>1, OrderPost
    <3>5. ASSUME ~SendComplete(w), ~ObserveCancel(w), ~(Iterate(w) /\ iter[w] = 0),
                 ~(Report(w) /\ result[w] = "err")
          PROVE  OrderOK(w)'
      <4>1. \A i \in DOMAIN inbox' : inbox'[i].kind \in Special => i \in DOMAIN inbox
        BY <1>0, <2>2, <3>5, PlainTurns
      <4> QED
        BY <1>0, <2>1, <2>2, <4>1, OrderPlain
    <3> QED
      BY <3>1, <3>2, <3>3, <3>4, <3>5
  <2>17. Truth(w)'
    <3>1. pc'[w] # "idle"
      BY <1>0, <1>1, <1>10, ControlStep DEF Next, ControlInv, Stands
    <3> QED
      BY <1>1, <1>10, <2>13, <2>14, <2>15, <2>16, <3>1 DEF Truth
  <2>18. NoPrompt' => currentTurn = None /\ pendingTurn = None
    <3> SUFFICES ASSUME NoPrompt' PROVE Framed(w)
      BY <2>1 DEF Stage
    <3>1. ~Alive(w)'
      BY <1>1, <1>10 DEF NoPrompt
    <3>2. \A k : ~Sent(w, k)'
      BY <3>1 DEF Alive, InInbox, Sent, Message
    <3>3. Report(w) /\ pc'[w] = "done"
      BY <1>10, <2>11, <2>17, <3>1, <1>0, <1>1, ControlStep
      DEF Alive, Next, ControlInv, Stands
    <3>4. result'[w] = "ok"
      BY <2>4, <2>9, <3>2, <3>3
    <3> QED
      BY <1>8, <2>13, <3>2, <3>4 DEF Reports
  <2> QED
    BY <1>1, <1>2, <1>5, <2>17, <2>18 DEF TruthInv
<1> QED
  BY <1>0, <1>9, <1>10, TurnMoves DEF Stands

(* What the loop does to the frames, by the message it takes. *)
LEMMA HandleFrames ==
  ASSUME NEW w \in Worker, NEW k, Take(w, k), Handle(w)
  PROVE  /\ k \notin Special => UNCHANGED frameVars
         /\ k = "first" => HandleFirst(w)
         /\ k = "complete" => HandleComplete(w)
         /\ k \in {"cancelled", "aborted"} => HandleStopped(w)
         /\ k = "error" => HandleError(w)
<1>1. \A j : Take(w, j) => j = k
  BY DEF Take, Message
<1>2. ASSUME k \notin Special PROVE UNCHANGED frameVars
  BY <1>1, <1>2
  DEF Handle, HandleRoute, HandleFirst, HandleNext, HandleDelta, HandleToolStart,
      HandleToolEnd, HandleComplete, HandleStopped, HandleError, HandleRestored,
      HandleBashDone, loopVars, Special, Ends
<1>3. ASSUME k \in Special
      PROVE  HandleFirst(w) \/ HandleComplete(w) \/ HandleStopped(w) \/ HandleError(w)
  BY <1>1, <1>3
  DEF Handle, HandleRoute, HandleNext, HandleDelta, HandleToolStart,
      HandleToolEnd, HandleRestored, HandleBashDone, Special, Ends
<1>4. /\ HandleFirst(w) => k = "first"
      /\ HandleComplete(w) => k = "complete"
      /\ HandleStopped(w) => k \in {"cancelled", "aborted"}
      /\ HandleError(w) => k = "error"
  BY <1>1 DEF HandleFirst, HandleComplete, HandleStopped, HandleError
<1>5. {"first", "complete", "cancelled", "aborted", "error"} \subseteq Special
  BY DEF Special, Ends
<1> QED
  BY <1>2, <1>3, <1>4, <1>5

(* The closed frames, and perhaps one more of w. *)
Lengthened(w) ==
  /\ \A i \in DOMAIN closed : i \in DOMAIN closed' /\ closed'[i] = closed[i]
  /\ \A i \in DOMAIN closed' :
       i \in DOMAIN closed \/ (closed'[i].by = w /\ closed'[i].ender = w)

LEMMA FrameAdded ==
  ASSUME FrameInv, NEW frame \in [id : Nat, by : Worker \cup {Nobody}],
         NEW ok \in BOOLEAN, NEW w \in Worker, frame.by = w,
         closed' = Close(frame, ok, w)
  PROVE  /\ Lengthened(w)
         /\ \E n \in DOMAIN closed' :
              /\ \A i \in DOMAIN closed' : i = n \/ i \in DOMAIN closed
              /\ closed'[n].by = w /\ closed'[n].ender = w /\ closed'[n].ok = ok
<1> DEFINE F == [id : Nat, by : Worker \cup {Nobody}, ok : BOOLEAN,
                 ender : Worker \cup {Nobody}]
           f == [id |-> frame.id, by |-> frame.by, ok |-> ok, ender |-> w]
<1>1. f \in F /\ closed \in Seq(F) /\ closed' = Append(closed, f)
  BY DEF FrameInv, Close
<1>2. f.by = w /\ f.ender = w /\ f.ok = ok
  OBVIOUS
<1> HIDE DEF F, f
<1>3. /\ DOMAIN closed = 1..Len(closed) /\ DOMAIN closed' = 1..(Len(closed) + 1)
      /\ Len(closed) \in Nat
      /\ \A i \in 1..Len(closed) : closed'[i] = closed[i]
      /\ closed'[Len(closed) + 1] = f
  BY <1>1, AppendProperties, LenProperties
<1>4. \A i \in DOMAIN closed' : i = Len(closed) + 1 \/ i \in DOMAIN closed
  BY <1>3
<1>5. Len(closed) + 1 \in DOMAIN closed'
  BY <1>3
<1>6. \A i \in DOMAIN closed : i \in DOMAIN closed'
  BY <1>3
<1> QED
  BY <1>2, <1>3, <1>4, <1>5, <1>6 DEF Lengthened

(* A worker that is not under way keeps its frame while another ends its own. *)
LEMMA OthersKeep ==
  ASSUME NEW v \in Worker, NEW w \in Worker, v # w, Truth(v), ~Alive(v), ~Alive(v)',
         Lengthened(w),
         kind'[v] = kind[v], pc'[v] = pc[v], iter'[v] = iter[v],
         result'[v] = result[v]
  PROVE  Truth(v)'
<1>1. /\ \A k : ~Sent(v, k) /\ ~Sent(v, k)'
      /\ \A i \in DOMAIN inbox' : inbox'[i].from # v
      /\ pc[v] \in {"idle", "done"}
  BY DEF Alive, InInbox, Sent, Message
<1>2. /\ Framed(v)' <=> Framed(v)
      /\ \A i \in DOMAIN closed' : Mentions(i, v)' =>
           i \in DOMAIN closed /\ closed'[i] = closed[i] /\ Mentions(i, v)
  BY DEF Framed, Mentions, Lengthened
<1>3. kind[v] = "prompt" => OrderOK(v)'
  BY <1>1 DEF OrderOK, From
<1>4. kind[v] = "prompt" => Reports(v)'
  BY <1>1, <1>2 DEF Truth, Reports, Ending
<1>5. kind[v] = "prompt" => Owned(v)'
  BY <1>2 DEF Truth, Owned
<1>6. pc[v] = "idle" => \A i \in DOMAIN closed' : ~Mentions(i, v)'
  BY <1>2 DEF Truth
<1> QED
  BY <1>1, <1>3, <1>4, <1>5, <1>6 DEF Truth

(* A prompt that is over has its frame. *)
LEMMA DoneIsFramed ==
  ASSUME NEW w \in Worker, Stands(w), kind[w] = "prompt", Reports(w), ~Alive(w)
  PROVE  pc[w] = "done" /\ Framed(w)
<1>1. pc[w] = "done"
  BY DEF Alive, Stands
<1>2. \A k : ~Sent(w, k)
  BY DEF Alive, InInbox, Sent, Message
<1> QED
  BY <1>1, <1>2 DEF Reports

(* The frame of a prompt closes: the reports it had made become its frame. *)
LEMMA FrameCloses ==
  ASSUME FrameInv, Types, NEW w \in Worker, kind[w] = "prompt", OrderOK(w), Reports(w),
         Owned(w), ~Framed(w), NEW k \in Ends \cup {"error"}, Take(w, k),
         NEW ok \in BOOLEAN, ok = (k = "complete"), opened.by = w,
         closed' = Close(opened, ok, w),
         UNCHANGED <<kind, pc, iter, result, call>>
  PROVE  Framed(w)' /\ Owned(w)' /\ Reports(w)' /\ Lengthened(w)
<1>0. BoxTypes
  BY DEF Types
<1>a. /\ FrameInv /\ opened \in [id : Nat, by : Worker \cup {Nobody}] /\ ok \in BOOLEAN
      /\ w \in Worker /\ opened.by = w /\ closed' = Close(opened, ok, w)
  BY DEF FrameInv
<1>1. Lengthened(w)
  BY ONLY <1>a, FrameAdded
<1>2. PICK n \in DOMAIN closed' :
        /\ \A i \in DOMAIN closed' : i = n \/ i \in DOMAIN closed
        /\ closed'[n].by = w /\ closed'[n].ender = w /\ closed'[n].ok = ok
  BY ONLY <1>a, FrameAdded
<1>3. Framed(w)'
  BY <1>2 DEF Framed
<1>4. \A i \in DOMAIN closed : ~Mentions(i, w)
  BY DEF Owned, Framed
<1>5. \A i \in DOMAIN closed' : Mentions(i, w)' => i = n
  BY <1>1, <1>2, <1>4 DEF Mentions, Lengthened
<1>6. Sent(w, k) /\ \A j : Sent(w, j)' => Sent(w, j)
  BY <1>0, TakeRemoves, TakeSends
<1>7. (k = "complete") = (result[w] = "ok")
  <2>1. CASE k = "complete"
    BY <1>6, <2>1 DEF Reports
  <2>2. CASE k \in {"cancelled", "aborted"}
    BY <1>6, <2>2 DEF Reports
  <2>3. CASE k = "error"
    BY <1>6, <2>3 DEF Reports
  <2> QED
    BY <2>1, <2>2, <2>3 DEF Ends
<1>8. Owned(w)'
  BY <1>2, <1>5, <1>7 DEF Owned
<1>9. Reports(w)'
  <2>1. pc[w] \in {"racing", "returned", "restored", "done"}
        /\ (pc[w] = "racing" => call[w] = "gone")
    BY <1>6 DEF Reports, Ending
  <2> QED
    BY <1>3, <1>6, <2>1 DEF Reports
<1> QED
  BY <1>1, <1>3, <1>8, <1>9

LEMMA TruthHandlePrompt ==
  ASSUME SoloInv, TruthInv, Undisturbed, NEW w \in Worker, Handle(w),
         kind[w] = "prompt"
  PROVE  /\ Truth(w)' /\ Lengthened(w) /\ strays' = strays
         /\ ~Alive(w)' => currentTurn' = None /\ pendingTurn' = None
<1>0. /\ Types /\ ControlInv /\ BoxTypes /\ FrameInv /\ Stands(w)
      /\ "overlap" \notin marks
  BY DEF SoloInv, TypeInv, Types, ControlInv, Undisturbed
<1>1. PICK k \in Kinds : Take(w, k)
  BY HandleTakes
<1>2. /\ UNCHANGED <<kind, pc, iter, result, call>> /\ ~quit
      /\ \A j : Sent(w, j)' => Sent(w, j)
      /\ \A j : Sent(w, j) => Sent(w, j)' \/ j = k
      /\ Sent(w, k) /\ Alive(w) /\ pc[w] # "idle" /\ iter[w] \in Nat
      /\ currentTurn \in Nat /\ nextTurn \in Nat /\ pendingTurn \in Nat
  <2>1. UNCHANGED <<kind, pc, iter, result, call>> /\ ~quit
    BY HandleTakes DEF taskVars
  <2>2. Sent(w, k) /\ InInbox(w)
    BY <1>0, <1>1, TakeRemoves
  <2>3. iter[w] \in Nat /\ nextTurn \in Nat /\ pendingTurn \in Nat
    BY <1>0, ConstantsAssumption DEF Types, TaskTypes, LoopTypes
  <2> QED
    BY <1>0, <1>1, <2>1, <2>2, <2>3, TakeSends DEF FrameInv, Stands, Alive
<1>3. OrderOK(w) /\ Reports(w) /\ Owned(w) /\ Stage(w)
  BY <1>2 DEF TruthInv, Truth
<1>4. OrderOK(w)'
  BY <1>0, <1>1, <1>3, OrderTake
<1>5. /\ k \in Ends => \A j \in Ends : ~Sent(w, j)'
      /\ k \in Special \ {"first"} => ~Sent(w, "first")
      /\ k = "first" => ~Sent(w, "first")'
      /\ k = "error" => ~InInbox(w)'
  BY <1>0, <1>1, <1>3, TakeInOrder
<1>6. /\ k \notin Special => UNCHANGED frameVars
      /\ k = "first" => HandleFirst(w)
      /\ k = "complete" => HandleComplete(w)
      /\ k \in {"cancelled", "aborted"} => HandleStopped(w)
      /\ k = "error" => HandleError(w)
  BY <1>1, HandleFrames
<1>7. "first" \notin Ends /\ "error" \notin Ends
      /\ Special = {"complete", "cancelled", "aborted", "first", "error"}
      /\ Ends = {"complete", "cancelled", "aborted"}
  BY DEF Ends, Special
<1>8. Stands(w)'
  BY ControlStep, <1>0 DEF Next, ControlInv
<1>9. ASSUME Reports(w)', ~Alive(w)' PROVE Framed(w)'
  <2>1. pc'[w] = "done" /\ \A j : ~Sent(w, j)'
    BY <1>2, <1>8, <1>9 DEF Alive, Stands, InInbox, Sent, Message
  <2> QED
    BY <1>9, <2>1 DEF Reports
(* The frame stays as it was. *)
<1>10. ASSUME UNCHANGED closed, k \notin Ends, k = "error" => Framed(w)
       PROVE  /\ Reports(w)' /\ Owned(w)' /\ Lengthened(w)
              /\ Framed(w)' <=> Framed(w)
  <2>1. (Framed(w)' <=> Framed(w)) /\ \A i : Mentions(i, w)' <=> Mentions(i, w)
    BY <1>10 DEF Framed, Mentions
  <2>2. Owned(w)'
    BY <1>2, <1>3, <1>10, <2>1 DEF Owned
  <2>3. Reports(w)'
    BY <1>2, <1>3, <1>7, <1>10, <2>1 DEF Reports, Ending
  <2> QED
    BY <1>10, <2>1, <2>2, <2>3 DEF Lengthened
<1>11. CASE k = "error" /\ Framed(w)
  <2>1. /\ seen /\ UNCHANGED <<closed, strays, currentTurn>> /\ pendingTurn' = None
        /\ currentTurn = None
    BY <1>3, <1>6, <1>11 DEF HandleError, Stage
  <2>2. ~Alive(w)'
    BY <1>2, <1>3, <1>5, <1>11 DEF Alive, Reports
  <2>3. Reports(w)' /\ Owned(w)' /\ Lengthened(w)
    BY <1>7, <1>10, <1>11, <2>1
  <2> QED
    BY <1>2, <1>4, <2>1, <2>2, <2>3 DEF Truth
<1>12. CASE k \notin Special
  <2>1. UNCHANGED <<closed, strays, currentTurn, pendingTurn, seen, opened>>
    BY <1>6, <1>12 DEF frameVars
  <2>2. /\ Reports(w)' /\ Owned(w)' /\ Lengthened(w)
        /\ Framed(w)' <=> Framed(w)
    BY <1>7, <1>10, <1>12, <2>1
  <2>3. Sent(w, "first")' <=> Sent(w, "first")
    BY <1>2, <1>7, <1>12
  <2>4. Stage(w)'
    BY <1>2, <1>3, <2>1, <2>2, <2>3 DEF Stage
  <2>5. Truth(w)'
    BY <1>2, <1>4, <2>2, <2>4 DEF Truth
  <2>6. ~Alive(w)' => Framed(w)'
    BY <1>9, <2>2
  <2>7. Framed(w) => currentTurn = None /\ pendingTurn = None
    BY <1>3 DEF Stage
  <2> QED
    BY <2>1, <2>2, <2>5, <2>6, <2>7
<1>13. CASE k = "first"
  <2>1. ~Framed(w) /\ currentTurn = None
    BY <1>2, <1>3, <1>13 DEF Stage
  <2>2. /\ UNCHANGED <<closed, strays, seen>> /\ pendingTurn' = None
        /\ currentTurn' = nextTurn + 1 /\ opened' = [id |-> nextTurn + 1, by |-> w]
    BY <1>6, <1>13, <2>1 DEF HandleFirst
  <2>3. Reports(w)' /\ Owned(w)' /\ Lengthened(w) /\ ~Framed(w)'
    BY <1>7, <1>10, <1>13, <2>1, <2>2
  <2>4. currentTurn' # None /\ opened'.by = w
    BY <1>2, <2>2 DEF None
  <2>5. iter'[w] > 0
    BY <1>2, <1>3, <1>13 DEF Reports
  <2>6. Stage(w)'
    BY <1>3, <1>5, <1>13, <2>1, <2>2, <2>3, <2>4, <2>5 DEF Stage
  <2>7. Truth(w)'
    BY <1>2, <1>4, <2>3, <2>6 DEF Truth
  <2>8. Alive(w)'
    BY <1>9, <2>3
  <2> QED
    BY <2>2, <2>3, <2>7, <2>8
<1>14. CASE k \in Ends \cup {"error"} /\ ~Framed(w)
  <2>1. ~Sent(w, "first") /\ ~seen
    BY <1>3, <1>5, <1>7, <1>14 DEF Stage
  <2>2. iter[w] > 0
    BY <1>0, <1>2, <1>3, <1>7, <1>14 DEF Reports, Ending, Stands
  <2>3. currentTurn # None /\ opened.by = w /\ pendingTurn = None
    BY <1>3, <1>14, <2>1, <2>2 DEF Stage
  <2>4. /\ UNCHANGED strays /\ currentTurn' = None /\ pendingTurn' = None
        /\ k \in Ends => seen'
    BY <1>6, <1>7, <1>14, <2>1, <2>3 DEF HandleComplete, HandleStopped, HandleError
  <2>5. closed' = Close(opened, k = "complete", w)
    <3>1. CASE k = "complete"
      <4>1. closed' = Close(opened, TRUE, w)
        BY <1>6, <2>3, <3>1 DEF HandleComplete
      <4> QED
        BY <3>1, <4>1
    <3>2. CASE k # "complete"
      <4>1. closed' = Close(opened, FALSE, w)
        BY <1>6, <1>7, <1>14, <2>1, <2>3, <3>2 DEF HandleStopped, HandleError
      <4> QED
        BY <3>2, <4>1
    <3> QED
      BY <3>1, <3>2
  <2>6. Framed(w)' /\ Owned(w)' /\ Reports(w)' /\ Lengthened(w)
    <3> DEFINE ok == k = "complete"
    <3>1. /\ ok \in BOOLEAN /\ ok = (k = "complete") /\ closed' = Close(opened, ok, w)
      BY <2>5
    <3> HIDE DEF ok
    <3> QED
      BY <1>0, <1>1, <1>2, <1>3, <1>14, <2>3, <3>1, FrameCloses
  <2>7. k = "error" => ~Alive(w)'
    BY <1>2, <1>3, <1>5 DEF Alive, Reports
  <2>8. k \in Ends => Stage(w)'
    BY <1>2, <1>5, <2>1, <2>2, <2>4, <2>6 DEF Stage
  <2>9. Truth(w)'
    BY <1>2, <1>4, <1>14, <2>6, <2>7, <2>8 DEF Truth
  <2> QED
    BY <2>4, <2>6, <2>9
<1>15. Framed(w) => k \notin Ends \cup {"first"}
  BY <1>2, <1>3 DEF Stage
<1> QED
  BY <1>7, <1>11, <1>12, <1>13, <1>14, <1>15

LEMMA TruthHandle ==
  ASSUME SoloInv, TruthInv, Undisturbed, NEW w \in Worker, Handle(w)
  PROVE  TruthInv'
<1>0. /\ Types /\ ControlInv /\ BoxTypes /\ FrameInv /\ Stands(w)
      /\ "overlap" \notin marks
  BY DEF SoloInv, TypeInv, Types, ControlInv, Undisturbed
<1>1. PICK k \in Kinds : Take(w, k)
  BY HandleTakes
<1>2. /\ UNCHANGED <<kind, pc, iter, result, quit>> /\ ~quit
      /\ \A v, j : Sent(v, j)' => Sent(v, j)
      /\ \A v : Alive(v)' => Alive(v)
  <2>1. UNCHANGED <<kind, pc, iter, result, quit>> /\ ~quit
    BY HandleTakes DEF taskVars
  <2>2. /\ \A v, j : Sent(v, j)' => Sent(v, j)
        /\ \A v : InInbox(v)' => InInbox(v)
    BY <1>0, <1>1, TakeSends
  <2> QED
    BY <2>1, <2>2 DEF Alive
<1>3. Alive(w) /\ \A v \in Worker : v # w => ~Alive(v)
  BY <1>0, Alone
<1>4. /\ strays = {} /\ (NoPrompt => currentTurn = None /\ pendingTurn = None)
      /\ \A v \in Worker : Truth(v)
  BY <1>2 DEF TruthInv
<1>5. ASSUME NEW v \in Worker, v # w, Lengthened(w) PROVE Truth(v)'
  BY <1>2, <1>3, <1>4, <1>5, OthersKeep
<1>6. CASE kind[w] = "prompt"
  <2>1. /\ Truth(w)' /\ Lengthened(w) /\ strays' = strays
        /\ ~Alive(w)' => currentTurn' = None /\ pendingTurn' = None
    BY <1>6, TruthHandlePrompt
  <2>2. NoPrompt' => ~Alive(w)'
    BY <1>2, <1>6 DEF NoPrompt
  <2> QED
    BY <1>4, <1>5, <2>1, <2>2 DEF TruthInv
<1>7. CASE kind[w] = "bash"
  <2>1. \A j \in Ends \cup {"first"} : ~Sent(w, j)
    BY <1>4, <1>7 DEF Truth
  <2>2. k \notin Ends \cup {"first"}
    BY <1>0, <1>1, <2>1, TakeRemoves
  <2>3. currentTurn = None /\ pendingTurn = None
    BY <1>3, <1>4, <1>7 DEF NoPrompt
  <2>4. /\ k \notin Special => UNCHANGED frameVars
        /\ k = "error" => HandleError(w)
    BY <1>1, HandleFrames
  <2>5. /\ currentTurn' = None /\ pendingTurn' = None /\ strays' = strays
        /\ \/ closed' = closed
           \/ closed' = Close([id |-> nextTurn + 1, by |-> w], FALSE, w)
    BY <2>2, <2>3, <2>4 DEF HandleError, frameVars, Special
  <2>6. Lengthened(w)
    <3>1. CASE closed' = closed
      BY <3>1 DEF Lengthened
    <3>2. CASE closed' = Close([id |-> nextTurn + 1, by |-> w], FALSE, w)
      <4> DEFINE f == [id |-> nextTurn + 1, by |-> w]
      <4>1. f \in [id : Nat, by : Worker \cup {Nobody}] /\ f.by = w
        BY <1>0 DEF Types, LoopTypes
      <4>2. closed' = Close(f, FALSE, w)
        BY <3>2
      <4> HIDE DEF f
      <4> QED
        BY ONLY <1>0, <4>1, <4>2, FrameAdded, w \in Worker
    <3> QED
      BY <2>5, <3>1, <3>2
  <2>7. Truth(w)'
    <3>1. pc[w] # "idle"
      BY <1>0, <1>7 DEF Stands
    <3> QED
      BY <1>2, <1>7, <2>1, <3>1 DEF Truth
  <2> QED
    BY <1>4, <1>5, <2>5, <2>6, <2>7 DEF TruthInv
<1> QED
  BY <1>0, <1>3, <1>6, <1>7 DEF Stands, Alive

LEMMA TruthGrace ==
  ASSUME SoloInv, TruthInv, Undisturbed', GraceExpires
  PROVE  TruthInv'
<1>0. /\ Types /\ ControlInv /\ BoxTypes /\ Undisturbed
  BY MarksGrow DEF SoloInv, TypeInv, Types, Undisturbed, Next
<1>1. /\ UNCHANGED <<kind, pc, iter, result, closed, strays, currentTurn, pendingTurn,
                     seen, opened, quit>>
      /\ ~quit
      /\ \A v \in Worker :
           call'[v] = call[v] \/ (call[v] = "running" /\ call'[v] = "gone")
  BY <1>0, GraceSends DEF loopVars, frameVars
<1>2. /\ strays = {} /\ (NoPrompt => currentTurn = None /\ pendingTurn = None)
      /\ \A v \in Worker : Truth(v)
  BY <1>0, <1>1 DEF TruthInv
<1>3. /\ \A v : Framed(v)' <=> Framed(v)
      /\ \A i, v : Mentions(i, v)' <=> Mentions(i, v)
  BY <1>1 DEF Framed, Mentions
<1>4. \A v \in Worker : Owned(v)' <=> Owned(v)
  BY <1>1, <1>3 DEF Owned
<1>5. CASE UNCHANGED inbox
  <2>1. /\ \A v, k : Sent(v, k)' <=> Sent(v, k)
        /\ \A v : Alive(v)' <=> Alive(v)
        /\ \A v \in Worker : OrderOK(v)' <=> OrderOK(v)
    BY <1>1, <1>5 DEF Sent, Alive, InInbox, OrderOK, From
  <2>2. ASSUME NEW v \in Worker, kind[v] = "prompt"
        PROVE  Reports(v)' /\ (Alive(v) => Stage(v)')
    <3>1. Reports(v)'
      BY <1>1, <1>2, <1>3, <2>1, <2>2 DEF Truth, Reports, Ending
    <3>2. Alive(v) => Stage(v)'
      BY <1>1, <1>2, <1>3, <2>1, <2>2 DEF Truth, Stage
    <3> QED
      BY <3>1, <3>2
  <2> QED
    BY <1>1, <1>2, <1>3, <1>4, <2>1, <2>2 DEF TruthInv, Truth, NoPrompt
<1>6. ASSUME NEW w \in Worker, slot = w, Post(w, "aborted"), call[w] = "running",
             call'[w] = "gone"
      PROVE  TruthInv'
  <2>0. /\ "aborted" \in Kinds /\ "aborted" \in Ends /\ "aborted" \in Special
        /\ "aborted" # "first"
    BY DEF Kinds, Ends, Special
  <2>1. Grown(inbox, inbox', w) /\ \A j : Sent(w, j)' <=> Sent(w, j) \/ j = "aborted"
    BY <1>0, <1>6, <2>0, PostAdds, PostSends
  <2>2. \A v : v # w => /\ \A j : Sent(v, j)' <=> Sent(v, j)
                        /\ InInbox(v)' <=> InInbox(v)
    BY <1>0, <2>1, GrownSends
  <2>3. /\ pc[w] = "racing" /\ kind[w] = "prompt" /\ Alive(w) /\ Alive(w)'
        /\ \A v \in Worker : v # w => ~Alive(v)
    <3>1. pc[w] = "racing" /\ kind[w] = "prompt"
      BY <1>0, <1>6 DEF ControlInv, Stands
    <3>2. Alive(w) /\ Alive(w)'
      BY <1>1, <3>1 DEF Alive
    <3> QED
      BY <1>0, <3>1, <3>2 DEF SoloInv, Solo, Undisturbed
  <2>4. OrderOK(w) /\ Reports(w) /\ Owned(w) /\ Stage(w)
    BY <1>2, <2>3 DEF Truth
  <2>5. ~Ending(w) /\ ~Sent(w, "error") /\ result[w] = "none"
    BY <1>6, <2>3, <2>4 DEF Reports
  <2>6. OrderOK(w)'
    <3>1. /\ "aborted" \in Special \cap Kinds
          /\ "aborted" \in Ends => \A j \in Ends : ~Sent(w, j)
      BY <2>0, <2>5 DEF Ending
    <3> QED
      BY <1>0, <1>6, <2>0, <2>4, <2>5, <3>1, OrderPost
  <2>7. Reports(w)'
    BY <1>1, <1>3, <1>6, <2>1, <2>3, <2>4, <2>5 DEF Reports
  <2>8. Stage(w)'
    <3>1. ~Framed(w) /\ ~Framed(w)' /\ (Sent(w, "first")' <=> Sent(w, "first"))
      BY <1>3, <2>1, <2>5 DEF Ending
    <3> QED
      BY <1>1, <2>4, <3>1 DEF Stage
  <2>9. Truth(w)'
    BY <1>1, <1>4, <2>3, <2>4, <2>6, <2>7, <2>8 DEF Truth
  <2>10. ASSUME NEW v \in Worker, v # w PROVE Truth(v)'
    <3>1. ~Alive(v) /\ ~Alive(v)'
      BY <1>1, <2>2, <2>3, <2>10 DEF Alive
    <3> QED
      BY <1>1, <1>2, <3>1, DeadStay
  <2>11. ~NoPrompt'
    BY <1>1, <2>3 DEF NoPrompt
  <2> QED
    BY <1>1, <1>2, <2>9, <2>10, <2>11 DEF TruthInv
<1> QED
  BY <1>0, <1>5, <1>6, GraceStops

LEMMA TruthUser ==
  ASSUME SoloInv, TruthInv, Undisturbed', User
  PROVE  TruthInv'
<1>0. /\ Types /\ ControlInv /\ BoxTypes /\ Undisturbed /\ "overlap" \notin marks'
  BY MarksGrow DEF SoloInv, TypeInv, Types, Undisturbed, Next
<1>1. UNCHANGED <<inbox, iter, call, result>> /\ ~quit
  BY UserMoves
<1>2. /\ strays = {} /\ (NoPrompt => currentTurn = None /\ pendingTurn = None)
      /\ \A v \in Worker : Truth(v)
  BY <1>0, <1>1 DEF TruthInv
<1>3. /\ \A v, k : Sent(v, k)' <=> Sent(v, k)
      /\ \A v : InInbox(v)' <=> InInbox(v)
  BY <1>1 DEF Sent, InInbox
<1>4. CASE Quit
  BY <1>4 DEF Quit, TruthInv
<1>5. ASSUME UNCHANGED <<kind, pc, closed, strays, currentTurn, pendingTurn, seen,
                         opened>>
      PROVE  TruthInv'
  <2>1. /\ \A v : Framed(v)' <=> Framed(v)
        /\ \A i, v : Mentions(i, v)' <=> Mentions(i, v)
        /\ \A v : Alive(v)' <=> Alive(v)
    BY <1>3, <1>5 DEF Framed, Mentions, Alive
  <2>2. /\ \A v \in Worker : Owned(v)' <=> Owned(v)
        /\ \A v \in Worker : OrderOK(v)' <=> OrderOK(v)
    BY <1>1, <1>5, <2>1 DEF Owned, OrderOK, From
  <2>3. ASSUME NEW v \in Worker, kind[v] = "prompt"
        PROVE  Reports(v)' /\ (Alive(v) => Stage(v)')
    <3>1. Reports(v)'
      BY <1>1, <1>2, <1>3, <1>5, <2>1, <2>3 DEF Truth, Reports, Ending
    <3>2. Alive(v) => Stage(v)'
      BY <1>1, <1>2, <1>3, <1>5, <2>1, <2>3 DEF Truth, Stage
    <3> QED
      BY <3>1, <3>2
  <2>4. ASSUME NEW v \in Worker PROVE Truth(v)'
    BY <1>1, <1>2, <1>3, <1>5, <2>1, <2>2, <2>3 DEF Truth
  <2>5. NoPrompt' <=> NoPrompt
    BY <1>5, <2>1 DEF NoPrompt
  <2> QED
    BY <1>2, <1>5, <2>4, <2>5 DEF TruthInv
<1>6. ASSUME UNCHANGED <<kind, pc, closed, strays, currentTurn, pendingTurn, opened>>,
             \A v \in Worker : ~Alive(v)
      PROVE  TruthInv'
  <2>1. \A v \in Worker : ~Alive(v)'
    BY <1>3, <1>6 DEF Alive
  <2>2. \A v \in Worker : Truth(v)'
    BY <1>1, <1>2, <1>6, <2>1, DeadStay
  <2>3. NoPrompt
    BY <1>6 DEF NoPrompt
  <2> QED
    BY <1>2, <1>6, <2>2, <2>3 DEF TruthInv
<1>7. ASSUME NEW w \in Worker, Submit(w) \/ SubmitBash(w) PROVE TruthInv'
  <2>1. /\ \A v \in Worker : ~Alive(v)
        /\ UNCHANGED <<closed, strays, currentTurn>>
        /\ \A v \in Worker \ {w} : kind'[v] = kind[v] /\ pc'[v] = pc[v]
        /\ pc[w] = "idle" /\ nextTurn \in Nat
    BY <1>0, <1>7, StartsAlone
    DEF Submit, SubmitBash, Spawn, Goto, Types, TaskTypes, LoopTypes, frameVars
  <2>2. ASSUME NEW v \in Worker, v # w PROVE Truth(v)'
    <3>1. ~Alive(v) /\ ~Alive(v)'
      BY <1>3, <2>1, <2>2 DEF Alive
    <3> QED
      BY <1>1, <1>2, <2>1, <2>2, <3>1, DeadStay
  <2>3. /\ ~InInbox(w)' /\ \A k : ~Sent(w, k)'
        /\ result'[w] = "none" /\ iter'[w] = 0
        /\ \A i \in DOMAIN closed' : ~Mentions(i, w)'
        /\ ~Framed(w)'
    <3>1. ~InInbox(w) /\ iter[w] = 0 /\ result[w] = "none"
          /\ \A i \in DOMAIN closed : ~Mentions(i, w)
      BY <1>0, <1>2, <2>1 DEF Truth, ControlInv, Stands
    <3>2. \A k : ~Sent(w, k)
      BY <3>1 DEF Sent, InInbox, Message
    <3>3. ~Framed(w)'
      BY <2>1, <3>1 DEF Framed, Mentions
    <3>4. \A i \in DOMAIN closed' : ~Mentions(i, w)'
      BY <2>1, <3>1 DEF Mentions
    <3> QED
      BY <1>1, <1>3, <3>1, <3>2, <3>3, <3>4
  <2>4. NoPrompt
    BY <2>1 DEF NoPrompt
  <2>5. CASE Submit(w)
    <3>1. /\ kind'[w] = "prompt" /\ pc'[w] = "apply" /\ ~seen'
          /\ pendingTurn' = nextTurn + 1
      BY <1>0, <2>5 DEF Submit, Goto, Types, TaskTypes
    <3>2. pendingTurn' # None
      BY <2>1, <3>1 DEF None
    <3>3. OrderOK(w)'
      BY <2>3 DEF OrderOK, From, InInbox
    <3>4. Reports(w)'
      BY <2>3, <3>1 DEF Reports, Ending
    <3>5. Owned(w)'
      BY <2>3 DEF Owned
    <3>6. Stage(w)'
      BY <1>2, <2>1, <2>3, <2>4, <3>1, <3>2 DEF Stage
    <3>7. Truth(w)'
      BY <2>3, <3>1, <3>3, <3>4, <3>5, <3>6 DEF Truth
    <3>8. ~NoPrompt'
      BY <3>1 DEF NoPrompt, Alive
    <3> QED
      BY <1>2, <2>1, <2>2, <3>7, <3>8 DEF TruthInv
  <2>6. CASE SubmitBash(w)
    <3>1. kind'[w] = "bash" /\ pc'[w] = "bash" /\ pendingTurn' = pendingTurn
      BY <1>0, <2>6 DEF SubmitBash, Goto, Types, TaskTypes, frameVars
    <3>2. Truth(w)'
      BY <2>3, <3>1 DEF Truth
    <3> QED
      BY <1>2, <2>1, <2>2, <2>4, <3>1, <3>2 DEF TruthInv
  <2> QED
    BY <1>7, <2>5, <2>6
<1>8. CASE SubmitBlocked
  <2>1. \A v \in Worker : ~Alive(v)
    BY <1>0, <1>8, StartsAlone
  <2> QED
    BY <1>6, <1>8, <2>1 DEF SubmitBlocked, taskVars
<1>9. CASE SetModel \/ Resume
  BY <1>5, <1>9 DEF SetModel, Resume, frameVars, taskVars
<1>10. ASSUME NEW m \in Model, ChangeModel(m) \/ SetOverride(m) PROVE TruthInv'
  BY <1>5, <1>10 DEF ChangeModel, SetOverride, frameVars, taskVars
<1>11. ASSUME NEW p \in Provider, Use(p) PROVE TruthInv'
  BY <1>5, <1>11 DEF Use, frameVars, taskVars
<1> QED
  BY <1>4, <1>7, <1>8, <1>9, <1>10, <1>11 DEF User

LEMMA TruthInit == Init => TruthInv
<1> SUFFICES ASSUME Init PROVE TruthInv
  OBVIOUS
<1>1. /\ strays = {} /\ currentTurn = None /\ pendingTurn = None
      /\ \A w \in Worker : kind[w] = "none" /\ pc[w] = "idle" /\ result[w] = "none"
      /\ \A i \in DOMAIN closed : FALSE
  BY DEF Init
<1> QED
  BY <1>1 DEF TruthInv, Truth

LEMMA TruthStep ==
  ASSUME SoloInv, TruthInv, [Next]_vars
  PROVE  TruthInv'
<1>1. CASE UNCHANGED vars
  <2>1. UNCHANGED <<inbox, currentTurn, pendingTurn, seen, opened, closed, strays,
                    quit, kind, pc, iter, call, result, marks>>
    BY <1>1 DEF vars, loopVars, frameVars, taskVars
  <2>2. \A w \in Worker : Truth(w)' <=> Truth(w)
    BY <2>1 DEF Truth, OrderOK, Reports, Owned, Stage, Alive, InInbox, Sent, From,
                Framed, Mentions, Ending
  <2> QED
    BY <2>1, <2>2 DEF TruthInv, Undisturbed, NoPrompt, Alive, InInbox
<1>2. CASE ~Undisturbed'
  BY <1>2 DEF TruthInv
<1>3. Undisturbed' => Undisturbed
  BY MarksGrow DEF SoloInv, TypeInv, Undisturbed
<1> QED
  BY <1>1, <1>2, <1>3, TruthTurn, TruthHandle, TruthGrace, TruthUser DEF Next

(* Unless turns overlap or a notice went to another turn than the one it   *)
(* is about, each prompt that is over has exactly one turn frame, opened   *)
(* and closed by its own messages, with its own result, and no TurnEnd     *)
(* carries the id 0 (apply_turn_event, translate_turn_event_to_host_event, *)
(* record_turn_error).                                                     *)
THEOREM FramesTellTheTruth == Spec => []FramesAreTruthful
<1>1. SoloInv /\ TruthInv => FramesAreTruthful
  <2> SUFFICES ASSUME SoloInv, TruthInv, Undisturbed, ~quit
               PROVE  /\ strays = {}
                      /\ \A w \in Worker :
                           kind[w] = "prompt" /\ ~Alive(w) =>
                             \E i \in DOMAIN closed :
                               /\ {j \in DOMAIN closed :
                                     w \in {closed[j].by, closed[j].ender}} = {i}
                               /\ closed[i].by = w /\ closed[i].ender = w
                               /\ closed[i].ok = (result[w] = "ok")
    BY DEF FramesAreTruthful
  <2>1. strays = {} /\ \A w \in Worker : Truth(w) /\ Stands(w)
    BY DEF TruthInv, SoloInv, TypeInv, ControlInv
  <2>2. ASSUME NEW w \in Worker, kind[w] = "prompt", ~Alive(w)
        PROVE  \E i \in DOMAIN closed :
                 /\ {j \in DOMAIN closed :
                       w \in {closed[j].by, closed[j].ender}} = {i}
                 /\ closed[i].by = w /\ closed[i].ender = w
                 /\ closed[i].ok = (result[w] = "ok")
    <3>1. Framed(w) /\ Owned(w)
      BY <2>1, <2>2, DoneIsFramed DEF Truth
    <3>2. PICK i \in DOMAIN closed : closed[i].by = w
      BY <3>1 DEF Framed
    <3>3. {j \in DOMAIN closed : w \in {closed[j].by, closed[j].ender}} = {i}
      BY <3>1, <3>2 DEF Owned, Mentions
    <3>4. closed[i].ender = w /\ closed[i].ok = (result[w] = "ok")
      BY <3>1, <3>2 DEF Owned, Mentions
    <3> QED
      BY <3>2, <3>3, <3>4
  <2> QED
    BY <2>1, <2>2
<1>2. SoloInv /\ TruthInv /\ [Next]_vars => TruthInv'
  BY TruthStep
<1> QED
  BY <1>1, <1>2, TruthInit, SoloInvariance, PTL DEF Spec
=============================================================================
