------------------------ MODULE PluginRuntimeProofs ------------------------
(***************************************************************************)
(* Proofs about PluginRuntime: effects nest no deeper than the limit, an   *)
(* error stays with the subscriber whose effects caused it, the indexes    *)
(* stay coherent with the registry and the loaded command files, a session *)
(* restarts as it was saved, and a stashed command has been asked about.   *)
(***************************************************************************)
EXTENDS PluginRuntime, SequenceTheorems, FiniteSetTheorems,
        WellFoundedInduction, TLAPS

(***************************************************************************)
(* The effects and the calls of apply_effects that the code makes.         *)
(***************************************************************************)
Levels == {"always", "session", "cancelled"}
Subjects == Name \cup Plugin \cup Levels
              \cup {NoName, "trust.modal", "plugins.manager", "prompt", "stop"}
EffectSet ==
  {e \in [op : Ops, of : Subjects, on : BOOLEAN] :
     /\ e.op = "reindex" => e.of = User
     /\ e.op = "stash" => e.of \in ShellFile
     /\ e.op = "trust" => e.of \in Levels
     /\ e.op = "block" => e.of \in {"prompt", "stop"}}
Frames == [effects : Seq(EffectSet), depth : 0..MaxDepth,
           contain : BOOLEAN, fresh : BOOLEAN]

(***************************************************************************)
(* Above a batch nothing of which has been applied stands one that keeps   *)
(* its errors to itself: the batch of the subscriber before it.            *)
(***************************************************************************)
Isolated(s) ==
  \A i \in 1..Len(s) :
     s[i].fresh => s[i].contain /\ (i > 1 => s[i - 1].contain)

Sound(s) == s \in Seq(Frames) /\ Isolated(s)
SoundStack(s) == Sound(s) /\ (s # <<>> => s[1].effects # <<>>)

LEMMA MinProperties ==
  ASSUME NEW S \in SUBSET Nat, S # {}
  PROVE  Min(S) \in S /\ \A x \in S : Min(S) <= x
<1> DEFINE R == OpToRel(<, Nat)
<1>1. IsWellFoundedOn(R, Nat)
  BY NatLessThanWellFounded
<1>2. \A x, y \in Nat : <<y, x>> \in R <=> y < x
  BY Zenon DEF OpToRel
<1> HIDE DEF R
<1>3. PICK x \in S : \A y \in S : ~ (<<y, x>> \in R)
  BY <1>1, WFMin
<1>4. ASSUME NEW y \in S PROVE x <= y
  <2>1. x \in Nat /\ y \in Nat
    OBVIOUS
  <2>2. ~(y < x)
    BY <1>2, <1>3, <2>1, Zenon
  <2> QED
    BY <2>1, <2>2
<1> QED
  BY <1>4 DEF Min

(***************************************************************************)
(* Returning from calls leaves a sound stack.                              *)
(***************************************************************************)
LEMMA DropIsSound ==
  ASSUME NEW s, Sound(s), NEW k \in 1..(Len(s) + 1)
  PROVE  LET t == SubSeq(s, k, Len(s))
         IN  /\ Sound(t)
             /\ Len(t) = Len(s) + 1 - k
             /\ \A i \in 1..Len(t) : t[i] = s[i + k - 1]
<1> DEFINE t == SubSeq(s, k, Len(s))
<1>1. s \in Seq(Frames) /\ Len(s) \in Nat
  BY DEF Sound
<1>2. \A i \in k..Len(s) : s[i] \in Frames
  BY <1>1
<1>3. /\ t \in Seq(Frames)
      /\ Len(t) = Len(s) + 1 - k
      /\ \A i \in 1..Len(t) : t[i] = s[i + k - 1]
  BY <1>1, <1>2, SubSeqProperties
<1> HIDE DEF t
<1>4. Isolated(t)
  <2> SUFFICES ASSUME NEW i \in 1..Len(t), t[i].fresh
               PROVE  t[i].contain /\ (i > 1 => t[i - 1].contain)
    BY DEF Isolated
  <2>1. i + k - 1 \in 1..Len(s) /\ t[i] = s[i + k - 1]
    BY <1>1, <1>3
  <2>2. s[i + k - 1].contain /\ (i + k - 1 > 1 => s[i + k - 2].contain)
    <3>1. (i + k - 1) - 1 = i + k - 2
      OBVIOUS
    <3>2. \A j \in 1..Len(s) :
             s[j].fresh => s[j].contain /\ (j > 1 => s[j - 1].contain)
      BY DEF Sound, Isolated
    <3>3. s[i + k - 1].fresh
      BY <2>1
    <3> QED
      BY <2>1, <3>1, <3>2, <3>3
  <2>3. i > 1 => t[i - 1] = s[i + k - 2]
    BY <1>1, <1>3
  <2> QED
    BY <2>1, <2>2, <2>3
<1> QED
  BY <1>3, <1>4 DEF Sound, t

LEMMA EmptyIsSound == SoundStack(<<>>)
  BY DEF SoundStack, Sound, Isolated

LEMMA SettleIsSound ==
  ASSUME NEW s, Sound(s)
  PROVE  SoundStack(Settle(s))
<1> DEFINE live == {i \in DOMAIN s : s[i].effects # <<>>}
           k == Min(live)
<1>0. s \in Seq(Frames) /\ Len(s) \in Nat /\ DOMAIN s = 1..Len(s)
  BY DEF Sound
<1>1. CASE live = {}
  BY <1>1, EmptyIsSound DEF Settle
<1>2. CASE live # {}
  <2>1. k \in live
    <3>1. live \in SUBSET Nat
      BY <1>0
    <3> QED
      BY <3>1, <1>2, MinProperties
  <2>2. Settle(s) = SubSeq(s, k, Len(s))
    BY <1>2 DEF Settle
  <2>3. k \in 1..(Len(s) + 1) /\ k <= Len(s) /\ s[k].effects # <<>>
    BY <1>0, <2>1
  <2> HIDE DEF k, live
  <2>4. Sound(Settle(s)) /\ Len(Settle(s)) = Len(s) + 1 - k
        /\ \A i \in 1..Len(Settle(s)) : Settle(s)[i] = s[i + k - 1]
    BY <2>2, <2>3, DropIsSound
  <2>5. Settle(s)[1] = s[k]
    BY <1>0, <2>3, <2>4
  <2> QED
    BY <2>3, <2>4, <2>5 DEF SoundStack
<1> QED
  BY <1>1, <1>2

(***************************************************************************)
(* A call that has effects to apply is the next to go on.                  *)
(***************************************************************************)
LEMMA SettledAlready ==
  ASSUME NEW s \in Seq(Frames), s # <<>>, s[1].effects # <<>>
  PROVE  Settle(s) = s
<1> DEFINE live == {i \in DOMAIN s : s[i].effects # <<>>}
<1>1. Len(s) \in Nat /\ DOMAIN s = 1..Len(s) /\ Len(s) >= 1
  BY EmptySeq
<1>2. 1 \in live /\ live \in SUBSET Nat
  BY <1>1
<1>3. Min(live) \in live /\ Min(live) <= 1
  BY <1>2, MinProperties
<1>4. Min(live) = 1
  BY <1>1, <1>3
<1>5. Settle(s) = SubSeq(s, 1, Len(s))
  BY <1>2, <1>4 DEF Settle
<1> QED
  BY <1>5, SubSeqFull

(***************************************************************************)
(* Calls: the caller goes on to its next effect, callees stand above it,   *)
(* and an error takes away the calls up to one that contains it.           *)
(***************************************************************************)
LEMMA CallerIsSound ==
  ASSUME SoundStack(stack), stack # <<>>
  PROVE  /\ Sound(Caller) /\ Len(Caller) = Len(stack) /\ Len(Caller) \in Nat \ {0}
         /\ ~Caller[1].fresh /\ Caller[1].effects = Tail(Effects)
         /\ \A i \in 1..Len(Caller) : Caller[i].contain = stack[i].contain
         /\ \A i \in 1..Len(Caller) : i > 1 => Caller[i] = stack[i]
         /\ Head(Effects) \in EffectSet /\ Top.depth \in 0..MaxDepth
<1> DEFINE top == [Top EXCEPT !.effects = Tail(@), !.fresh = FALSE]
<1>1. stack \in Seq(Frames) /\ Isolated(stack) /\ stack[1].effects # <<>>
  BY DEF SoundStack, Sound
<1>2. Top = stack[1] /\ Top \in Frames /\ Len(stack) \in Nat \ {0}
  BY <1>1, EmptySeq DEF Top
<1>3. Effects \in Seq(EffectSet) /\ Effects # <<>> /\ Top.depth \in 0..MaxDepth
  BY <1>1, <1>2 DEF Frames, Effects
<1>4. Head(Effects) \in EffectSet /\ Tail(Effects) \in Seq(EffectSet)
  BY <1>3, HeadTailProperties
<1>5. /\ top \in Frames /\ ~top.fresh /\ top.contain = stack[1].contain
      /\ top.effects = Tail(Effects)
  BY <1>2, <1>4 DEF Frames, Effects
<1>6. /\ Tail(stack) \in Seq(Frames) /\ Len(Tail(stack)) = Len(stack) - 1
      /\ \A i \in 1..Len(Tail(stack)) : Tail(stack)[i] = stack[i + 1]
  BY <1>1, HeadTailProperties
<1>7. Caller = <<top>> \o Tail(stack)
  BY DEF Caller
<1> HIDE DEF top
<1>8. <<top>> \in Seq(Frames) /\ Len(<<top>>) = 1 /\ <<top>>[1] = top
  BY <1>5
<1>9. /\ Caller \in Seq(Frames)
      /\ Len(Caller) = Len(stack)
      /\ \A i \in 1..Len(Caller) :
           Caller[i] = IF i <= 1 THEN <<top>>[i] ELSE Tail(stack)[i - 1]
  BY <1>2, <1>6, <1>7, <1>8, ConcatProperties
<1>10. Caller[1] = top /\ \A i \in 1..Len(Caller) : i > 1 => Caller[i] = stack[i]
  <2>1. ASSUME NEW i \in 1..Len(Caller), i > 1 PROVE Caller[i] = stack[i]
    <3>1. Caller[i] = Tail(stack)[i - 1] /\ i - 1 \in 1..Len(Tail(stack))
      BY <1>2, <1>6, <1>9, <2>1
    <3>2. Tail(stack)[i - 1] = stack[(i - 1) + 1] /\ (i - 1) + 1 = i
      BY <1>6, <3>1
    <3> QED
      BY <3>1, <3>2
  <2>2. Caller[1] = top
    BY <1>2, <1>8, <1>9
  <2> QED
    BY <2>1, <2>2
<1>11. \A i \in 1..Len(Caller) : Caller[i].contain = stack[i].contain
  <2>1. ASSUME NEW i \in 1..Len(Caller) PROVE i = 1 \/ i > 1
    BY <1>2, <1>9
  <2> QED
    BY <1>5, <1>10, <2>1
<1>12. Isolated(Caller)
  <2> SUFFICES ASSUME NEW i \in 1..Len(Caller), Caller[i].fresh
               PROVE  Caller[i].contain /\ (i > 1 => Caller[i - 1].contain)
    BY DEF Isolated
  <2>1. i > 1 /\ i - 1 \in 1..Len(Caller) /\ Caller[i] = stack[i]
    BY <1>2, <1>5, <1>9, <1>10
  <2>2. stack[i].contain /\ stack[i - 1].contain
    BY <1>1, <1>9, <2>1 DEF Isolated
  <2> QED
    BY <1>11, <2>1, <2>2
<1> QED
  BY <1>2, <1>3, <1>4, <1>5, <1>9, <1>10, <1>11, <1>12 DEF Sound

LEMMA PushIsSound ==
  ASSUME NEW frames, Sound(frames), NEW s, Sound(s), s = <<>> \/ ~s[1].fresh
  PROVE  Sound(frames \o s)
<1> DEFINE t == frames \o s
<1>1. frames \in Seq(Frames) /\ s \in Seq(Frames) /\ Len(frames) \in Nat /\ Len(s) \in Nat
  BY DEF Sound
<1>2. /\ t \in Seq(Frames) /\ Len(t) = Len(frames) + Len(s)
      /\ \A i \in 1..Len(t) :
            t[i] = IF i <= Len(frames) THEN frames[i] ELSE s[i - Len(frames)]
  BY <1>1, ConcatProperties
<1> HIDE DEF t
<1>3. ASSUME NEW i \in 1..Len(t), t[i].fresh
      PROVE  t[i].contain /\ (i > 1 => t[i - 1].contain)
  <2>1. CASE i <= Len(frames)
    <3>1. i \in 1..Len(frames) /\ t[i] = frames[i]
      BY <1>1, <1>2, <2>1
    <3>2. i > 1 => i - 1 \in 1..Len(frames) /\ t[i - 1] = frames[i - 1]
      BY <1>1, <1>2, <2>1
    <3> QED
      BY <1>3, <3>1, <3>2 DEF Sound, Isolated
  <2>2. CASE i > Len(frames)
    <3> DEFINE j == i - Len(frames)
    <3>1. j \in 1..Len(s) /\ t[i] = s[j] /\ s # <<>>
      BY <1>1, <1>2, <2>2
    <3>2. j # 1
      BY <1>3, <3>1
    <3>3. j > 1 /\ j - 1 \in 1..Len(s)
      BY <1>1, <1>2, <3>1, <3>2
    <3>4. i - 1 \in 1..Len(t) /\ ~(i - 1 <= Len(frames)) /\ (i - 1) - Len(frames) = j - 1
      BY <1>1, <1>2, <2>2, <3>3
    <3>5. t[i - 1] = s[j - 1]
      BY <1>2, <3>4
    <3> HIDE DEF j
    <3> QED
      BY <1>3, <3>1, <3>3, <3>5 DEF Sound, Isolated
  <2> QED
    BY <1>1, <1>2, <2>1, <2>2
<1> QED
  BY <1>2, <1>3 DEF Sound, Isolated, t

LEMMA OneIsSound ==
  ASSUME NEW f \in Frames, ~f.fresh
  PROVE  Sound(<<f>>)
  BY DEF Sound, Isolated

LEMMA FrameIsTyped ==
  ASSUME NEW e \in Seq(EffectSet), NEW d \in 0..MaxDepth, NEW c \in BOOLEAN
  PROVE  Frame(e, d, c) \in Frames /\ ~Frame(e, d, c).fresh
         /\ Frame(e, d, c).effects = e /\ Sound(<<Frame(e, d, c)>>)
<1>1. Frame(e, d, c) \in Frames /\ ~Frame(e, d, c).fresh
  BY DEF Frame, Frames
<1> QED
  BY <1>1, OneIsSound DEF Frame

LEMMA ReturnIsSound ==
  ASSUME SoundStack(stack), stack # <<>>, Return
  PROVE  SoundStack(stack') /\ lost' = lost
  BY CallerIsSound, SettleIsSound DEF Return

LEMMA CallIsSound ==
  ASSUME SoundStack(stack), stack # <<>>, NEW frames, Sound(frames), Call(frames)
  PROVE  SoundStack(stack') /\ lost' = lost
  BY CallerIsSound, PushIsSound, SettleIsSound DEF Call

LEMMA FailIsSound ==
  ASSUME SoundStack(stack), stack # <<>>, lost = FALSE, Fail
  PROVE  SoundStack(stack') /\ lost' = FALSE
<1> DEFINE walls == {i \in DOMAIN Caller : Caller[i].contain \/ i = Len(Caller)}
           wall == Min(walls)
<1>1. Sound(Caller) /\ Len(Caller) \in Nat \ {0} /\ DOMAIN Caller = 1..Len(Caller)
  BY CallerIsSound DEF Sound
<1>2. walls \in SUBSET Nat /\ Len(Caller) \in walls
  BY <1>1
<1>3. wall \in walls /\ \A x \in walls : wall <= x
  BY <1>2, MinProperties
<1>4. wall \in 1..Len(Caller) /\ wall + 1 \in 1..(Len(Caller) + 1)
  BY <1>1, <1>3
<1>5. \A x \in 1..Len(Caller) : Caller[x].contain => wall <= x
  BY <1>1, <1>3
<1>6. /\ stack' = Settle(SubSeq(Caller, wall + 1, Len(Caller)))
      /\ lost' = (lost \/ \E i \in 1..wall : Caller[i].fresh)
  BY DEF Fail
<1> HIDE DEF wall, walls
<1>7. ~ \E i \in 1..wall : Caller[i].fresh
  <2> SUFFICES ASSUME NEW i \in 1..wall, Caller[i].fresh
               PROVE  FALSE
    OBVIOUS
  <2>1. i > 1 /\ i \in 1..Len(Caller) /\ i - 1 \in 1..Len(Caller)
    BY <1>1, <1>4, CallerIsSound
  <2>2. Caller[i - 1].contain
    BY <1>1, <2>1 DEF Sound, Isolated
  <2>3. wall <= i - 1
    BY <1>5, <2>1, <2>2
  <2> QED
    BY <1>4, <2>1, <2>3
<1>8. Sound(SubSeq(Caller, wall + 1, Len(Caller)))
  BY <1>1, <1>4, DropIsSound
<1> QED
  BY <1>6, <1>7, <1>8, SettleIsSound DEF Fail

-----------------------------------------------------------------------------
(***************************************************************************)
(* The type invariant in an inductive form: the calls under way are sound, *)
(* and no subscriber has lost its effects.                                 *)
(***************************************************************************)
Screens == Seq([id : Name, rows : SUBSET Plugin])
RegistryOK ==
  /\ enabled \subseteq Plugin /\ Core \subseteq enabled
  /\ cache \subseteq CommandFile /\ files \subseteq CommandFile
  /\ index \in [Name -> Plugin \cup {NoOwner}]
  /\ disk \subseteq Optional
  /\ skipped \in BOOLEAN /\ unsaved \in BOOLEAN /\ astray \in BOOLEAN
SessionOK ==
  /\ screens \in Screens
  /\ trust \in {"unset", "always", "session"} /\ remembered \in BOOLEAN
  /\ stash \in ShellFile \cup {NoName}
  /\ prefix \in BOOLEAN /\ block \in {"no", "prompt", "stop"}
LoopOK ==
  /\ prompt \in {"none", "hooks", "turn"} /\ running \in BOOLEAN
  /\ commands \in 0..MaxCommands
CallsOK == SoundStack(stack) /\ lost = FALSE
TypeInv == RegistryOK /\ SessionOK /\ LoopOK /\ CallsOK

LEMMA EffectIsTyped ==
  ASSUME NEW op \in Ops, NEW of \in Subjects,
         op = "reindex" => of = User, op = "stash" => of \in ShellFile,
         op = "trust" => of \in Levels, op = "block" => of \in {"prompt", "stop"}
  PROVE  Effect(op, of) \in EffectSet
  BY DEF Effect, EffectSet

LEMMA WasmIsTyped == WasmScripts \subseteq Seq(EffectSet)
<1>1. WasmEffects \subseteq EffectSet
  <2> SUFFICES ASSUME NEW op \in {"run", "open", "save"},
                      NEW n \in Name \cup {NoName}
               PROVE  Effect(op, n) \in EffectSet
    BY DEF WasmEffects
  <2> QED
    BY EffectIsTyped DEF Ops, Subjects
<1>2. Seq(WasmEffects) \subseteq Seq(EffectSet)
  BY <1>1, SeqMonotonic
<1> QED
  BY <1>2, RuntimeAssumption

LEMMA AnswersAreTyped ==
  ASSUME RegistryOK, NEW n \in Name
  PROVE  Answers(n) \subseteq Seq(EffectSet)
<1>1. UserCommand(n) \in Seq(EffectSet)
  <2>1. Effect("reindex", User) \in EffectSet
    BY EffectIsTyped, PluginsAssumption DEF Ops, Subjects
  <2>2. Open("trust.modal") \in EffectSet
    BY EffectIsTyped DEF Open, Ops, Subjects
  <2>3. n \in ShellFile => Effect("stash", n) \in EffectSet
    BY EffectIsTyped DEF Ops, Subjects
  <2> QED
    BY <2>1, <2>2, <2>3 DEF UserCommand
<1>2. <<Effect("save", n)>> \in Seq(EffectSet)
  BY EffectIsTyped DEF Ops, Subjects
<1>3. <<Open("plugins.manager")>> \in Seq(EffectSet)
  BY EffectIsTyped DEF Open, Ops, Subjects
<1>4. <<>> \in Seq(EffectSet)
  BY EmptySeq
<1>5. \A S \in {{UserCommand(n)}, WasmScripts, {<<Effect("save", n)>>},
              {<<Open("plugins.manager")>>}, {<<>>}} : S \subseteq Seq(EffectSet)
  BY <1>1, <1>2, <1>3, <1>4, WasmIsTyped
<1>6. Answers(n) \in {{UserCommand(n)}, WasmScripts, {<<Effect("save", n)>>},
                     {<<Open("plugins.manager")>>}, {<<>>}}
  BY DEF Answers
<1> QED
  BY <1>5, <1>6

LEMMA ReactionsAreTyped ==
  ASSUME NEW p \in Plugin, NEW event
  PROVE  Reactions(p, event) \subseteq Seq(EffectSet)
<1>1. Effect("prefix", p) \in EffectSet
  BY EffectIsTyped DEF Ops, Subjects
<1>2. Effect("block", "prompt") \in EffectSet /\ Effect("block", "stop") \in EffectSet
  BY EffectIsTyped DEF Ops, Subjects
<1>3. /\ <<>> \in Seq(EffectSet)
      /\ <<Effect("prefix", p)>> \in Seq(EffectSet)
      /\ <<Effect("block", "prompt")>> \in Seq(EffectSet)
      /\ <<Effect("block", "stop")>> \in Seq(EffectSet)
      /\ <<Effect("prefix", p), Effect("block", "prompt")>> \in Seq(EffectSet)
  BY <1>1, <1>2
<1>4. CASE p \in Wasm
  BY <1>4, WasmIsTyped DEF Reactions
<1>5. CASE p \notin Wasm
  <2>1. CASE event = "prompt"
    BY <1>3, <1>5, <2>1, Zenon DEF Reactions
  <2>2. CASE event = "end"
    BY <1>3, <1>5, <2>2, Zenon DEF Reactions
  <2>3. CASE event \notin {"prompt", "end"}
    BY <1>3, <1>5, <2>3 DEF Reactions
  <2> QED
    BY <2>1, <2>2, <2>3
<1> QED
  BY <1>4, <1>5

(***************************************************************************)
(* The batches of an event's subscribers are contained, each one.          *)
(***************************************************************************)
LEMMA DispatchIsSound ==
  ASSUME RegistryOK, NEW event, NEW depth \in 0..MaxDepth,
         NEW batches \in Dispatches(event, depth)
  PROVE  Sound(batches)
<1>1. PICK order \in SetToSeqs(Subscribers),
           reaction \in {r \in [Subscribers -> AllReactions(event)] :
                           \A p \in Subscribers : r[p] \in Reactions(p, event)} :
        batches = [i \in DOMAIN order |-> Batch(reaction[order[i]], depth)]
  BY DEF Dispatches
<1>2. Subscribers \subseteq Plugin /\ Cardinality(Subscribers) \in Nat
  <2>1. Subscribers \subseteq Plugin
    BY DEF Subscribers, RegistryOK
  <2>2. IsFiniteSet(Subscribers)
    BY <2>1, FS_Subset, RuntimeAssumption
  <2> QED
    BY <2>1, <2>2, FS_CardinalityType
<1>3. order \in [1..Cardinality(Subscribers) -> Subscribers]
  BY DEF SetToSeqs
<1>4. ASSUME NEW p \in Subscribers
      PROVE  Batch(reaction[p], depth) \in Frames /\ Batch(reaction[p], depth).contain
  <2>1. reaction[p] \in Seq(EffectSet)
    BY <1>2, ReactionsAreTyped
  <2> QED
    BY <2>1 DEF Batch, Frame, Frames
<1>5. batches \in [1..Cardinality(Subscribers) -> Frames]
  BY <1>1, <1>3, <1>4
<1>6. batches \in Seq(Frames) /\ Len(batches) = Cardinality(Subscribers)
  BY <1>2, <1>5, IsASeq, LenProperties
<1>7. \A i \in 1..Len(batches) : batches[i].contain
  BY <1>1, <1>3, <1>4, <1>6
<1> QED
  BY <1>2, <1>6, <1>7 DEF Sound, Isolated

LEMMA StartIsSound ==
  ASSUME NEW effects \in Seq(EffectSet), lost = FALSE, Start(effects)
  PROVE  CallsOK'
<1>1. 0 \in 0..MaxDepth /\ TRUE \in BOOLEAN
  BY RuntimeAssumption
<1>2. Sound(<<Frame(effects, 0, TRUE)>>)
  BY <1>1, FrameIsTyped
<1> QED
  BY <1>2, SettleIsSound DEF Start, CallsOK

LEMMA BuildIsTyped ==
  ASSUME NEW e \in SUBSET Plugin, NEW c
  PROVE  Build(e, c) \in [Name -> Plugin \cup {NoOwner}]
  BY DEF Build

LEMMA InitIsTyped == Init => TypeInv
<1> SUFFICES ASSUME Init PROVE TypeInv
  OBVIOUS
<1>1. RegistryOK
  BY BuildIsTyped, PluginsAssumption DEF Init, RegistryOK, Optional
<1>2. SessionOK
  <2>1. trust \in {"unset", "always", "session"} /\ remembered \in BOOLEAN
    BY DEF Init
  <2>2. screens \in Screens
    BY EmptySeq DEF Init, Screens
  <2> QED
    BY <2>1, <2>2 DEF Init, SessionOK
<1>3. LoopOK
  BY RuntimeAssumption DEF Init, LoopOK
<1>4. CallsOK
  BY EmptyIsSound DEF Init, CallsOK
<1> QED
  BY <1>1, <1>2, <1>3, <1>4 DEF TypeInv

(***************************************************************************)
(* What the effect at hand is.                                             *)
(***************************************************************************)
LEMMA SubjectIsTyped ==
  ASSUME CallsOK, NEW op, Doing(op)
  PROVE  /\ stack # <<>> /\ Top.depth \in 0..MaxDepth /\ Subject \in Subjects
         /\ op = "reindex" => Subject = User
         /\ op = "stash" => Subject \in ShellFile
         /\ op = "trust" => Subject \in Levels
         /\ op = "block" => Subject \in {"prompt", "stop"}
<1>1. stack # <<>> /\ Head(Effects) \in EffectSet /\ Top.depth \in 0..MaxDepth
  BY CallerIsSound DEF CallsOK, Doing
<1>2. Head(Effects).op = op
  BY DEF Doing
<1> QED
  BY <1>1, <1>2 DEF EffectSet, Subject

LEMMA ReturnKeepsCalls == CallsOK /\ stack # <<>> /\ Return => CallsOK'
  BY ReturnIsSound DEF CallsOK

LEMMA FailKeepsCalls == CallsOK /\ stack # <<>> /\ Fail => CallsOK'
  BY FailIsSound DEF CallsOK

LEMMA CallKeepsCalls ==
  ASSUME CallsOK, stack # <<>>, NEW frames, Sound(frames), Call(frames)
  PROVE  CallsOK'
  BY CallIsSound DEF CallsOK

LEMMA RunSlashIsTyped == TypeInv /\ RunSlash => TypeInv'
<1> SUFFICES ASSUME TypeInv, RunSlash PROVE TypeInv'
  OBVIOUS
<1> USE DEF TypeInv
<1>1. stack # <<>> /\ Top.depth \in 0..MaxDepth /\ MaxDepth \in Nat
  BY SubjectIsTyped, RuntimeAssumption DEF RunSlash
<1>2. CASE Top.depth >= MaxDepth \/ ~Known(Subject)
  <2>1. Fail /\ UNCHANGED <<enabled, cache, index, files, disk, flags, session, loop>>
    BY <1>2 DEF RunSlash
  <2> QED
    BY <1>1, <2>1, FailKeepsCalls DEF RegistryOK, SessionOK, LoopOK, flags, session,
       loop, trusting, verdict
<1>3. CASE ~(Top.depth >= MaxDepth) /\ Known(Subject)
  <2>1. /\ cache' = IF Subject = "reload-commands" THEN files ELSE cache
        /\ UNCHANGED <<enabled, index, files, disk, flags, session, loop>>
    BY <1>3 DEF RunSlash
  <2>2. PICK effects \in Answers(Subject) :
           Call(<<Frame(effects, Top.depth + 1, FALSE)>>)
    BY <1>3 DEF RunSlash
  <2>3. effects \in Seq(EffectSet)
    BY <1>3, <2>2, AnswersAreTyped DEF Known
  <2>4. Top.depth + 1 \in 0..MaxDepth
    BY <1>1, <1>3
  <2>5. Sound(<<Frame(effects, Top.depth + 1, FALSE)>>)
    BY <2>3, <2>4, FrameIsTyped
  <2>6. CallsOK'
    BY <1>1, <2>2, <2>5, CallKeepsCalls
  <2> QED
    BY <2>1, <2>6 DEF RegistryOK, SessionOK, LoopOK, flags, session, loop,
       trusting, verdict
<1> QED
  BY <1>2, <1>3

LEMMA ScreensAreTyped ==
  ASSUME NEW s \in Screens, NEW id \in Name, NEW rows \in SUBSET Plugin
  PROVE  /\ Append(s, [id |-> id, rows |-> rows]) \in Screens
         /\ s # <<>> => Front(s) \in Screens
<1>1. [id |-> id, rows |-> rows] \in [id : Name, rows : SUBSET Plugin]
  OBVIOUS
<1>2. Append(s, [id |-> id, rows |-> rows]) \in Screens
  BY <1>1, AppendProperties DEF Screens
<1>3. ASSUME s # <<>> PROVE Front(s) \in Screens
  <2>1. Len(s) \in Nat /\ s \in Seq([id : Name, rows : SUBSET Plugin])
    BY DEF Screens
  <2>2. \A i \in 1..(Len(s) - 1) : s[i] \in [id : Name, rows : SUBSET Plugin]
    <3> SUFFICES ASSUME NEW i \in 1..(Len(s) - 1)
                 PROVE  s[i] \in [id : Name, rows : SUBSET Plugin]
      OBVIOUS
    <3>1. i \in 1..Len(s)
      BY <2>1
    <3> QED
      BY <2>1, <3>1, ElementOfSeq
  <2> QED
    BY <2>1, <2>2, SubSeqProperties DEF Front, Screens
<1> QED
  BY <1>2, <1>3

LEMMA OpenScreenIsTyped == TypeInv /\ OpenScreen => TypeInv'
<1> SUFFICES ASSUME TypeInv, OpenScreen PROVE TypeInv'
  OBVIOUS
<1> USE DEF TypeInv
<1>1. stack # <<>>
  BY SubjectIsTyped DEF OpenScreen
<1>2. UNCHANGED <<registry, trusting, verdict, loop>>
  BY DEF OpenScreen
<1>3. CallsOK'
  BY <1>1, ReturnKeepsCalls, FailKeepsCalls DEF OpenScreen
<1>4. screens' \in Screens
  <2>1. CASE Known(Subject)
    BY <2>1, ScreensAreTyped DEF OpenScreen, Known, SessionOK, RegistryOK
  <2>2. CASE ~Known(Subject)
    BY <2>2 DEF OpenScreen, SessionOK
  <2> QED
    BY <2>1, <2>2
<1> QED
  BY <1>2, <1>3, <1>4 DEF RegistryOK, SessionOK, LoopOK,
     registry, flags, session, loop, trusting, verdict

LEMMA CloseScreenIsTyped == TypeInv /\ CloseScreen => TypeInv'
<1> SUFFICES ASSUME TypeInv, CloseScreen PROVE TypeInv'
  OBVIOUS
<1> USE DEF TypeInv
<1>1. CallsOK'
  BY SubjectIsTyped, ReturnKeepsCalls DEF CloseScreen
<1>2. screens' \in Screens
  <2>1. screens # <<>> => Front(screens) \in Screens
    <3>1. \E n \in Name : TRUE
      BY RuntimeAssumption, PluginsAssumption
    <3> QED
      BY <3>1, ScreensAreTyped DEF SessionOK
  <2> QED
    BY <2>1 DEF CloseScreen, SessionOK
<1> QED
  BY <1>1, <1>2 DEF CloseScreen, RegistryOK, SessionOK, LoopOK,
     registry, flags, session, loop, trusting, verdict

LEMMA SaveTranscriptIsTyped == TypeInv /\ SaveTranscript => TypeInv'
<1> SUFFICES ASSUME TypeInv, SaveTranscript PROVE TypeInv'
  OBVIOUS
<1> USE DEF TypeInv
<1>1. stack # <<>> /\ Top.depth \in 0..MaxDepth /\ MaxDepth \in Nat
  BY SubjectIsTyped, RuntimeAssumption DEF SaveTranscript
<1>2. CallsOK'
  <2>1. CASE Top.depth + 1 >= MaxDepth
    BY <1>1, <2>1, ReturnKeepsCalls DEF SaveTranscript
  <2>2. CASE ~(Top.depth + 1 >= MaxDepth)
    <3>1. PICK batches \in Dispatches("saved", Top.depth + 1) : Call(batches)
      BY <2>2 DEF SaveTranscript
    <3>2. Top.depth + 1 \in 0..MaxDepth
      BY <1>1, <2>2
    <3> QED
      BY <1>1, <3>1, <3>2, DispatchIsSound, CallKeepsCalls
  <2> QED
    BY <2>1, <2>2
<1> QED
  BY <1>2 DEF SaveTranscript, RegistryOK, SessionOK, LoopOK,
     registry, flags, session, loop, trusting, verdict

LEMMA ReindexPluginIsTyped == TypeInv /\ ReindexPlugin => TypeInv'
<1> SUFFICES ASSUME TypeInv, ReindexPlugin PROVE TypeInv'
  OBVIOUS
<1> USE DEF TypeInv
<1>1. CallsOK'
  BY SubjectIsTyped, ReturnKeepsCalls DEF ReindexPlugin
<1>2. index' \in [Name -> Plugin \cup {NoOwner}]
  <2>1. Subject \in Plugin
    BY SubjectIsTyped, PluginsAssumption DEF ReindexPlugin
  <2> QED
    BY <2>1 DEF ReindexPlugin, Reindex, RegistryOK
<1>3. skipped' \in BOOLEAN
  BY DEF ReindexPlugin
<1> QED
  BY <1>1, <1>2, <1>3 DEF ReindexPlugin, RegistryOK, SessionOK, LoopOK,
     registry, flags, session, loop, trusting, verdict

LEMMA ToggleIsTyped ==
  ASSUME RegistryOK, NEW p \in Optional, NEW on, Toggle(p, on)
  PROVE  /\ enabled' \subseteq Plugin /\ Core \subseteq enabled'
         /\ index' \in [Name -> Plugin \cup {NoOwner}]
         /\ disk' \subseteq Optional
         /\ skipped' \in BOOLEAN /\ unsaved' \in BOOLEAN /\ astray' \in BOOLEAN
<1>1. \A b : SetEnabled(p, b) \in SUBSET Plugin /\ Core \subseteq SetEnabled(p, b)
  BY DEF SetEnabled, Optional, RegistryOK
<1>2. Build(SetEnabled(p, on), cache) \in [Name -> Plugin \cup {NoOwner}]
  BY <1>1, BuildIsTyped
<1>3. SetEnabled(p, on) \ Core \subseteq Optional
  BY <1>1 DEF Optional
<1>4. CASE Clash(SetEnabled(p, on), cache)
  BY <1>1, <1>4 DEF Toggle, RegistryOK
<1>5. CASE ~Clash(SetEnabled(p, on), cache)
  BY <1>1, <1>2, <1>3, <1>5 DEF Toggle, RegistryOK
<1> QED
  BY <1>4, <1>5

LEMMA TogglePluginIsTyped == TypeInv /\ TogglePlugin => TypeInv'
<1> SUFFICES ASSUME TypeInv, TogglePlugin PROVE TypeInv'
  OBVIOUS
<1> USE DEF TypeInv
<1>1. CallsOK'
  BY SubjectIsTyped, ReturnKeepsCalls DEF TogglePlugin
<1>2. UNCHANGED <<cache, files, session, loop>>
  BY DEF TogglePlugin
<1>3. CASE Subject \in Optional
  <2>1. Toggle(Subject, Head(Effects).on)
    BY <1>3 DEF TogglePlugin
  <2> QED
    BY <1>1, <1>2, <1>3, <2>1, ToggleIsTyped DEF RegistryOK, SessionOK, LoopOK,
     registry, flags, session, loop, trusting, verdict
<1>4. CASE Subject \notin Optional
  BY <1>1, <1>2, <1>4 DEF TogglePlugin, RegistryOK, SessionOK, LoopOK,
     registry, flags, session, loop, trusting, verdict
<1> QED
  BY <1>3, <1>4

LEMMA SetTrustLevelIsTyped == TypeInv /\ SetTrustLevel => TypeInv'
<1> SUFFICES ASSUME TypeInv, SetTrustLevel PROVE TypeInv'
  OBVIOUS
<1> USE DEF TypeInv
<1>1. /\ stack # <<>> /\ Top.depth \in 0..MaxDepth /\ MaxDepth \in Nat
      /\ Subject \in Levels
  BY SubjectIsTyped, RuntimeAssumption DEF SetTrustLevel
<1>2. CallsOK'
  <2>1. CASE Return
    BY <1>1, <2>1, ReturnKeepsCalls
  <2>2. CASE /\ Top.depth + 1 < MaxDepth /\ stash # NoName
             /\ Call(<<Frame(<<Run(stash)>>, Top.depth + 1, TRUE)>>)
    <3>1. Run(stash) \in EffectSet
      <4>1. stash \in Subjects
        BY <2>2, RuntimeAssumption DEF SessionOK, Subjects
      <4> QED
        BY <4>1, EffectIsTyped DEF Run, Ops
    <3>2. <<Run(stash)>> \in Seq(EffectSet) /\ Top.depth + 1 \in 0..MaxDepth
      BY <1>1, <2>2, <3>1
    <3>3. Sound(<<Frame(<<Run(stash)>>, Top.depth + 1, TRUE)>>)
      BY <3>2, FrameIsTyped
    <3> QED
      BY <1>1, <2>2, <3>3, CallKeepsCalls
  <2> QED
    BY <2>1, <2>2 DEF SetTrustLevel
<1>3. trust' \in {"unset", "always", "session"} /\ remembered' \in BOOLEAN
  BY <1>1 DEF SetTrustLevel, Levels, SessionOK
<1>4. stash' = NoName /\ UNCHANGED <<registry, screens, prefix, block, loop>>
  BY DEF SetTrustLevel
<1> QED
  BY <1>2, <1>3, <1>4 DEF RegistryOK, SessionOK, LoopOK,
     registry, flags, session, loop, trusting, verdict

LEMMA StashPendingSlashIsTyped == TypeInv /\ StashPendingSlash => TypeInv'
<1> SUFFICES ASSUME TypeInv, StashPendingSlash PROVE TypeInv'
  OBVIOUS
<1> USE DEF TypeInv
<1>1. CallsOK'
  BY SubjectIsTyped, ReturnKeepsCalls DEF StashPendingSlash
<1>2. stash' \in ShellFile \cup {NoName}
  BY SubjectIsTyped DEF StashPendingSlash
<1> QED
  BY <1>1, <1>2 DEF StashPendingSlash, RegistryOK, SessionOK, LoopOK,
     registry, flags, session, loop, trusting, verdict

LEMMA PrependToPendingPromptIsTyped == TypeInv /\ PrependToPendingPrompt => TypeInv'
<1> SUFFICES ASSUME TypeInv, PrependToPendingPrompt PROVE TypeInv'
  OBVIOUS
<1> USE DEF TypeInv
<1>1. CallsOK'
  BY SubjectIsTyped, ReturnKeepsCalls DEF PrependToPendingPrompt
<1> QED
  BY <1>1 DEF PrependToPendingPrompt, RegistryOK, SessionOK, LoopOK,
     registry, flags, session, loop, trusting, verdict

LEMMA CancelPendingTurnIsTyped == TypeInv /\ CancelPendingTurn => TypeInv'
<1> SUFFICES ASSUME TypeInv, CancelPendingTurn PROVE TypeInv'
  OBVIOUS
<1> USE DEF TypeInv
<1>1. CallsOK'
  BY SubjectIsTyped, ReturnKeepsCalls DEF CancelPendingTurn
<1>2. block' \in {"no", "prompt", "stop"}
  BY SubjectIsTyped DEF CancelPendingTurn
<1> QED
  BY <1>1, <1>2 DEF CancelPendingTurn, RegistryOK, SessionOK, LoopOK,
     registry, flags, session, loop, trusting, verdict

LEMMA ApplyEffectIsTyped == TypeInv /\ ApplyEffect => TypeInv'
  BY RunSlashIsTyped, OpenScreenIsTyped, CloseScreenIsTyped,
     SaveTranscriptIsTyped, ReindexPluginIsTyped, TogglePluginIsTyped,
     StashPendingSlashIsTyped, SetTrustLevelIsTyped,
     PrependToPendingPromptIsTyped, CancelPendingTurnIsTyped DEF ApplyEffect

LEMMA CommandIsTyped ==
  ASSUME LoopOK, Command, prompt' \in {"none", "hooks", "turn"}, running' \in BOOLEAN
  PROVE  LoopOK'
  BY RuntimeAssumption DEF LoopOK, Command

(***************************************************************************)
(* What the event loop starts.                                             *)
(***************************************************************************)
LEMMA TypeSlashIsTyped ==
  ASSUME TypeInv, NEW n \in Name, TypeSlash(n)
  PROVE  TypeInv'
<1> USE DEF TypeInv
<1>1. PICK effects \in Answers(n) : Start(effects)
  BY DEF TypeSlash
<1>2. CallsOK'
  BY <1>1, AnswersAreTyped, StartIsSound DEF CallsOK
<1>3. LoopOK'
  BY CommandIsTyped DEF TypeSlash, LoopOK
<1> QED
  BY <1>2, <1>3 DEF TypeSlash, RegistryOK, SessionOK, LoopOK,
     registry, flags, session, loop, trusting, verdict

LEMMA DecideTrustIsTyped ==
  ASSUME TypeInv, NEW level \in Levels, DecideTrust(level)
  PROVE  TypeInv'
<1> USE DEF TypeInv
<1>1. CallsOK'
  <2>1. Effect("trust", level) \in EffectSet /\ Effect("close", "trust.modal") \in EffectSet
    BY EffectIsTyped DEF Ops, Subjects
  <2>2. <<Effect("trust", level), Effect("close", "trust.modal")>> \in Seq(EffectSet)
    BY <2>1
  <2> QED
    BY <2>2, StartIsSound DEF DecideTrust, CallsOK
<1>2. LoopOK'
  BY CommandIsTyped DEF DecideTrust, LoopOK
<1> QED
  BY <1>1, <1>2 DEF DecideTrust, RegistryOK, SessionOK, LoopOK,
     registry, flags, session, loop, trusting, verdict

LEMMA PressRowIsTyped ==
  ASSUME TypeInv, NEW p \in Optional, PressRow(p)
  PROVE  TypeInv'
<1> USE DEF TypeInv
<1> DEFINE row == p \notin Last(screens).rows
           toggle == [Effect("toggle", p) EXCEPT !.on = row]
<1>1. CallsOK'
  <2>1. toggle \in EffectSet
    BY DEF Effect, EffectSet, Ops, Subjects, Optional
  <2>2. <<toggle>> \in Seq(EffectSet)
    BY <2>1
  <2> QED
    BY <2>2, StartIsSound DEF PressRow, CallsOK
<1>2. LoopOK'
  BY CommandIsTyped DEF PressRow, LoopOK
<1>3. screens' \in Screens
  <2>1. /\ screens \in Seq([id : Name, rows : SUBSET Plugin])
        /\ screens # <<>> /\ Len(screens) \in Nat \ {0}
    BY EmptySeq DEF PressRow, Shows, SessionOK, Screens
  <2>2. Len(screens) \in 1..Len(screens)
    BY <2>1
  <2>3. screens[Len(screens)] \in [id : Name, rows : SUBSET Plugin]
    BY <2>1, <2>2, ElementOfSeq
  <2>4. [screens[Len(screens)] EXCEPT !.rows = IF row THEN @ \cup {p} ELSE @ \ {p}]
          \in [id : Name, rows : SUBSET Plugin]
    BY <2>3 DEF Optional
  <2>5. screens' = [screens EXCEPT ![Len(screens)] =
                      [screens[Len(screens)] EXCEPT
                         !.rows = IF row THEN @ \cup {p} ELSE @ \ {p}]]
    BY <2>1, <2>2 DEF PressRow
  <2> HIDE DEF row
  <2> QED
    BY <2>1, <2>2, <2>4, <2>5, ExceptSeq DEF Screens
<1> QED
  BY <1>1, <1>2, <1>3 DEF PressRow, RegistryOK, SessionOK, LoopOK,
     registry, flags, session, loop, trusting, verdict

LEMMA LeavePluginsIsTyped == TypeInv /\ LeavePlugins => TypeInv'
<1> SUFFICES ASSUME TypeInv, LeavePlugins PROVE TypeInv'
  OBVIOUS
<1> USE DEF TypeInv
<1>1. CallsOK'
  <2>1. <<Effect("close", "plugins.manager")>> \in Seq(EffectSet)
    BY EffectIsTyped DEF Ops, Subjects
  <2> QED
    BY <2>1, StartIsSound DEF LeavePlugins, CallsOK
<1>2. LoopOK'
  BY CommandIsTyped DEF LeavePlugins, LoopOK
<1> QED
  BY <1>1, <1>2 DEF LeavePlugins, RegistryOK, SessionOK, LoopOK,
     registry, flags, session, loop, trusting, verdict

LEMMA DispatchStarts ==
  ASSUME TypeInv, NEW event, NEW batches \in Dispatches(event, 0),
         stack' = Settle(batches), lost' = lost
  PROVE  CallsOK'
<1>1. 0 \in 0..MaxDepth
  BY RuntimeAssumption
<1> QED
  BY <1>1, DispatchIsSound, SettleIsSound DEF TypeInv, CallsOK

LEMMA PromptIsTyped ==
  TypeInv /\ (SubmitPrompt \/ SendPrompt \/ TurnEnds) => TypeInv'
<1> SUFFICES ASSUME TypeInv, SubmitPrompt \/ SendPrompt \/ TurnEnds PROVE TypeInv'
  OBVIOUS
<1>1. CASE SubmitPrompt
  <2>1. CallsOK'
    BY <1>1, DispatchStarts DEF SubmitPrompt
  <2>2. LoopOK'
    BY <1>1, CommandIsTyped DEF SubmitPrompt, LoopOK, TypeInv
  <2> QED
    BY <1>1, <2>1, <2>2 DEF SubmitPrompt, TypeInv, RegistryOK, SessionOK, LoopOK,
       registry, flags, session, loop, trusting, verdict
<1>2. CASE SendPrompt
  BY <1>2 DEF SendPrompt, TypeInv, CallsOK, RegistryOK, SessionOK, LoopOK,
     registry, flags, session, loop, trusting, verdict
<1>3. CASE TurnEnds
  <2>1. CallsOK'
    BY <1>3, DispatchStarts DEF TurnEnds
  <2> QED
    BY <1>3, <2>1 DEF TurnEnds, TypeInv, RegistryOK, SessionOK, LoopOK,
       registry, flags, session, loop, trusting, verdict
<1> QED
  BY <1>1, <1>2, <1>3

LEMMA EditFilesIsTyped == TypeInv /\ EditFiles => TypeInv'
<1> SUFFICES ASSUME TypeInv, EditFiles PROVE TypeInv'
  OBVIOUS
<1>1. files' \subseteq CommandFile
  BY DEF EditFiles, SymDiff, TypeInv, RegistryOK
<1>2. LoopOK'
  BY CommandIsTyped DEF EditFiles, LoopOK, TypeInv
<1>3. CallsOK'
  BY DEF EditFiles, TypeInv, CallsOK
<1> QED
  BY <1>1, <1>2, <1>3 DEF EditFiles, TypeInv, RegistryOK, SessionOK, LoopOK,
     registry, flags, session, loop, trusting, verdict

LEMMA RestartIsTyped == TypeInv /\ Restart => TypeInv'
<1> SUFFICES ASSUME TypeInv, Restart PROVE TypeInv'
  OBVIOUS
<1>1. Core \cup disk \in SUBSET Plugin
  BY PluginsAssumption DEF TypeInv, RegistryOK, Optional
<1>2. index' \in [Name -> Plugin \cup {NoOwner}]
  BY <1>1, BuildIsTyped DEF Restart, TypeInv, RegistryOK
<1>3. RegistryOK'
  BY <1>1, <1>2 DEF Restart, TypeInv, RegistryOK
<1>4. SessionOK'
  BY EmptySeq DEF Restart, TypeInv, SessionOK, Screens
<1>5. LoopOK'
  <2>1. running' \in BOOLEAN
    BY DEF Restart
  <2> QED
    BY <2>1, CommandIsTyped DEF Restart, TypeInv
<1>6. CallsOK'
  BY DEF Restart, TypeInv, CallsOK
<1> QED
  BY <1>3, <1>4, <1>5, <1>6 DEF TypeInv

LEMMA StepIsTyped == TypeInv /\ [Next]_vars => TypeInv'
<1>1. TypeInv /\ UNCHANGED vars => TypeInv'
  BY DEF vars, TypeInv, CallsOK, RegistryOK, SessionOK, LoopOK,
     registry, flags, session, loop, trusting, verdict
<1> QED
  BY <1>1, ApplyEffectIsTyped, TypeSlashIsTyped, DecideTrustIsTyped,
     PressRowIsTyped, LeavePluginsIsTyped, PromptIsTyped, EditFilesIsTyped,
     RestartIsTyped DEF Next, Levels

LEMMA TypeInvImplies == TypeInv => TypeOK /\ SubscribersAreIsolated
<1> SUFFICES ASSUME TypeInv PROVE TypeOK /\ SubscribersAreIsolated
  OBVIOUS
<1> USE DEF TypeInv
<1>1. \A i \in DOMAIN screens :
         screens[i].id \in Name /\ screens[i].rows \subseteq Plugin
  <2> SUFFICES ASSUME NEW i \in DOMAIN screens
               PROVE  screens[i].id \in Name /\ screens[i].rows \subseteq Plugin
    OBVIOUS
  <2>1. screens \in Seq([id : Name, rows : SUBSET Plugin])
    BY DEF SessionOK, Screens
  <2>2. screens[i] \in [id : Name, rows : SUBSET Plugin]
    BY <2>1, LenProperties, ElementOfSeq
  <2> QED
    BY <2>2
<1>2. \A i \in DOMAIN stack :
        /\ stack[i].depth \in 0..MaxDepth
        /\ \A j \in DOMAIN stack[i].effects : stack[i].effects[j].op \in Ops
  <2> SUFFICES ASSUME NEW i \in DOMAIN stack
               PROVE  /\ stack[i].depth \in 0..MaxDepth
                      /\ \A j \in DOMAIN stack[i].effects : stack[i].effects[j].op \in Ops
    OBVIOUS
  <2>1. stack[i] \in Frames
    BY DEF CallsOK, SoundStack, Sound
  <2>2. stack[i].depth \in 0..MaxDepth /\ stack[i].effects \in Seq(EffectSet)
    BY <2>1 DEF Frames
  <2>3. \A j \in DOMAIN stack[i].effects : stack[i].effects[j] \in EffectSet
    BY <2>2
  <2> QED
    BY <2>2, <2>3 DEF EffectSet
<1>3. stack # <<>> => Effects # <<>>
  BY DEF CallsOK, SoundStack, Effects, Top
<1> QED
  BY <1>1, <1>2, <1>3 DEF TypeOK, RegistryOK, SessionOK, LoopOK, CallsOK,
     SubscribersAreIsolated

(***************************************************************************)
(* Every variable keeps its type; in particular no effect is applied below *)
(* MAX_DISPATCH_DEPTH, whatever external plugins return.                   *)
(***************************************************************************)
THEOREM NestingIsBounded == Spec => []TypeOK
  BY InitIsTyped, StepIsTyped, TypeInvImplies, PTL DEF Spec

(***************************************************************************)
(* A subscriber never loses its effects because those of another failed,   *)
(* for every set of plugins, every script and every depth limit.           *)
(***************************************************************************)
THEOREM SubscribersStayIsolated == Spec => []SubscribersAreIsolated
  BY InitIsTyped, StepIsTyped, TypeInvImplies, PTL DEF Spec

-----------------------------------------------------------------------------
(***************************************************************************)
(* The indexes own what they should for the command files c: each entry is *)
(* claimed by its owner; the fixed names of the user commands plugin are   *)
(* its own; unless a refused toggle changed the registry, the owners are   *)
(* the enabled plugins and each of those owns its names; and unless the    *)
(* last reindex skipped a name, every command file has an entry of its own.*)
(***************************************************************************)
Owned(c) ==
  /\ \A n \in Name : index[n] # NoOwner => n \in Manifest(index[n], c)
  /\ \A n \in Base[User] : index[n] = User
  /\ ~astray => \A n \in Name : index[n] \in enabled \cup {NoOwner}
  /\ ~astray => \A p \in enabled : \A n \in Base[p] : index[n] = p
  /\ ~skipped => c \cap Base[User] = {} /\ \A n \in c : index[n] = User

(***************************************************************************)
(* Between the reload of the command files and the reindex it returned,    *)
(* the indexes are those of the files loaded before.                       *)
(***************************************************************************)
Pending == stack # <<>> /\ Effects = <<Effect("reindex", User)>>
Coherent ==
  running => Owned(cache) \/ (Pending /\ \E c \in SUBSET Name : Owned(c))

LEMMA PendingIsReindex == Pending => Doing("reindex") /\ Subject = User
  BY DEF Pending, Doing, Subject, Effect

Rebuilt(b, e, c) ==
  /\ \A n \in Name : b[n] # NoOwner => b[n] \in e /\ n \in Manifest(b[n], c)
  /\ \A p \in e : \A n \in Base[p] : b[n] = p
  /\ c \cap Base[User] = {} /\ \A n \in c : b[n] = User

LEMMA BuildOwns ==
  ASSUME NEW e \in SUBSET Plugin, Core \subseteq e, NEW c \in SUBSET Name,
         ~Clash(e, c)
  PROVE  Rebuilt(Build(e, c), e, c)
<1>1. \A n \in Name :
        \/ Build(e, c)[n] \in e /\ n \in Manifest(Build(e, c)[n], c)
        \/ Build(e, c)[n] = NoOwner /\ \A p \in e : n \notin Manifest(p, c)
  BY DEF Build
<1>2. ASSUME NEW p \in e, NEW n \in Name, n \in Manifest(p, c)
      PROVE  Build(e, c)[n] = p
  BY <1>1, <1>2 DEF Clash
<1>3. \A p \in e : Base[p] \subseteq Name /\ Base[p] \subseteq Manifest(p, c)
  BY PluginsAssumption DEF Manifest
<1>4. User \in e /\ c \subseteq Manifest(User, c)
  BY PluginsAssumption DEF Manifest
<1>5. c \cap Base[User] = {}
  BY <1>4 DEF Clash
<1> QED
  BY <1>1, <1>2, <1>3, <1>4, <1>5 DEF Rebuilt

LEMMA RebuildOwns ==
  ASSUME NEW e \in SUBSET Plugin, Core \subseteq e, cache' \in SUBSET Name,
         ~Clash(e, cache'), enabled' = e, index' = Build(e, cache')
  PROVE  Owned(cache)'
<1>1. User \in e
  BY PluginsAssumption
<1>2. Rebuilt(Build(e, cache'), e, cache')
  BY BuildOwns
<1>3. Rebuilt(index', e, cache')
  BY <1>2
<1> QED
  BY <1>1, <1>3 DEF Owned, Rebuilt

(***************************************************************************)
(* Whatever files the indexes were made for, the reindex makes them those  *)
(* of the files that are loaded.                                           *)
(***************************************************************************)
LEMMA ReindexOwns ==
  ASSUME TypeInv, NEW c \in SUBSET Name, Owned(c), ReindexPlugin
  PROVE  Owned(cache)'
<1>1. /\ Subject = User /\ index' = Reindex(index, User, cache)
      /\ skipped' = (Skipped(index, User, cache) # {})
      /\ UNCHANGED <<enabled, cache, astray>>
  BY SubjectIsTyped DEF ReindexPlugin, TypeInv, registry, flags
<1>2. index \in [Name -> Plugin \cup {NoOwner}] /\ User \in enabled /\ User # NoOwner
      /\ cache \subseteq Name
  BY PluginsAssumption, RuntimeAssumption DEF TypeInv, RegistryOK
<1>3. \A n \in Name :
        \/ index[n] \notin {User, NoOwner} /\ index'[n] = index[n]
        \/ /\ index[n] \in {User, NoOwner} /\ n \in Manifest(User, cache)
           /\ index'[n] = User
        \/ /\ index[n] \in {User, NoOwner} /\ n \notin Manifest(User, cache)
           /\ index'[n] = NoOwner
  BY <1>1 DEF Reindex
<1>4. ASSUME NEW n \in Name, index'[n] # NoOwner
      PROVE  n \in Manifest(index'[n], cache)
  BY <1>3, <1>4 DEF Owned, Manifest
<1>5. Base[User] \subseteq Name /\ Base[User] \subseteq Manifest(User, cache)
      /\ cache \subseteq Manifest(User, cache)
  BY PluginsAssumption DEF Manifest
<1>6. \A n \in Base[User] : index'[n] = User
  BY <1>2, <1>3, <1>5 DEF Owned
<1>7. ASSUME ~astray PROVE \A n \in Name : index'[n] \in enabled \cup {NoOwner}
  BY <1>2, <1>3, <1>7 DEF Owned
<1>8. ASSUME ~astray, NEW p \in enabled, NEW n \in Base[p]
      PROVE  index'[n] = p
  <2>1. n \in Name /\ index[n] = p /\ p # NoOwner
    BY <1>8, PluginsAssumption DEF Owned, TypeInv, RegistryOK
  <2> QED
    BY <1>3, <1>5, <1>8, <2>1
<1>9. ASSUME ~skipped', NEW n \in cache PROVE index'[n] = User
  <2>1. n \in Name /\ n \in Manifest(User, cache) /\ n \notin Skipped(index, User, cache)
    BY <1>1, <1>2, <1>5, <1>9
  <2>2. index[n] \in {User, NoOwner}
    BY <2>1 DEF Skipped
  <2> QED
    BY <1>3, <2>1, <2>2
<1>10. ASSUME ~skipped' PROVE cache \cap Base[User] = {}
  BY <1>1, <1>10 DEF Skipped
<1> QED
  BY <1>1, <1>4, <1>6, <1>7, <1>8, <1>9, <1>10 DEF Owned

LEMMA ToggleOwns ==
  ASSUME TypeInv, Owned(cache), NEW p \in Optional, NEW on, Toggle(p, on), cache' = cache
  PROVE  Owned(cache)'
<1>1. /\ SetEnabled(p, on) \in SUBSET Plugin /\ Core \subseteq SetEnabled(p, on)
      /\ cache \in SUBSET Name /\ User \in Core
  BY PluginsAssumption, RuntimeAssumption DEF SetEnabled, Optional, TypeInv, RegistryOK
<1>2. CASE Clash(SetEnabled(p, on), cache)
  <2>1. /\ astray' = (astray \/ enabled' # enabled)
        /\ UNCHANGED <<index, skipped>>
    BY <1>2 DEF Toggle
  <2>2. ~astray' => ~astray /\ enabled' = enabled
    BY <2>1
  <2> QED
    BY <2>1, <2>2 DEF Owned
<1>3. CASE ~Clash(SetEnabled(p, on), cache)
  BY <1>1, <1>3, RebuildOwns DEF Toggle
<1> QED
  BY <1>2, <1>3

LEMMA InitIsCoherent == Init => Coherent
<1> SUFFICES ASSUME Init PROVE Owned(cache)
  BY DEF Coherent
<1>1. enabled \in SUBSET Plugin /\ Core \subseteq enabled /\ cache \in SUBSET Name
      /\ User \in enabled
  BY PluginsAssumption, RuntimeAssumption DEF Init, Optional
<1>2. ~Clash(enabled, cache) /\ index = Build(enabled, cache)
  BY DEF Init
<1>3. Rebuilt(index, enabled, cache)
  BY <1>1, <1>2, BuildOwns
<1> QED
  BY <1>1, <1>3 DEF Owned, Rebuilt

(***************************************************************************)
(* While a reindex is pending, it is the next step.                        *)
(***************************************************************************)
LEMMA PendingIsNext == Pending /\ Next => ReindexPlugin
<1>1. Pending => /\ Head(Effects).op = "reindex" /\ ~Idle
  BY DEF Pending, Effect, Idle
<1>2. Pending /\ ApplyEffect => ReindexPlugin
  BY <1>1 DEF ApplyEffect, Doing, RunSlash, OpenScreen, CloseScreen, SaveTranscript,
     TogglePlugin, StashPendingSlash, SetTrustLevel, PrependToPendingPrompt,
     CancelPendingTurn
<1> QED
  BY <1>1, <1>2 DEF Next, Command, TypeSlash, DecideTrust, PressRow, LeavePlugins,
     SubmitPrompt, SendPrompt, TurnEnds, EditFiles, Restart

LEMMA SameIsOwned ==
  ASSUME Owned(cache), UNCHANGED <<enabled, cache, index, skipped, astray>>
  PROVE  Owned(cache)'
  BY DEF Owned

(***************************************************************************)
(* /reload-commands is the user commands plugin's own, so that what it     *)
(* returns is the reindex.                                                 *)
(***************************************************************************)
LEMMA ReloadIsPending ==
  ASSUME TypeInv, Owned(cache), NEW effects \in Answers("reload-commands"),
         NEW d \in 0..MaxDepth, NEW contain \in BOOLEAN, NEW rest \in Seq(Frames),
         stack' = Settle(<<Frame(effects, d, contain)>> \o rest)
  PROVE  Pending'
<1> DEFINE f == Frame(effects, d, contain)
           s == <<f>> \o rest
<1>1. effects = <<Effect("reindex", User)>> /\ effects \in Seq(EffectSet)
  <2>1. index["reload-commands"] = User /\ "reload-commands" \in Name
    BY RuntimeAssumption, PluginsAssumption DEF Owned
  <2>2. effects = UserCommand("reload-commands")
    BY <2>1, PluginsAssumption, RuntimeAssumption DEF Answers
  <2>3. effects \in Seq(EffectSet)
    BY <2>1, AnswersAreTyped DEF TypeInv
  <2> QED
    BY <2>2, <2>3 DEF UserCommand
<1>2. f \in Frames /\ f.effects = effects
  BY <1>1, FrameIsTyped
<1> HIDE DEF f
<1>3. <<f>> \in Seq(Frames) /\ Len(<<f>>) = 1 /\ <<f>>[1] = f /\ Len(rest) \in Nat
  BY <1>2
<1>4. s \in Seq(Frames) /\ s # <<>> /\ s[1] = f
  BY <1>3, ConcatProperties
<1>5. stack' = s
  <2>1. s[1].effects # <<>>
    <3>1. effects # <<>>
      BY <1>1
    <3> QED
      BY <1>2, <1>4, <3>1
  <2>2. Settle(s) = s
    BY <1>4, <2>1, SettledAlready
  <2>3. stack' = Settle(s)
    BY DEF f
  <2> QED
    BY <2>2, <2>3
<1> HIDE DEF s
<1>6. Head(stack') = f
  BY <1>4, <1>5
<1> QED
  BY <1>1, <1>2, <1>4, <1>5, <1>6 DEF Pending, Effects, Top

LEMMA RunSlashIsCoherent ==
  ASSUME TypeInv, Owned(cache), RunSlash
  PROVE  Owned(cache)' \/ (Pending' /\ \E c \in SUBSET Name : Owned(c)')
<1>1. UNCHANGED <<enabled, index, skipped, astray>>
  BY DEF RunSlash, flags
<1>2. CASE cache' = cache
  BY <1>1, <1>2, SameIsOwned
<1>3. CASE cache' # cache
  <2>0. Top.depth \in 0..MaxDepth /\ MaxDepth \in Nat /\ stack # <<>>
    BY SubjectIsTyped, RuntimeAssumption DEF RunSlash, TypeInv
  <2>1. Subject = "reload-commands" /\ ~(Top.depth >= MaxDepth)
    BY <1>3 DEF RunSlash
  <2>2. PICK effects \in Answers("reload-commands") :
           Call(<<Frame(effects, Top.depth + 1, FALSE)>>)
    BY <1>3, <2>1 DEF RunSlash
  <2>3. Caller \in Seq(Frames) /\ Top.depth + 1 \in 0..MaxDepth
    BY <2>0, <2>1, CallerIsSound DEF TypeInv, CallsOK, Sound
  <2>4. Pending'
    BY <2>2, <2>3, ReloadIsPending DEF Call
  <2>5. Owned(cache) /\ cache \in SUBSET Name
    BY RuntimeAssumption DEF TypeInv, RegistryOK
  <2>6. \E c \in SUBSET Name : Owned(c)'
    BY <1>1, <2>5 DEF Owned
  <2> QED
    BY <2>4, <2>6
<1> QED
  BY <1>2, <1>3

LEMMA TypeSlashIsCoherent ==
  ASSUME TypeInv, Owned(cache), NEW n \in Name, TypeSlash(n)
  PROVE  Owned(cache)' \/ (Pending' /\ \E c \in SUBSET Name : Owned(c)')
<1>1. UNCHANGED <<enabled, index, skipped, astray>>
  BY DEF TypeSlash, flags
<1>2. CASE cache' = cache
  BY <1>1, <1>2, SameIsOwned
<1>3. CASE cache' # cache
  <2>1. n = "reload-commands" /\ 0 \in 0..MaxDepth /\ TRUE \in BOOLEAN
    BY <1>3, RuntimeAssumption DEF TypeSlash
  <2>2. PICK effects \in Answers("reload-commands") : Start(effects)
    BY <1>3, <2>1 DEF TypeSlash
  <2> DEFINE f == Frame(effects, 0, TRUE)
  <2>3. <<f>> \in Seq(Frames)
    <3>1. effects \in Seq(EffectSet)
      BY <2>1, <2>2, AnswersAreTyped DEF TypeInv
    <3>2. f \in Frames
      BY <2>1, <3>1, FrameIsTyped
    <3> HIDE DEF f
    <3> QED
      BY <3>2
  <2>4. <<f>> \o <<>> = <<f>> /\ <<>> \in Seq(Frames)
    BY <2>3, ConcatEmptySeq, EmptySeq
  <2>5. stack' = Settle(<<f>> \o <<>>)
    BY <2>2, <2>4 DEF Start
  <2>6. Pending'
    BY <2>1, <2>2, <2>4, <2>5, ReloadIsPending
  <2>7. cache \in SUBSET Name
    BY RuntimeAssumption DEF TypeInv, RegistryOK
  <2>8. \E c \in SUBSET Name : Owned(c)'
    BY <1>1, <2>7 DEF Owned
  <2> QED
    BY <2>6, <2>8
<1> QED
  BY <1>2, <1>3

LEMMA TogglePluginIsCoherent ==
  ASSUME TypeInv, Owned(cache), TogglePlugin
  PROVE  Owned(cache)'
<1>1. CASE Subject \in Optional
  BY <1>1, ToggleOwns DEF TogglePlugin
<1>2. CASE Subject \notin Optional
  BY <1>2, SameIsOwned DEF TogglePlugin, flags
<1> QED
  BY <1>1, <1>2

LEMMA RestartIsCoherent ==
  ASSUME TypeInv, Restart, running'
  PROVE  Owned(cache)'
<1>1. /\ enabled' = Core \cup disk /\ cache' = files
      /\ ~Clash(Core \cup disk, files) /\ index' = Build(Core \cup disk, files)
  BY DEF Restart
<1>2. Core \cup disk \in SUBSET Plugin /\ files \in SUBSET Name
  BY PluginsAssumption, RuntimeAssumption DEF TypeInv, RegistryOK, Optional
<1> QED
  BY <1>1, <1>2, RebuildOwns

(***************************************************************************)
(* All other steps leave the registry, the indexes and the loaded files.   *)
(***************************************************************************)
LEMMA OthersLeaveIndexes ==
  ASSUME Next, ~RunSlash, ~ReindexPlugin, ~TogglePlugin, ~Restart,
         ~ \E n \in Name : TypeSlash(n)
  PROVE  UNCHANGED <<enabled, cache, index, skipped, astray>>
  BY DEF Next, ApplyEffect, OpenScreen, CloseScreen, SaveTranscript, StashPendingSlash,
     SetTrustLevel, PrependToPendingPrompt, CancelPendingTurn, DecideTrust, PressRow,
     LeavePlugins, SubmitPrompt, SendPrompt, TurnEnds, EditFiles, registry, flags

LEMMA RunningIsLeft == Next /\ ~Restart => running' = running
  BY DEF Next, ApplyEffect, RunSlash, OpenScreen, CloseScreen, SaveTranscript,
     ReindexPlugin, TogglePlugin, StashPendingSlash, SetTrustLevel,
     PrependToPendingPrompt, CancelPendingTurn, TypeSlash, DecideTrust, PressRow,
     LeavePlugins, SubmitPrompt, SendPrompt, TurnEnds, EditFiles, loop

LEMMA StepIsCoherent == TypeInv /\ Coherent /\ [Next]_vars => Coherent'
<1>1. CASE UNCHANGED vars
  BY <1>1 DEF Coherent, Owned, Pending, Effects, Top, vars, registry, flags, loop
<1>2. ASSUME TypeInv, Coherent, Next, running'
      PROVE  Owned(cache)' \/ (Pending' /\ \E c \in SUBSET Name : Owned(c)')
  <2>1. CASE Restart
    BY <1>2, <2>1, RestartIsCoherent
  <2>2. CASE ReindexPlugin
    <3>1. running /\ cache \in SUBSET Name
      BY <1>2, <2>2, RuntimeAssumption DEF ReindexPlugin, loop, TypeInv, RegistryOK
    <3>2. \E c \in SUBSET Name : Owned(c)
      BY <1>2, <3>1 DEF Coherent
    <3> QED
      BY <1>2, <2>2, <3>2, ReindexOwns
  <2>3. CASE ~Restart /\ ~ReindexPlugin
    <3>1. Owned(cache)
      BY <1>2, <2>3, RunningIsLeft, PendingIsNext DEF Coherent
    <3>2. CASE RunSlash
      BY <1>2, <3>1, <3>2, RunSlashIsCoherent
    <3>3. CASE \E n \in Name : TypeSlash(n)
      BY <1>2, <3>1, <3>3, TypeSlashIsCoherent
    <3>4. CASE TogglePlugin
      BY <1>2, <3>1, <3>4, TogglePluginIsCoherent
    <3>5. CASE ~RunSlash /\ ~TogglePlugin /\ ~ \E n \in Name : TypeSlash(n)
      BY <1>2, <2>3, <3>1, <3>5, OthersLeaveIndexes, SameIsOwned
    <3> QED
      BY <3>2, <3>3, <3>4, <3>5
  <2> QED
    BY <2>1, <2>2, <2>3
<1> QED
  BY <1>1, <1>2 DEF Coherent

LEMMA CoherentImplies == TypeInv /\ Coherent => IndexIsCoherent
<1> SUFFICES ASSUME TypeInv, Coherent, Idle
             PROVE  /\ ~skipped /\ ~astray => index = Build(enabled, cache)
                    /\ \A n \in Name : index[n] # NoOwner =>
                          n \in Manifest(index[n], cache)
  BY DEF IndexIsCoherent
<1>1. Owned(cache)
  BY DEF Coherent, Pending, Idle
<1>2. ASSUME ~skipped, ~astray PROVE index = Build(enabled, cache)
  <2>1. index \in [Name -> Plugin \cup {NoOwner}] /\ enabled \subseteq Plugin
        /\ NoOwner \notin Plugin
    BY PluginsAssumption DEF TypeInv, RegistryOK
  <2>2. ASSUME NEW p \in enabled, NEW n \in Name, n \in Manifest(p, cache)
        PROVE  index[n] = p
    BY <1>1, <1>2, <2>2 DEF Owned, Manifest
  <2>3. ASSUME NEW n \in Name PROVE index[n] = Build(enabled, cache)[n]
    <3>1. CASE \E p \in enabled : n \in Manifest(p, cache)
      <4>1. /\ Build(enabled, cache)[n] \in enabled
            /\ n \in Manifest(Build(enabled, cache)[n], cache)
        BY <3>1 DEF Build
      <4> QED
        BY <2>2, <4>1
    <3>2. CASE ~ \E p \in enabled : n \in Manifest(p, cache)
      BY <1>1, <1>2, <3>2 DEF Owned, Build
    <3> QED
      BY <3>1, <3>2
  <2> QED
    BY <2>1, <2>3 DEF Build
<1> QED
  BY <1>1, <1>2 DEF Owned

(***************************************************************************)
(* For every set of plugins, manifests and external scripts: after any     *)
(* sequence of toggles, refused toggles, edits, reloads, commands, hooks   *)
(* and restarts the indexes are those of the enabled plugins and the       *)
(* loaded command files, with the two exceptions the property names.       *)
(***************************************************************************)
THEOREM IndexesStayCoherent == Spec => []IndexIsCoherent
<1>1. Init => TypeInv /\ Coherent
  BY InitIsTyped, InitIsCoherent
<1>2. TypeInv /\ Coherent /\ [Next]_vars => (TypeInv /\ Coherent)'
  BY StepIsTyped, StepIsCoherent
<1>3. TypeInv /\ Coherent => IndexIsCoherent
  BY CoherentImplies
<1> QED
  BY <1>1, <1>2, <1>3, PTL DEF Spec

(***************************************************************************)
(* plugins.toml holds the enabled plugins, unless the last save failed or  *)
(* a refused toggle changed the registry.                                  *)
(***************************************************************************)
Saved == ~unsaved /\ ~astray => enabled = Core \cup disk

LEMMA StepIsSaved == TypeInv /\ Saved /\ [Next]_vars => Saved'
<1> SUFFICES ASSUME TypeInv, Saved, [Next]_vars PROVE Saved'
  OBVIOUS
<1>1. CASE UNCHANGED <<enabled, disk, unsaved, astray>>
  BY <1>1 DEF Saved
<1>2. ASSUME NEW p \in Optional, NEW on, Toggle(p, on) PROVE Saved'
  <2>1. Core \subseteq SetEnabled(p, on)
    BY DEF SetEnabled, Optional, TypeInv, RegistryOK
  <2>2. CASE Clash(SetEnabled(p, on), cache)
    <3>1. /\ astray' = (astray \/ enabled' # enabled)
          /\ UNCHANGED <<disk, unsaved>>
      BY <1>2, <2>2 DEF Toggle
    <3>2. ~astray' => ~astray /\ enabled' = enabled
      BY <3>1
    <3> QED
      BY <3>1, <3>2 DEF Saved
  <2>3. CASE ~Clash(SetEnabled(p, on), cache)
    <3>1. /\ enabled' = SetEnabled(p, on)
          /\ \/ disk' = SetEnabled(p, on) \ Core
             \/ unsaved' = TRUE
      BY <1>2, <2>3 DEF Toggle
    <3> QED
      BY <2>1, <3>1 DEF Saved
  <2> QED
    BY <2>2, <2>3
<1>3. CASE Restart
  BY <1>3 DEF Restart, Saved
<1>4. CASE TogglePlugin
  BY <1>1, <1>2, <1>4 DEF TogglePlugin, flags
<1>5. CASE Next /\ ~Restart /\ ~TogglePlugin
  <2>1. UNCHANGED <<enabled, disk, unsaved, astray>>
    BY <1>5 DEF Next, ApplyEffect, RunSlash, OpenScreen, CloseScreen, SaveTranscript,
       ReindexPlugin, StashPendingSlash, SetTrustLevel, PrependToPendingPrompt,
       CancelPendingTurn, TypeSlash, DecideTrust, PressRow, LeavePlugins, SubmitPrompt,
       SendPrompt, TurnEnds, EditFiles, registry, flags
  <2> QED
    BY <1>1, <2>1
<1> QED
  BY <1>1, <1>3, <1>4, <1>5 DEF vars, registry, flags

LEMMA SavedImplies == TypeInv /\ Coherent /\ Saved => RestartsAlike
<1> SUFFICES ASSUME TypeInv, Coherent, Saved, Idle, ~unsaved, ~skipped, ~astray,
                    cache = files
             PROVE  enabled = Core \cup disk /\ ~Clash(enabled, cache)
  BY DEF RestartsAlike
<1>1. Owned(cache)
  BY DEF Coherent, Pending, Idle
<1>2. ASSUME NEW p \in enabled, NEW n \in Manifest(p, cache)
      PROVE  index[n] = p
  BY <1>1 DEF Owned, Manifest
<1>3. ~Clash(enabled, cache)
  BY <1>1, <1>2 DEF Clash, Owned
<1> QED
  BY <1>3 DEF Saved

(***************************************************************************)
(* What a session saved, it starts again with: the same plugins and no     *)
(* clash, whatever toggles were refused on the way.                        *)
(***************************************************************************)
THEOREM SavedSessionsRestart == Spec => []RestartsAlike
<1>1. Init => TypeInv /\ Coherent /\ Saved
  BY InitIsTyped, InitIsCoherent DEF Init, Saved
<1>2. TypeInv /\ Coherent /\ Saved /\ [Next]_vars => (TypeInv /\ Coherent /\ Saved)'
  BY StepIsTyped, StepIsCoherent, StepIsSaved
<1>3. TypeInv /\ Coherent /\ Saved => RestartsAlike
  BY SavedImplies
<1> QED
  BY <1>1, <1>2, <1>3, PTL DEF Spec
-----------------------------------------------------------------------------
(***************************************************************************)
(* Trust.  Only the user commands plugin stashes a command, in the same    *)
(* breath as it opens the modal, and only a key in the modal decides; so   *)
(* every other call is tame, and a screen is only closed at the bottom of  *)
(* the stack: the modal itself when nothing is stashed any more and        *)
(* nothing above can stash, or the screen of plugins.                      *)
(***************************************************************************)
Tame(e) == \A j \in DOMAIN e : e[j].op \notin {"stash", "trust", "close"}
AsksTrust(e) ==
  \E n \in ShellFile : e = <<Effect("stash", n), Open("trust.modal")>>
DecidesTrust(e) ==
  \E l \in Levels : e = <<Effect("trust", l), Effect("close", "trust.modal")>>
ClosesTop(e) ==
  \E id \in {"trust.modal", "plugins.manager"} : e = <<Effect("close", id)>>

Asked(scr) == \E i \in DOMAIN scr : scr[i].id = "trust.modal"
AtPlugins(scr) == scr # <<>> /\ Last(scr).id = "plugins.manager"

Fits(s, i, tr, st, scr) ==
  \/ Tame(s[i].effects)
  \/ i = 1 /\ tr = "unset" /\ AsksTrust(s[i].effects)
  \/ i = 1 /\ Len(s) = 1 /\ DecidesTrust(s[i].effects)
  \/ /\ i = Len(s) /\ ClosesTop(s[i].effects)
     /\ st = NoName /\ (tr # "unset" \/ i = 1)
  \/ i = 1 /\ Len(s) = 1 /\ ClosesTop(s[i].effects) /\ AtPlugins(scr)
AllFit(s, tr, st, scr) == \A i \in 1..Len(s) : Fits(s, i, tr, st, scr)

(***************************************************************************)
(* Calls above which any call can be put that does not ask while an        *)
(* answer is known.                                                        *)
(***************************************************************************)
Steady(s, tr, st) ==
  \A i \in 1..Len(s) :
     \/ Tame(s[i].effects)
     \/ i = Len(s) /\ ClosesTop(s[i].effects) /\ st = NoName /\ tr # "unset"

Opening == stack # <<>> /\ Effects = <<Open("trust.modal")>>
Asking == stash # NoName => Asked(screens) \/ Opening
AskInv ==
  /\ AllFit(stack, trust, stash, screens)
  /\ stack # <<>> => running
  /\ Asking

LEMMA SteadyFits ==
  ASSUME NEW s, NEW tr, NEW st, NEW scr, Steady(s, tr, st)
  PROVE  AllFit(s, tr, st, scr)
  BY DEF Steady, AllFit, Fits

LEMMA NoneFit ==
  ASSUME NEW tr, NEW st, NEW scr
  PROVE  AllFit(<<>>, tr, st, scr)
  BY DEF AllFit

(***************************************************************************)
(* Returning from calls leaves calls that fit.                             *)
(***************************************************************************)
LEMMA SuffixFits ==
  ASSUME NEW s, NEW t, NEW k \in 1..(Len(s) + 1), Len(s) \in Nat,
         Len(t) = Len(s) + 1 - k,
         \A i \in 1..Len(t) : t[i] = s[i + k - 1],
         NEW tr, NEW st, NEW scr, AllFit(s, tr, st, scr)
  PROVE  AllFit(t, tr, st, scr)
<1> SUFFICES ASSUME NEW i \in 1..Len(t) PROVE Fits(t, i, tr, st, scr)
  BY DEF AllFit
<1> DEFINE j == i + k - 1
<1>1. j \in 1..Len(s) /\ t[i] = s[j]
  OBVIOUS
<1>2. j = 1 => i = 1 /\ Len(t) = Len(s)
  OBVIOUS
<1>3. j = Len(s) => i = Len(t)
  OBVIOUS
<1>4. Fits(s, j, tr, st, scr)
  BY <1>1 DEF AllFit
<1> HIDE DEF j
<1> QED
  BY <1>1, <1>2, <1>3, <1>4 DEF Fits

LEMMA SettleIsSuffix ==
  ASSUME NEW s, Sound(s)
  PROVE  \/ Settle(s) = <<>>
         \/ \E k \in 1..(Len(s) + 1) :
               /\ Len(Settle(s)) = Len(s) + 1 - k
               /\ \A i \in 1..Len(Settle(s)) : Settle(s)[i] = s[i + k - 1]
<1> DEFINE live == {i \in DOMAIN s : s[i].effects # <<>>}
           k == Min(live)
<1>0. s \in Seq(Frames) /\ Len(s) \in Nat /\ DOMAIN s = 1..Len(s)
  BY DEF Sound
<1>1. CASE live = {}
  BY <1>1 DEF Settle
<1>2. CASE live # {}
  <2>1. k \in live
    <3>1. live \in SUBSET Nat
      BY <1>0
    <3> QED
      BY <3>1, <1>2, MinProperties
  <2>2. Settle(s) = SubSeq(s, k, Len(s))
    BY <1>2 DEF Settle
  <2>3. k \in 1..(Len(s) + 1)
    BY <1>0, <2>1
  <2> HIDE DEF k, live
  <2>4. /\ Len(Settle(s)) = Len(s) + 1 - k
        /\ \A i \in 1..Len(Settle(s)) : Settle(s)[i] = s[i + k - 1]
    BY <2>2, <2>3, DropIsSound
  <2> QED
    BY <2>3, <2>4
<1> QED
  BY <1>1, <1>2

LEMMA SettleFits ==
  ASSUME NEW s, Sound(s), NEW tr, NEW st, NEW scr, AllFit(s, tr, st, scr)
  PROVE  AllFit(Settle(s), tr, st, scr)
<1>1. Len(s) \in Nat
  BY DEF Sound
<1> QED
  BY <1>1, SettleIsSuffix, SuffixFits, NoneFit

(***************************************************************************)
(* What the effect at hand says about its call.                            *)
(***************************************************************************)
LEMMA TopFits ==
  ASSUME CallsOK, AllFit(stack, trust, stash, screens), NEW op, Doing(op)
  PROVE  /\ op \notin {"stash", "trust", "close"} => Tame(Effects)
         /\ op = "stash" => trust = "unset" /\ AsksTrust(Effects)
         /\ op = "trust" => Len(stack) = 1 /\ DecidesTrust(Effects)
         /\ op = "close" => /\ Len(stack) = 1 /\ ClosesTop(Effects)
                            /\ stash = NoName \/ AtPlugins(screens)
<1>1. stack \in Seq(Frames) /\ stack # <<>> /\ stack[1].effects # <<>>
  BY DEF CallsOK, SoundStack, Sound, Doing
<1>2. Len(stack) \in Nat /\ 1 \in 1..Len(stack) /\ Effects = stack[1].effects
  BY <1>1, EmptySeq DEF Effects, Top
<1>3. Fits(stack, 1, trust, stash, screens)
  BY <1>2 DEF AllFit
<1>4. Effects \in Seq(EffectSet) /\ Effects # <<>> /\ Head(Effects).op = op
  <2>1. stack[1] \in Frames
    BY <1>1, <1>2
  <2> QED
    BY <1>1, <1>2, <2>1 DEF Frames, Doing
<1>5. 1 \in DOMAIN Effects /\ Head(Effects) = Effects[1]
  BY <1>4, EmptySeq
<1>6. Tame(Effects) => op \notin {"stash", "trust", "close"}
  BY <1>4, <1>5 DEF Tame
<1>7. AsksTrust(Effects) => op = "stash"
  BY <1>4, <1>5 DEF AsksTrust, Effect
<1>8. DecidesTrust(Effects) => op = "trust"
  BY <1>4, <1>5 DEF DecidesTrust, Effect
<1>9. ClosesTop(Effects) => op = "close"
  BY <1>4, <1>5 DEF ClosesTop, Effect
<1> QED
  BY <1>2, <1>3, <1>6, <1>7, <1>8, <1>9 DEF Fits

LEMMA TailIsTame ==
  ASSUME NEW e \in Seq(EffectSet), e # <<>>, Tame(e) \/ AsksTrust(e)
  PROVE  Tame(Tail(e))
<1>1. /\ Len(e) \in Nat \ {0} /\ DOMAIN Tail(e) = 1..(Len(e) - 1) /\ DOMAIN e = 1..Len(e)
      /\ \A j \in 1..(Len(e) - 1) : Tail(e)[j] = e[j + 1]
  <2>1. Tail(e) \in Seq(EffectSet) /\ Len(Tail(e)) = Len(e) - 1
        /\ \A j \in 1..Len(Tail(e)) : Tail(e)[j] = e[j + 1]
    BY HeadTailProperties
  <2> QED
    BY <2>1, EmptySeq
<1>2. CASE Tame(e)
  <2>1. ASSUME NEW j \in 1..(Len(e) - 1) PROVE j + 1 \in DOMAIN e
    BY <1>1
  <2> QED
    BY <1>1, <1>2, <2>1 DEF Tame
<1>3. CASE AsksTrust(e)
  <2>1. Len(e) = 2 /\ e[2].op = "open"
    BY <1>3 DEF AsksTrust, Open, Effect
  <2> QED
    BY <1>1, <2>1 DEF Tame
<1> QED
  BY <1>2, <1>3

(***************************************************************************)
(* Except in the modal and when a screen closes, the calls below the one   *)
(* that goes on are steady.                                                *)
(***************************************************************************)
LEMMA CallerIsSteady ==
  ASSUME CallsOK, AllFit(stack, trust, stash, screens),
         NEW op, Doing(op), op \notin {"trust", "close"},
         NEW st, op # "stash" => st = stash
  PROVE  Steady(Caller, trust, st)
<1>1. stack \in Seq(Frames) /\ stack # <<>> /\ SoundStack(stack)
  BY DEF CallsOK, SoundStack, Sound, Doing
<1>2. Effects \in Seq(EffectSet) /\ Effects # <<>> /\ stack[1].effects = Effects
      /\ Len(stack) \in Nat \ {0}
  <2>1. Len(stack) \in Nat \ {0} /\ stack[1].effects # <<>>
    BY <1>1, EmptySeq DEF SoundStack
  <2>2. stack[1] \in Frames /\ Effects = stack[1].effects
    BY <1>1, <2>1 DEF Effects, Top
  <2> QED
    BY <2>1, <2>2 DEF Frames
<1>3. /\ Len(Caller) = Len(stack) /\ Caller[1].effects = Tail(Effects)
      /\ \A i \in 1..Len(Caller) : i > 1 => Caller[i] = stack[i]
  BY <1>1, CallerIsSound
<1>4. Tame(Effects) \/ (op = "stash" /\ trust = "unset" /\ AsksTrust(Effects))
  BY TopFits
<1>5. Tame(Caller[1].effects)
  BY <1>2, <1>3, <1>4, TailIsTame
<1>6. ASSUME NEW i \in 1..Len(Caller), i > 1
      PROVE  \/ Tame(Caller[i].effects)
             \/ /\ i = Len(Caller) /\ ClosesTop(Caller[i].effects)
                /\ st = NoName /\ trust # "unset"
  <2>1. Fits(stack, i, trust, stash, screens) /\ Caller[i] = stack[i] /\ i # 1
    BY <1>2, <1>3, <1>6 DEF AllFit
  <2>2. CASE op = "stash"
    <3>1. trust = "unset"
      BY <2>2, TopFits
    <3> QED
      BY <2>1, <3>1 DEF Fits
  <2>3. CASE op # "stash"
    BY <1>3, <2>1, <2>3 DEF Fits
  <2> QED
    BY <2>2, <2>3
<1>7. ASSUME NEW i \in 1..Len(Caller) PROVE i = 1 \/ i > 1
  BY <1>2, <1>3
<1> QED
  BY <1>5, <1>6, <1>7 DEF Steady

LEMMA PushFits ==
  ASSUME NEW frames, Sound(frames), NEW s, Sound(s),
         NEW tr, NEW st, NEW scr, Steady(s, tr, st),
         \A i \in 1..Len(frames) :
            \/ Tame(frames[i].effects)
            \/ i = 1 /\ tr = "unset" /\ AsksTrust(frames[i].effects)
  PROVE  AllFit(frames \o s, tr, st, scr)
<1> DEFINE t == frames \o s
<1>1. frames \in Seq(Frames) /\ s \in Seq(Frames) /\ Len(frames) \in Nat /\ Len(s) \in Nat
  BY DEF Sound
<1>2. /\ t \in Seq(Frames) /\ Len(t) = Len(frames) + Len(s)
      /\ \A i \in 1..Len(t) :
            t[i] = IF i <= Len(frames) THEN frames[i] ELSE s[i - Len(frames)]
  BY <1>1, ConcatProperties
<1> HIDE DEF t
<1> SUFFICES ASSUME NEW i \in 1..Len(t) PROVE Fits(t, i, tr, st, scr)
  BY DEF AllFit, t
<1>3. CASE i <= Len(frames)
  <2>1. i \in 1..Len(frames) /\ t[i] = frames[i]
    BY <1>1, <1>2, <1>3
  <2> QED
    BY <2>1 DEF Fits
<1>4. CASE ~(i <= Len(frames))
  <2> DEFINE j == i - Len(frames)
  <2>1. j \in 1..Len(s) /\ t[i] = s[j] /\ (j = Len(s) => i = Len(t))
    BY <1>1, <1>2, <1>4
  <2> HIDE DEF j
  <2> QED
    BY <2>1 DEF Fits, Steady
<1> QED
  BY <1>3, <1>4

LEMMA ReturnFits ==
  ASSUME CallsOK, stack # <<>>, Return, NEW tr, NEW st, NEW scr,
         AllFit(Caller, tr, st, scr)
  PROVE  AllFit(stack', tr, st, scr)
  BY CallerIsSound, SettleFits DEF CallsOK, Return

LEMMA CallFits ==
  ASSUME CallsOK, stack # <<>>, NEW frames, Sound(frames), Call(frames),
         NEW tr, NEW st, NEW scr, Steady(Caller, tr, st),
         \A i \in 1..Len(frames) :
            \/ Tame(frames[i].effects)
            \/ i = 1 /\ tr = "unset" /\ AsksTrust(frames[i].effects)
  PROVE  AllFit(stack', tr, st, scr)
<1>1. Sound(Caller) /\ ~Caller[1].fresh
  BY CallerIsSound DEF CallsOK
<1>2. Sound(frames \o Caller)
  BY <1>1, PushIsSound
<1>3. AllFit(frames \o Caller, tr, st, scr)
  BY <1>1, PushFits
<1> QED
  BY <1>2, <1>3, SettleFits DEF Call

LEMMA FailFits ==
  ASSUME CallsOK, stack # <<>>, Fail, NEW tr, NEW st, NEW scr,
         AllFit(Caller, tr, st, scr)
  PROVE  AllFit(stack', tr, st, scr)
<1> DEFINE walls == {i \in DOMAIN Caller : Caller[i].contain \/ i = Len(Caller)}
           wall == Min(walls)
           rest == SubSeq(Caller, wall + 1, Len(Caller))
<1>1. Sound(Caller) /\ Len(Caller) \in Nat \ {0} /\ DOMAIN Caller = 1..Len(Caller)
  BY CallerIsSound DEF Sound, CallsOK
<1>2. walls \in SUBSET Nat /\ Len(Caller) \in walls
  BY <1>1
<1>3. wall \in walls
  BY <1>2, MinProperties
<1>4. wall + 1 \in 1..(Len(Caller) + 1)
  BY <1>1, <1>3
<1>5. stack' = Settle(rest)
  BY DEF Fail
<1> HIDE DEF wall, walls
<1>6. /\ Sound(rest) /\ Len(rest) = Len(Caller) + 1 - (wall + 1)
      /\ \A i \in 1..Len(rest) : rest[i] = Caller[i + (wall + 1) - 1]
  BY <1>1, <1>4, DropIsSound
<1> HIDE DEF rest
<1>7. AllFit(rest, tr, st, scr)
  BY <1>1, <1>4, <1>6, SuffixFits
<1> QED
  BY <1>5, <1>6, <1>7, SettleFits
-----------------------------------------------------------------------------
(***************************************************************************)
(* What the plugins return.                                                *)
(***************************************************************************)
LEMMA WasmIsTame == \A e \in WasmScripts : Tame(e)
<1> SUFFICES ASSUME NEW e \in WasmScripts, NEW j \in DOMAIN e
             PROVE  e[j].op \notin {"stash", "trust", "close"}
  BY DEF Tame
<1>1. e \in Seq(WasmEffects)
  BY RuntimeAssumption
<1>2. e[j] \in WasmEffects
  BY <1>1, LenProperties, ElementOfSeq
<1> QED
  BY <1>2 DEF WasmEffects, Effect

LEMMA AnswersFit ==
  ASSUME NEW n \in Name, NEW e \in Answers(n)
  PROVE  Tame(e) \/ (trust = "unset" /\ AsksTrust(e))
<1>1. Tame(UserCommand(n)) \/ (trust = "unset" /\ AsksTrust(UserCommand(n)))
  <2>1. Tame(<<>>) /\ Tame(<<Effect("reindex", User)>>)
    BY DEF Tame, Effect
  <2> QED
    BY <2>1 DEF UserCommand, AsksTrust
<1>2. Tame(<<Effect("save", n)>>) /\ Tame(<<Open("plugins.manager")>>) /\ Tame(<<>>)
  BY DEF Tame, Open, Effect
<1>3. Answers(n) \in {{UserCommand(n)}, WasmScripts, {<<Effect("save", n)>>},
                     {<<Open("plugins.manager")>>}, {<<>>}}
  BY DEF Answers
<1>4. \/ e \in WasmScripts
      \/ e \in {UserCommand(n), <<Effect("save", n)>>, <<Open("plugins.manager")>>, <<>>}
  BY <1>3
<1> QED
  BY <1>1, <1>2, <1>4, WasmIsTame

LEMMA ReactionsAreTame ==
  ASSUME NEW p \in Plugin, NEW event, NEW e \in Reactions(p, event)
  PROVE  Tame(e)
<1>1. /\ Tame(<<>>) /\ Tame(<<Effect("prefix", p)>>)
      /\ Tame(<<Effect("block", "prompt")>>) /\ Tame(<<Effect("block", "stop")>>)
      /\ Tame(<<Effect("prefix", p), Effect("block", "prompt")>>)
  BY DEF Tame, Effect
<1>2. CASE p \in Wasm
  BY <1>2, WasmIsTame DEF Reactions
<1>3. CASE p \notin Wasm
  <2>1. e \in {<<>>, <<Effect("prefix", p)>>, <<Effect("block", "prompt")>>,
               <<Effect("block", "stop")>>,
               <<Effect("prefix", p), Effect("block", "prompt")>>}
    BY <1>3 DEF Reactions
  <2> QED
    BY <1>1, <2>1
<1> QED
  BY <1>2, <1>3

LEMMA DispatchIsTame ==
  ASSUME RegistryOK, NEW event, NEW depth \in 0..MaxDepth,
         NEW batches \in Dispatches(event, depth)
  PROVE  \A i \in 1..Len(batches) : Tame(batches[i].effects)
<1>1. PICK order \in SetToSeqs(Subscribers),
           reaction \in {r \in [Subscribers -> AllReactions(event)] :
                           \A p \in Subscribers : r[p] \in Reactions(p, event)} :
        batches = [i \in DOMAIN order |-> Batch(reaction[order[i]], depth)]
  BY DEF Dispatches
<1>2. order \in [1..Cardinality(Subscribers) -> Subscribers]
  BY DEF SetToSeqs
<1>3. Sound(batches) /\ DOMAIN batches = 1..Len(batches)
  BY DispatchIsSound DEF Sound
<1>4. ASSUME NEW i \in 1..Len(batches) PROVE Tame(batches[i].effects)
  <2>1. i \in DOMAIN order /\ batches[i] = Batch(reaction[order[i]], depth)
    BY <1>1, <1>3
  <2>2. order[i] \in Subscribers /\ order[i] \in Plugin
    BY <1>2, <2>1 DEF Subscribers, RegistryOK
  <2>3. Tame(reaction[order[i]])
    BY <1>1, <2>2, ReactionsAreTame
  <2> QED
    BY <2>1, <2>3 DEF Batch, Frame
<1> QED
  BY <1>4

(***************************************************************************)
(* What the event loop starts fits, when nothing was under way.            *)
(***************************************************************************)
LEMMA StartFits ==
  ASSUME NEW e \in Seq(EffectSet), Start(e), NEW tr, NEW st, NEW scr,
         \/ Tame(e)
         \/ tr = "unset" /\ AsksTrust(e)
         \/ DecidesTrust(e)
         \/ ClosesTop(e) /\ (st = NoName \/ AtPlugins(scr))
  PROVE  AllFit(stack', tr, st, scr)
<1> DEFINE f == Frame(e, 0, TRUE)
<1>1. Sound(<<f>>) /\ f.effects = e
  <2>1. 0 \in 0..MaxDepth /\ TRUE \in BOOLEAN
    BY RuntimeAssumption
  <2> QED
    BY <2>1, FrameIsTyped
<1>2. stack' = Settle(<<f>>)
  BY DEF Start
<1> HIDE DEF f
<1>3. Len(<<f>>) = 1 /\ <<f>>[1] = f
  OBVIOUS
<1>4. Fits(<<f>>, 1, tr, st, scr)
  BY <1>1, <1>3 DEF Fits
<1>5. AllFit(<<f>>, tr, st, scr)
  <2>1. \A i \in 1..Len(<<f>>) : i = 1
    BY <1>3
  <2> QED
    BY <1>4, <2>1 DEF AllFit
<1> QED
  BY <1>1, <1>2, <1>5, SettleFits

LEMMA DispatchFits ==
  ASSUME TypeInv, NEW event, NEW batches \in Dispatches(event, 0),
         stack' = Settle(batches), NEW tr, NEW st, NEW scr
  PROVE  AllFit(stack', tr, st, scr)
<1>1. 0 \in 0..MaxDepth
  BY RuntimeAssumption
<1>2. Sound(batches) /\ \A i \in 1..Len(batches) : Tame(batches[i].effects)
  BY <1>1, DispatchIsSound, DispatchIsTame DEF TypeInv
<1>3. AllFit(batches, tr, st, scr)
  BY <1>2 DEF AllFit, Fits
<1> QED
  BY <1>2, <1>3, SettleFits

(***************************************************************************)
(* The effects.  Between the stash and the modal stands no other step, and *)
(* the modal can be opened, because its plugin is Core.                    *)
(***************************************************************************)
LEMMA AskedAlready ==
  ASSUME AskInv, NEW op, op # "open", Doing(op), stash # NoName
  PROVE  Asked(screens)
<1>1. ~Opening
  BY DEF Opening, Doing, Open, Effect
<1> QED
  BY <1>1 DEF AskInv, Asking

LEMMA ModalIsKnown ==
  ASSUME TypeInv, Coherent, AskInv, Opening
  PROVE  Known("trust.modal")
<1>1. running /\ ~Pending
  BY DEF AskInv, Opening, Pending, Open, Effect
<1>2. Owned(cache)
  BY <1>1 DEF Coherent
<1>3. "trust.modal" \in Base[User] /\ Base[User] \subseteq Name /\ User \in Plugin
  BY RuntimeAssumption, PluginsAssumption
<1>4. index["trust.modal"] = User /\ User # NoOwner
  BY <1>2, <1>3, PluginsAssumption DEF Owned
<1> QED
  BY <1>3, <1>4 DEF Known

LEMMA RunSlashAsks == TypeInv /\ AskInv /\ RunSlash => AskInv'
<1> SUFFICES ASSUME TypeInv, AskInv, RunSlash PROVE AskInv'
  OBVIOUS
<1>1. /\ stack # <<>> /\ CallsOK /\ AllFit(stack, trust, stash, screens) /\ Doing("run")
      /\ running /\ Top.depth \in 0..MaxDepth
  BY SubjectIsTyped DEF TypeInv, AskInv, RunSlash
<1>2. UNCHANGED <<screens, trust, stash, running>>
  BY DEF RunSlash, session, trusting, loop
<1>3. Steady(Caller, trust, stash)
  BY <1>1, CallerIsSteady
<1>4. AllFit(stack', trust, stash, screens)
  <2>1. CASE Fail
    BY <1>1, <1>3, <2>1, SteadyFits, FailFits
  <2>2. CASE ~Fail
    <3>1. PICK e \in Answers(Subject) : Call(<<Frame(e, Top.depth + 1, FALSE)>>)
      BY <2>2 DEF RunSlash
    <3>2. ~(Top.depth >= MaxDepth) /\ Subject \in Name
      BY <2>2 DEF RunSlash, Known
    <3> DEFINE f == Frame(e, Top.depth + 1, FALSE)
    <3>3. e \in Seq(EffectSet)
      BY <3>1, <3>2, AnswersAreTyped DEF TypeInv
    <3>4. Sound(<<f>>) /\ f.effects = e
      <4>1. Top.depth + 1 \in 0..MaxDepth /\ FALSE \in BOOLEAN
        BY <1>1, <3>2, RuntimeAssumption
      <4> QED
        BY <3>3, <4>1, FrameIsTyped
    <3>5. Call(<<f>>)
      BY <3>1
    <3>6. Tame(e) \/ (trust = "unset" /\ AsksTrust(e))
      BY <3>2, <3>1, AnswersFit
    <3> HIDE DEF f
    <3>7. \A i \in 1..Len(<<f>>) : i = 1 /\ <<f>>[i] = f
      OBVIOUS
    <3> QED
      BY <1>1, <1>3, <3>4, <3>5, <3>6, <3>7, CallFits
  <2> QED
    BY <2>1, <2>2
<1>5. Asking'
  BY <1>1, <1>2, AskedAlready DEF Asking, Asked
<1> QED
  BY <1>1, <1>2, <1>4, <1>5 DEF AskInv

LEMMA OpenScreenAsks == TypeInv /\ Coherent /\ AskInv /\ OpenScreen => AskInv'
<1> SUFFICES ASSUME TypeInv, Coherent, AskInv, OpenScreen PROVE AskInv'
  OBVIOUS
<1>1. /\ stack # <<>> /\ CallsOK /\ AllFit(stack, trust, stash, screens) /\ Doing("open")
      /\ running /\ screens \in Screens
  BY SubjectIsTyped DEF TypeInv, AskInv, OpenScreen, SessionOK
<1>2. UNCHANGED <<trust, stash, running>>
  BY DEF OpenScreen, trusting, loop
<1>3. Steady(Caller, trust, stash)
  BY <1>1, CallerIsSteady
<1>4. AllFit(stack', trust, stash, screens')
  BY <1>1, <1>3, SteadyFits, FailFits, ReturnFits DEF OpenScreen
<1>5. ASSUME Known(Subject)
      PROVE  (Asked(screens) \/ Subject = "trust.modal") => Asked(screens')
  <2> DEFINE r == [id |-> Subject, rows |-> enabled]
  <2>1. screens' = Append(screens, r) /\ r.id = Subject
    BY <1>5 DEF OpenScreen
  <2>2. Subject \in Name /\ enabled \in SUBSET Plugin
    BY <1>5 DEF Known, TypeInv, RegistryOK
  <2>3. r \in [id : Name, rows : SUBSET Plugin]
    BY <2>2
  <2> HIDE DEF r
  <2>4. /\ DOMAIN screens = 1..Len(screens) /\ Len(screens) \in Nat
        /\ DOMAIN screens' = 1..(Len(screens) + 1)
        /\ \A i \in 1..Len(screens) : screens'[i] = screens[i]
        /\ screens'[Len(screens) + 1] = r
    BY <1>1, <2>1, <2>3 DEF Screens
  <2>5. Len(screens) + 1 \in DOMAIN screens'
    BY <2>4
  <2>6. \A i \in DOMAIN screens : i \in DOMAIN screens' /\ screens'[i] = screens[i]
    BY <2>4
  <2> QED
    BY <2>1, <2>4, <2>5, <2>6 DEF Asked
<1>6. Opening => Known(Subject) /\ Subject = "trust.modal"
  BY ModalIsKnown DEF Opening, Subject, Open, Effect
<1>7. ~Known(Subject) => screens' = screens
  BY DEF OpenScreen
<1>8. stash # NoName => Asked(screens')
  BY <1>5, <1>6, <1>7 DEF AskInv, Asking
<1>9. Asking'
  BY <1>2, <1>8 DEF Asking, Asked
<1> QED
  BY <1>1, <1>2, <1>4, <1>9 DEF AskInv

LEMMA CloseScreenAsks == TypeInv /\ AskInv /\ CloseScreen => AskInv'
<1> SUFFICES ASSUME TypeInv, AskInv, CloseScreen PROVE AskInv'
  OBVIOUS
<1>1. /\ stack # <<>> /\ CallsOK /\ AllFit(stack, trust, stash, screens) /\ Doing("close")
      /\ running /\ screens \in Screens
  BY SubjectIsTyped DEF TypeInv, AskInv, CloseScreen, SessionOK
<1>2. UNCHANGED <<trust, stash, running>> /\ Return
      /\ screens' = IF screens = <<>> THEN screens ELSE Front(screens)
  BY DEF CloseScreen, trusting, loop
<1>3. Len(stack) = 1 /\ ClosesTop(Effects) /\ (stash = NoName \/ AtPlugins(screens))
  BY <1>1, TopFits
<1>4. AllFit(stack', trust, stash, screens')
  <2>1. Len(Caller) = 1 /\ Caller[1].effects = Tail(Effects)
    BY <1>1, <1>3, CallerIsSound DEF CallsOK
  <2>2. Tame(Tail(Effects))
    <3>1. Len(Effects) = 1 /\ Effects \in Seq({Effects[1]})
      BY <1>3 DEF ClosesTop
    <3>2. DOMAIN Tail(Effects) = {}
      BY <3>1
    <3> QED
      BY <3>2 DEF Tame
  <2>3. Steady(Caller, trust, stash)
    <3>1. \A i \in 1..Len(Caller) : i = 1
      BY <2>1
    <3> QED
      BY <2>1, <2>2, <3>1 DEF Steady
  <2> QED
    BY <1>1, <1>2, <2>3, SteadyFits, ReturnFits
<1>5. ASSUME stash # NoName PROVE Asked(screens')
  <2>1. Asked(screens) /\ AtPlugins(screens)
    BY <1>1, <1>3, <1>5, AskedAlready
  <2>2. PICK i \in DOMAIN screens : screens[i].id = "trust.modal"
    BY <2>1 DEF Asked
  <2>3. DOMAIN screens = 1..Len(screens) /\ Len(screens) \in Nat /\ screens # <<>>
        /\ screens[Len(screens)].id = "plugins.manager"
    BY <1>1, <2>1, LenProperties DEF Screens, AtPlugins, Last
  <2>4. i \in 1..(Len(screens) - 1)
    BY <2>2, <2>3
  <2>5. \A k \in 1..(Len(screens) - 1) : screens[k] \in [id : Name, rows : SUBSET Plugin]
    <3> SUFFICES ASSUME NEW k \in 1..(Len(screens) - 1)
                 PROVE  screens[k] \in [id : Name, rows : SUBSET Plugin]
      OBVIOUS
    <3>1. k \in 1..Len(screens)
      BY <2>3
    <3> QED
      BY <1>1, <3>1, ElementOfSeq DEF Screens
  <2>6. screens' = SubSeq(screens, 1, Len(screens) - 1)
    BY <1>2, <2>3 DEF Front
  <2>7. i \in DOMAIN screens' /\ screens'[i] = screens[i]
    BY <2>3, <2>4, <2>5, <2>6
  <2> QED
    BY <2>2, <2>7 DEF Asked
<1>6. Asking'
  BY <1>2, <1>5 DEF Asking, Asked
<1> QED
  BY <1>1, <1>2, <1>4, <1>6 DEF AskInv

LEMMA SaveTranscriptAsks == TypeInv /\ AskInv /\ SaveTranscript => AskInv'
<1> SUFFICES ASSUME TypeInv, AskInv, SaveTranscript PROVE AskInv'
  OBVIOUS
<1>1. /\ stack # <<>> /\ CallsOK /\ AllFit(stack, trust, stash, screens) /\ Doing("save")
      /\ running /\ Top.depth \in 0..MaxDepth
  BY SubjectIsTyped DEF TypeInv, AskInv, SaveTranscript
<1>2. UNCHANGED <<screens, trust, stash, running>>
  BY DEF SaveTranscript, session, trusting, loop
<1>3. Steady(Caller, trust, stash)
  BY <1>1, CallerIsSteady
<1>4. AllFit(stack', trust, stash, screens)
  <2>1. CASE Return
    BY <1>1, <1>3, <2>1, SteadyFits, ReturnFits
  <2>2. CASE ~Return
    <3>1. ~(Top.depth + 1 >= MaxDepth)
      BY <2>2 DEF SaveTranscript
    <3>2. PICK batches \in Dispatches("saved", Top.depth + 1) : Call(batches)
      BY <3>1 DEF SaveTranscript
    <3>3. Top.depth + 1 \in 0..MaxDepth
      BY <1>1, <3>1, RuntimeAssumption
    <3>4. Sound(batches) /\ \A i \in 1..Len(batches) : Tame(batches[i].effects)
      BY <3>2, <3>3, DispatchIsSound, DispatchIsTame DEF TypeInv
    <3> QED
      BY <1>1, <1>3, <3>2, <3>4, CallFits
  <2> QED
    BY <2>1, <2>2
<1>5. Asking'
  BY <1>1, <1>2, AskedAlready DEF Asking, Asked
<1> QED
  BY <1>1, <1>2, <1>4, <1>5 DEF AskInv

LEMMA StashPendingSlashAsks == TypeInv /\ AskInv /\ StashPendingSlash => AskInv'
<1> SUFFICES ASSUME TypeInv, AskInv, StashPendingSlash PROVE AskInv'
  OBVIOUS
<1>1. /\ stack # <<>> /\ CallsOK /\ AllFit(stack, trust, stash, screens)
      /\ Doing("stash") /\ running /\ SoundStack(stack)
  BY SubjectIsTyped DEF TypeInv, AskInv, StashPendingSlash, CallsOK
<1>2. UNCHANGED <<screens, trust, running>> /\ Return
  BY DEF StashPendingSlash, loop
<1>3. Steady(Caller, trust, stash')
  BY <1>1, CallerIsSteady
<1>4. AllFit(stack', trust, stash', screens)
  BY <1>1, <1>2, <1>3, SteadyFits, ReturnFits
<1>5. Opening'
  <2>1. PICK n \in ShellFile : Effects = <<Effect("stash", n), Open("trust.modal")>>
    BY <1>1, TopFits DEF AsksTrust
  <2>2. Tail(Effects) = <<Open("trust.modal")>>
    BY <2>1
  <2>3. Caller \in Seq(Frames) /\ Caller # <<>> /\ Caller[1].effects = Tail(Effects)
    BY <1>1, CallerIsSound, EmptySeq DEF Sound
  <2>4. Caller[1].effects # <<>>
    BY <2>2, <2>3
  <2>5. stack' = Caller
    BY <1>2, <2>3, <2>4, SettledAlready DEF Return
  <2>6. Head(stack') = Caller[1] /\ stack' # <<>>
    BY <2>3, <2>5
  <2> QED
    BY <2>2, <2>3, <2>6 DEF Opening, Effects, Top
<1> QED
  BY <1>1, <1>2, <1>4, <1>5 DEF AskInv, Asking

(***************************************************************************)
(* A decision takes the stashed command; if it runs it, the answer is      *)
(* known from now on.                                                      *)
(***************************************************************************)
LEMMA SetTrustLevelAsks == TypeInv /\ AskInv /\ SetTrustLevel => AskInv'
<1> SUFFICES ASSUME TypeInv, AskInv, SetTrustLevel PROVE AskInv'
  OBVIOUS
<1>1. /\ stack # <<>> /\ CallsOK /\ AllFit(stack, trust, stash, screens)
      /\ Doing("trust") /\ running /\ Subject \in Levels
      /\ Top.depth \in 0..MaxDepth /\ MaxDepth \in Nat
  BY SubjectIsTyped, RuntimeAssumption DEF TypeInv, AskInv, SetTrustLevel
<1>2. UNCHANGED <<screens, running>> /\ stash' = NoName
      /\ trust' = IF Subject = "cancelled" THEN "unset" ELSE Subject
  BY DEF SetTrustLevel, loop
<1>3. Len(stack) = 1 /\ DecidesTrust(Effects)
  BY <1>1, TopFits
<1>4. ClosesTop(Tail(Effects))
  <2>1. PICK l \in Levels :
          Effects = <<Effect("trust", l), Effect("close", "trust.modal")>>
    BY <1>3 DEF DecidesTrust
  <2>2. Tail(Effects) = <<Effect("close", "trust.modal")>>
    BY <2>1
  <2> QED
    BY <2>2 DEF ClosesTop
<1>5. Len(Caller) = 1 /\ Caller[1].effects = Tail(Effects)
  BY <1>1, <1>3, CallerIsSound DEF CallsOK
<1>0. \A i \in 1..Len(Caller) : i = 1
  BY <1>5
<1>6. AllFit(Caller, trust', NoName, screens)
  BY <1>4, <1>5, <1>0 DEF AllFit, Fits
<1>7. AllFit(stack', trust', NoName, screens)
  <2>1. CASE Return
    BY <1>1, <1>6, <2>1, ReturnFits
  <2>2. CASE ~Return
    <3> DEFINE f == Frame(<<Run(stash)>>, Top.depth + 1, TRUE)
    <3>1. /\ Subject # "cancelled" /\ stash # NoName /\ Top.depth + 1 < MaxDepth
          /\ Call(<<f>>)
      BY <2>2 DEF SetTrustLevel
    <3>2. trust' # "unset"
      BY <1>1, <1>2, <3>1 DEF Levels
    <3>3. Steady(Caller, trust', NoName)
      BY <1>4, <1>5, <1>0, <3>2 DEF Steady
    <3>4. <<Run(stash)>> \in Seq(EffectSet)
      <4>1. stash \in Subjects
        BY <3>1, RuntimeAssumption DEF TypeInv, SessionOK, Subjects
      <4>2. Run(stash) \in EffectSet
        BY <4>1, EffectIsTyped DEF Run, Ops
      <4> QED
        BY <4>2
    <3>5. Sound(<<f>>) /\ f.effects = <<Run(stash)>>
      <4>1. Top.depth + 1 \in 0..MaxDepth /\ TRUE \in BOOLEAN
        BY <1>1, <3>1
      <4> QED
        BY <3>4, <4>1, FrameIsTyped
    <3>6. Tame(<<Run(stash)>>)
      BY DEF Tame, Run, Effect
    <3> HIDE DEF f
    <3>7. \A i \in 1..Len(<<f>>) : <<f>>[i] = f
      OBVIOUS
    <3> QED
      BY <1>1, <3>1, <3>3, <3>5, <3>6, <3>7, CallFits
  <2> QED
    BY <2>1, <2>2
<1> QED
  BY <1>1, <1>2, <1>7 DEF AskInv, Asking

LEMMA OtherEffectsAsk ==
  ASSUME TypeInv, AskInv,
         ReindexPlugin \/ TogglePlugin \/ PrependToPendingPrompt \/ CancelPendingTurn
  PROVE  AskInv'
<1>1. PICK op \in {"reindex", "toggle", "prefix", "block"} : Doing(op)
  BY DEF ReindexPlugin, TogglePlugin, PrependToPendingPrompt, CancelPendingTurn
<1>2. Return /\ UNCHANGED <<screens, trust, stash, running>>
  BY DEF ReindexPlugin, TogglePlugin, PrependToPendingPrompt, CancelPendingTurn,
     session, trusting, loop
<1>3. stack # <<>> /\ CallsOK /\ AllFit(stack, trust, stash, screens) /\ running
  BY <1>1 DEF TypeInv, AskInv, Doing
<1>4. Steady(Caller, trust, stash)
  BY <1>1, <1>3, CallerIsSteady
<1>5. AllFit(stack', trust, stash, screens)
  BY <1>2, <1>3, <1>4, SteadyFits, ReturnFits
<1>6. Asking'
  BY <1>1, <1>2, AskedAlready DEF Asking, Asked
<1> QED
  BY <1>2, <1>3, <1>5, <1>6 DEF AskInv

LEMMA ApplyEffectAsks == TypeInv /\ Coherent /\ AskInv /\ ApplyEffect => AskInv'
  BY RunSlashAsks, OpenScreenAsks, CloseScreenAsks, SaveTranscriptAsks,
     StashPendingSlashAsks, SetTrustLevelAsks, OtherEffectsAsk DEF ApplyEffect

(***************************************************************************)
(* The event loop: between two commands no call is under way, so the modal *)
(* is open if a command is stashed.                                        *)
(***************************************************************************)
LEMMA LoopAsks ==
  ASSUME AskInv, Idle, running', AllFit(stack', trust', stash', screens'),
         \/ stash' = NoName
         \/ stash' = stash /\ (Asked(screens) => Asked(screens'))
  PROVE  AskInv'
<1>1. stash # NoName => Asked(screens)
  BY DEF AskInv, Asking, Opening, Idle
<1>2. stash' # NoName => Asked(screens')
  BY <1>1
<1> QED
  BY <1>2 DEF AskInv, Asking, Asked

LEMMA TypeSlashAsks ==
  ASSUME TypeInv, AskInv, NEW n \in Name, TypeSlash(n)
  PROVE  AskInv'
<1>1. Idle /\ running' /\ UNCHANGED <<trust, stash, screens>>
  BY DEF TypeSlash, Command, Idle, session, trusting
<1>2. PICK e \in Answers(n) : Start(e)
  BY DEF TypeSlash
<1>3. e \in Seq(EffectSet) /\ (Tame(e) \/ (trust = "unset" /\ AsksTrust(e)))
  BY <1>2, AnswersAreTyped, AnswersFit DEF TypeInv
<1>4. AllFit(stack', trust, stash, screens)
  BY <1>2, <1>3, StartFits
<1> QED
  BY <1>1, <1>4, LoopAsks

LEMMA DecideTrustAsks ==
  ASSUME TypeInv, AskInv, NEW level \in Levels, DecideTrust(level)
  PROVE  AskInv'
<1> DEFINE e == <<Effect("trust", level), Effect("close", "trust.modal")>>
<1>1. Idle /\ running' /\ UNCHANGED <<trust, stash, screens>> /\ Start(e)
  BY DEF DecideTrust, Command, Idle, session, trusting
<1>2. e \in Seq(EffectSet)
  <2>1. Effect("trust", level) \in EffectSet /\ Effect("close", "trust.modal") \in EffectSet
    BY EffectIsTyped DEF Ops, Subjects
  <2> QED
    BY <2>1
<1>3. DecidesTrust(e)
  BY DEF DecidesTrust
<1> HIDE DEF e
<1>4. AllFit(stack', trust, stash, screens)
  BY <1>1, <1>2, <1>3, StartFits
<1> QED
  BY <1>1, <1>4, LoopAsks

LEMMA PressRowAsks ==
  ASSUME TypeInv, AskInv, NEW p \in Optional, PressRow(p)
  PROVE  AskInv'
<1> DEFINE row == p \notin Last(screens).rows
           toggle == [Effect("toggle", p) EXCEPT !.on = row]
           shown == screens[Len(screens)]
<1>1. Idle /\ running' /\ UNCHANGED <<trust, stash>> /\ Start(<<toggle>>)
  BY DEF PressRow, Command, Idle, trusting
<1>2. toggle \in EffectSet /\ toggle.op = "toggle"
  BY DEF Effect, EffectSet, Ops, Subjects, Optional
<1> HIDE DEF toggle
<1>3. <<toggle>> \in Seq(EffectSet) /\ Tame(<<toggle>>)
  BY <1>2 DEF Tame
<1>4. AllFit(stack', trust, stash, screens')
  BY <1>1, <1>3, StartFits
<1>5. /\ screens \in Seq([id : Name, rows : SUBSET Plugin])
      /\ screens # <<>> /\ Len(screens) \in Nat \ {0} /\ DOMAIN screens = 1..Len(screens)
  BY EmptySeq DEF PressRow, Shows, TypeInv, SessionOK, Screens
<1>6. screens' = [screens EXCEPT ![Len(screens)] =
                   [shown EXCEPT !.rows = IF row THEN @ \cup {p} ELSE @ \ {p}]]
  BY <1>5 DEF PressRow
<1>7. shown \in [id : Name, rows : SUBSET Plugin]
  <2>1. Len(screens) \in 1..Len(screens)
    BY <1>5
  <2> QED
    BY <1>5, <2>1, ElementOfSeq
<1>8. \A i \in DOMAIN screens : i \in DOMAIN screens' /\ screens'[i].id = screens[i].id
  BY <1>5, <1>6, <1>7
<1>9. Asked(screens) => Asked(screens')
  BY <1>8 DEF Asked
<1> QED
  BY <1>1, <1>4, <1>9, LoopAsks

LEMMA LeavePluginsAsks == TypeInv /\ AskInv /\ LeavePlugins => AskInv'
<1> SUFFICES ASSUME TypeInv, AskInv, LeavePlugins PROVE AskInv'
  OBVIOUS
<1> DEFINE e == <<Effect("close", "plugins.manager")>>
<1>1. Idle /\ running' /\ UNCHANGED <<trust, stash, screens>> /\ Start(e)
      /\ AtPlugins(screens)
  BY DEF LeavePlugins, Command, Idle, session, trusting, Shows, AtPlugins
<1>2. e \in Seq(EffectSet) /\ ClosesTop(e)
  BY EffectIsTyped DEF Ops, Subjects, ClosesTop
<1> HIDE DEF e
<1>3. AllFit(stack', trust, stash, screens)
  BY <1>1, <1>2, StartFits
<1> QED
  BY <1>1, <1>3, LoopAsks

LEMMA PromptAsks ==
  TypeInv /\ AskInv /\ (SubmitPrompt \/ SendPrompt \/ TurnEnds) => AskInv'
<1> SUFFICES ASSUME TypeInv, AskInv, SubmitPrompt \/ SendPrompt \/ TurnEnds PROVE AskInv'
  OBVIOUS
<1>1. Idle /\ running' /\ UNCHANGED <<trust, stash, screens>>
  BY DEF SubmitPrompt, SendPrompt, TurnEnds, Command, Idle, session, trusting
<1>2. AllFit(stack', trust, stash, screens)
  <2>1. CASE SubmitPrompt
    BY <2>1, DispatchFits DEF SubmitPrompt
  <2>2. CASE SendPrompt
    BY <2>2 DEF SendPrompt, AskInv
  <2>3. CASE TurnEnds
    BY <2>3, DispatchFits DEF TurnEnds
  <2> QED
    BY <2>1, <2>2, <2>3
<1> QED
  BY <1>1, <1>2, LoopAsks

LEMMA EditFilesAsks == AskInv /\ EditFiles => AskInv'
  BY DEF EditFiles, AskInv, Asking, Opening, Effects, Top, session, trusting

LEMMA RestartAsks == AskInv /\ Restart => AskInv'
<1> SUFFICES ASSUME AskInv, Restart PROVE AskInv'
  OBVIOUS
<1>1. stack' = <<>> /\ stash' = NoName
  BY DEF Restart, Command, Idle
<1> QED
  BY <1>1, NoneFit DEF AskInv, Asking

LEMMA StepAsks == TypeInv /\ Coherent /\ AskInv /\ [Next]_vars => AskInv'
<1>1. CASE UNCHANGED vars
  BY <1>1 DEF vars, session, trusting, loop, AskInv, Asking, Opening, Effects, Top
<1> QED
  BY <1>1, ApplyEffectAsks, TypeSlashAsks, DecideTrustAsks, PressRowAsks,
     LeavePluginsAsks, PromptAsks, EditFilesAsks, RestartAsks DEF Next, Levels

(***************************************************************************)
(* Between two commands, a command that waits for a trust decision has the *)
(* trust modal on the screen stack, for every set of plugins, external     *)
(* scripts and shell commands: no key, toggle, reload, hook or save leaves *)
(* it stashed with nobody asked.                                           *)
(***************************************************************************)
THEOREM StashedMeansAsked == Spec => []StashIsAskedFor
<1>1. Init => TypeInv /\ Coherent /\ AskInv
  <2>1. Init => AskInv
    BY NoneFit DEF Init, AskInv, Asking
  <2> QED
    BY <2>1, InitIsTyped, InitIsCoherent
<1>2. TypeInv /\ Coherent /\ AskInv /\ [Next]_vars => (TypeInv /\ Coherent /\ AskInv)'
  BY StepIsTyped, StepIsCoherent, StepAsks
<1>3. AskInv => StashIsAskedFor
  BY DEF AskInv, Asking, Opening, Asked, StashIsAskedFor, Idle
<1> QED
  BY <1>1, <1>2, <1>3, PTL DEF Spec
=============================================================================
