------------------------- MODULE AudioOutputProofs --------------------------
(***************************************************************************)
(* Every method of AudioOutput and every step of the device callback keeps *)
(* the frame count exact.  The lemmas are about single steps, so that the  *)
(* programs that use the class can cite them for their own steps.          *)
(***************************************************************************)
EXTENDS AudioOutput, SequenceTheorems, FiniteSetTheorems, FunctionTheorems, TLAPS

-----------------------------------------------------------------------------
\* Totals of sizes: what they do when a sequence of sizes grows at its end and
\* shrinks at its front, as the queues of the program do.

\* The units of one member: as many as its size.
LEMMA MemberUnits ==
  ASSUME NEW i, NEW n \in Nat
  PROVE  IsFiniteSet({i} \X (1..n)) /\ Cardinality({i} \X (1..n)) = n
<1>1. IsFiniteSet({i}) /\ Cardinality({i}) = 1
  BY FS_Singleton
<1>2. IsFiniteSet(1..n) /\ Cardinality(1..n) = n
  BY FS_Interval
<1>3. /\ IsFiniteSet({i} \X (1..n))
      /\ Cardinality({i} \X (1..n)) = Cardinality({i}) * Cardinality(1..n)
  BY <1>1, <1>2, FS_Product
<1>4. 1 * n = n
  OBVIOUS
<1> QED
  BY <1>1, <1>2, <1>3, <1>4

\* The units of a sequence of sizes are finitely many, so a total is a number.
LEMMA TotalType ==
  ASSUME NEW s \in Seq(Nat)
  PROVE  IsFiniteSet(Units(s)) /\ Total(s) \in Nat
<1> DEFINE D == 1..Len(s)
           T == {{i} \X (1..s[i]) : i \in D}
           F == [i \in D |-> {i} \X (1..s[i])]
<1>1. DOMAIN s = D /\ \A i \in D : s[i] \in Nat
  BY LenProperties, ElementOfSeq
<1>2. IsFiniteSet(D)
  BY FS_Interval, LenProperties
<1>3. F \in Surjection(D, T)
  BY DEF Surjection
<1>4. IsFiniteSet(T)
  BY <1>2, <1>3, FS_Surjection
<1>5. ASSUME NEW U \in T PROVE IsFiniteSet(U)
  <2>1. PICK i \in D : U = {i} \X (1..s[i])
    OBVIOUS
  <2>2. s[i] \in Nat
    BY <1>1
  <2> QED
    BY <2>1, <2>2, MemberUnits
<1>6. Units(s) = UNION T
  BY <1>1 DEF Units
<1>7. IsFiniteSet(Units(s))
  BY <1>4, <1>5, <1>6, FS_UNION
<1> QED
  BY <1>7, FS_CardinalityType DEF Total

LEMMA TotalEmpty ==
  Total(<<>>) = 0
<1>1. Units(<<>>) = {}
  BY DEF Units
<1> QED
  BY <1>1, FS_EmptySet DEF Total

\* A sequence that grows by one member.
LEMMA TotalAppend ==
  ASSUME NEW s \in Seq(Nat), NEW t \in Seq(Nat),
         Len(t) = Len(s) + 1,
         \A i \in 1..Len(s) : t[i] = s[i]
  PROVE  Total(t) = Total(s) + t[Len(t)]
<1> DEFINE last == Len(s) + 1
           New == {last} \X (1..t[last])
<1>1. /\ DOMAIN s = 1..Len(s) /\ Len(s) \in Nat
      /\ DOMAIN t = 1..last
      /\ t[last] \in Nat
  BY LenProperties, ElementOfSeq
<1>2. Units(t) = Units(s) \cup New
  <2>1. 1..last = (1..Len(s)) \cup {last}
    BY <1>1
  <2> QED
    BY <1>1, <2>1 DEF Units
<1>3. Units(s) \cap New = {}
  <2>1. \A u \in Units(s) : u[1] \in 1..Len(s)
    BY <1>1 DEF Units
  <2>2. \A u \in New : u[1] = last
    OBVIOUS
  <2> QED
    BY <1>1, <2>1, <2>2
<1>4. IsFiniteSet(New) /\ Cardinality(New) = t[last]
  BY <1>1, MemberUnits
<1> HIDE DEF New
<1>5. IsFiniteSet(Units(s)) /\ Total(s) \in Nat
  BY TotalType
<1>6. Cardinality(Units(s) \cup New) = Cardinality(Units(s)) + t[last] - Cardinality({})
  BY <1>3, <1>4, <1>5, FS_Union
<1> QED
  BY <1>1, <1>2, <1>5, <1>6, FS_EmptySet DEF Total

\* A sequence that loses its first member.
LEMMA TotalTail ==
  ASSUME NEW s \in Seq(Nat), s # <<>>
  PROVE  Total(s) = Head(s) + Total(Tail(s))
<1> DEFINE t == Tail(s)
           First == {1} \X (1..Head(s))
           Others == {u \in Units(s) : u[1] # 1}
           F == [u \in Units(t) |-> <<u[1] + 1, u[2]>>]
<1>1. /\ Head(s) \in Nat /\ t \in Seq(Nat)
      /\ Head(s) = s[1]
      /\ Len(s) \in Nat \ {0}
      /\ DOMAIN s = 1..Len(s)
      /\ DOMAIN t = 1..(Len(s) - 1)
      /\ \A i \in 1..(Len(s) - 1) : t[i] = s[i + 1]
      /\ \A i \in 1..Len(s) : s[i] \in Nat
  BY HeadTailProperties, LenProperties, EmptySeq, ElementOfSeq
<1>2. Units(s) = First \cup Others
  <2>1. First \subseteq Units(s)
    BY <1>1 DEF Units
  <2>2. \A u \in Units(s) : u[1] = 1 => u \in First
    BY <1>1 DEF Units
  <2> QED
    BY <2>1, <2>2
<1>3. First \cap Others = {}
  OBVIOUS
<1>4. F \in Bijection(Units(t), Others)
  <2>1. \A u \in Units(t) : /\ u = <<u[1], u[2]>>
                            /\ u[1] \in 1..(Len(s) - 1)
                            /\ u[2] \in 1..s[u[1] + 1]
    BY <1>1 DEF Units
  <2>2. \A u \in Units(t) : F[u] \in Others
    BY <1>1, <2>1 DEF Units
  <2>3. \A u, v \in Units(t) : F[u] = F[v] => u = v
    BY <1>1, <2>1
  <2>4. ASSUME NEW v \in Others PROVE \E u \in Units(t) : F[u] = v
    <3>1. PICK i \in 1..Len(s) : v \in {i} \X (1..s[i])
      BY <1>1 DEF Units
    <3>2. v = <<i, v[2]>> /\ i - 1 \in 1..(Len(s) - 1) /\ v[2] \in 1..t[i - 1]
      BY <1>1, <3>1
    <3>3. <<i - 1, v[2]>> \in Units(t)
      BY <1>1, <3>2 DEF Units
    <3> QED
      BY <1>1, <3>2, <3>3
  <2> QED
    BY <2>2, <2>3, <2>4 DEF Bijection, Injection, Surjection, IsInjective
<1>5. IsFiniteSet(Others) /\ Cardinality(Others) = Total(t)
  BY <1>1, <1>4, TotalType, FS_Bijection DEF ExistsBijection, Total
<1>6. IsFiniteSet(First) /\ Cardinality(First) = Head(s)
  BY <1>1, MemberUnits
<1>7. Total(t) \in Nat
  BY <1>1, TotalType
<1> HIDE DEF First, Others
<1>8. Cardinality(First \cup Others) = Head(s) + Total(t) - Cardinality({})
  BY <1>3, <1>5, <1>6, FS_Union
<1> QED
  BY <1>1, <1>2, <1>7, <1>8, FS_EmptySet DEF Total

-----------------------------------------------------------------------------
\* The frames of the clips that wait.

\* The clip being played is not yet played to its end.
PlayingWithinClip ==
  /\ HasCurrent => currentFrame < current.frames
  /\ ~HasCurrent => currentFrame = 0

AudioInv == AudioTypeOK /\ PlayingWithinClip /\ QueuedFramesExact

FramesOf(clips) == [i \in 1..Len(clips) |-> clips[i].frames]

LEMMA LesserFacts ==
  ASSUME NEW a \in Int, NEW b \in Int
  PROVE  /\ Lesser(a, b) \in {a, b}
         /\ Lesser(a, b) <= a /\ Lesser(a, b) <= b
BY DEF Lesser

LEMMA FramesOfClips ==
  ASSUME NEW clips \in Seq(Clips)
  PROVE  FramesOf(clips) \in Seq(Nat)
<1>1. Len(clips) \in Nat /\ \A i \in 1..Len(clips) : clips[i] \in Clips
  BY LenProperties, ElementOfSeq
<1> QED
  BY <1>1, IsASeq DEF FramesOf, Clips

LEMMA FramesOfEmpty == FramesOf(<<>>) = <<>>
<1>1. Len(<<>>) = 0
  BY EmptySeq
<1> QED
  BY <1>1 DEF FramesOf

LEMMA FramesOfAppend ==
  ASSUME NEW clips \in Seq(Clips), NEW clip \in Clips
  PROVE  Total(FramesOf(Append(clips, clip))) = Total(FramesOf(clips)) + clip.frames
<1> DEFINE more == Append(clips, clip)
<1>1. /\ more \in Seq(Clips)
      /\ Len(clips) \in Nat /\ Len(more) = Len(clips) + 1
      /\ \A i \in 1..Len(clips) : more[i] = clips[i]
      /\ more[Len(clips) + 1] = clip
  BY LenProperties, AppendProperties
<1>2. FramesOf(clips) \in Seq(Nat) /\ FramesOf(more) \in Seq(Nat)
  BY <1>1, FramesOfClips
<1>3. Len(FramesOf(clips)) = Len(clips) /\ Len(FramesOf(more)) = Len(clips) + 1
  BY <1>1, <1>2, LenProperties DEF FramesOf
<1>4. /\ \A i \in 1..Len(clips) : FramesOf(more)[i] = FramesOf(clips)[i]
      /\ FramesOf(more)[Len(clips) + 1] = clip.frames
  BY <1>1 DEF FramesOf
<1> HIDE DEF more
<1> QED
  BY <1>2, <1>3, <1>4, TotalAppend DEF more

LEMMA FramesOfTail ==
  ASSUME NEW clips \in Seq(Clips), clips # <<>>
  PROVE  /\ Head(clips) \in Clips /\ Tail(clips) \in Seq(Clips)
         /\ FramesOf(clips) # <<>>
         /\ Head(FramesOf(clips)) = Head(clips).frames
         /\ Tail(FramesOf(clips)) = FramesOf(Tail(clips))
<1>1. /\ Len(clips) \in Nat \ {0}
      /\ Head(clips) \in Clips /\ Head(clips) = clips[1]
      /\ Tail(clips) \in Seq(Clips)
      /\ Len(Tail(clips)) = Len(clips) - 1
      /\ \A i \in 1..(Len(clips) - 1) : Tail(clips)[i] = clips[i + 1]
  BY HeadTailProperties, LenProperties, EmptySeq
<1> DEFINE f == FramesOf(clips)
<1>2. /\ f \in Seq(Nat) /\ Len(f) = Len(clips)
      /\ \A i \in 1..Len(clips) : f[i] = clips[i].frames
  BY <1>1, FramesOfClips, LenProperties DEF FramesOf
<1>3. f # <<>>
  BY <1>1, <1>2, EmptySeq
<1> HIDE DEF f
<1>4. /\ Head(f) = f[1] /\ Tail(f) \in Seq(Nat)
      /\ Len(Tail(f)) = Len(clips) - 1
      /\ \A i \in 1..(Len(clips) - 1) : Tail(f)[i] = f[i + 1]
  BY <1>2, <1>3, HeadTailProperties
<1>5. /\ FramesOf(Tail(clips)) \in Seq(Nat)
      /\ Len(FramesOf(Tail(clips))) = Len(clips) - 1
      /\ \A i \in 1..(Len(clips) - 1) : FramesOf(Tail(clips))[i] = clips[i + 1].frames
  BY <1>1, FramesOfClips, LenProperties DEF FramesOf
<1>6. Tail(f) = FramesOf(Tail(clips))
  <2>1. \A i \in 1..(Len(clips) - 1) : Tail(f)[i] = FramesOf(Tail(clips))[i]
    BY <1>1, <1>2, <1>4, <1>5
  <2> QED
    BY <1>4, <1>5, <2>1, SeqEqual
<1> QED
  BY <1>1, <1>2, <1>3, <1>4, <1>6 DEF f

\* The invariant with its parts named, as the steps below need it.
Waiting == Total(FramesOf(audioQueue))

LEMMA AudioInvParts ==
  ASSUME AudioInv
  PROVE  /\ Waiting \in Nat
         /\ queuedFrames = RemainingFrames + Waiting
         /\ RemainingFrames \in Nat
         /\ RemainingFrames > 0 <=> HasCurrent
         /\ HasCurrent => current \in Clips /\ current.frames \in Nat
         /\ queuedFrames \in Nat /\ queuedFrames <= MaximumFrames
<1> USE DEF AudioInv
<1>1. Waiting \in Nat
  BY FramesOfClips, TotalType DEF AudioTypeOK, Waiting
<1>2. HasCurrent => current \in Clips /\ current.frames \in Nat /\ current.frames > 0
  BY DEF AudioTypeOK, HasCurrent, Clips
<1>3. ~HasCurrent => RemainingFrames = 0
  BY DEF HasCurrent, NoClip, PlayingWithinClip, RemainingFrames
<1>4. HasCurrent => RemainingFrames \in Nat /\ RemainingFrames > 0
  BY <1>2 DEF PlayingWithinClip, RemainingFrames, AudioTypeOK
<1>5. queuedFrames = RemainingFrames + Waiting /\ queuedFrames <= MaximumFrames
  BY DEF QueuedFramesExact, FramesOf, Waiting
<1> QED
  BY <1>1, <1>2, <1>3, <1>4, <1>5 DEF AudioTypeOK

LEMMA AudioInitInv == ASSUME AudioInit PROVE AudioInv
<1>1. Total(FramesOf(<<>>)) = 0
  BY FramesOfEmpty, TotalEmpty
<1>2. AudioTypeOK
  <2>1. <<>> \in Seq(Clips)
    BY EmptySeq
  <2>2. Idle \in [holds : BOOLEAN, valid : Nat, written : 0..CallbackFrames]
    BY AudioAssumption DEF Idle
  <2> QED
    BY <2>1, <2>2 DEF AudioInit, AudioTypeOK
<1>3. PlayingWithinClip
  BY DEF AudioInit, PlayingWithinClip, HasCurrent
<1>4. QueuedFramesExact
  BY <1>1, AudioAssumption
  DEF AudioInit, QueuedFramesExact, RemainingFrames, NoClip, FramesOf
<1> QED
  BY <1>2, <1>3, <1>4 DEF AudioInv

\* A step that leaves the frames alone.
LEMMA SameFrames ==
  ASSUME AudioInv, AudioTypeOK',
         UNCHANGED <<audioQueue, current, currentFrame, queuedFrames>>
  PROVE  AudioInv'
BY DEF AudioInv, PlayingWithinClip, HasCurrent, QueuedFramesExact, RemainingFrames

LEMMA PushClipInv ==
  ASSUME AudioInv, NEW clip \in Clips, PushClip(clip)
  PROVE  AudioInv'
<1>1. Waiting' = Waiting + clip.frames
  BY FramesOfAppend DEF AudioInv, AudioTypeOK, PushClip, Waiting
<1>2. clip.frames \in Nat
  BY DEF Clips
<1>3. queuedFrames' <= MaximumFrames
  BY <1>2, AudioInvParts, AudioAssumption DEF PushClip, Fits, Lesser
<1>4. AudioTypeOK'
  BY <1>2, AppendProperties DEF AudioInv, AudioTypeOK, PushClip
<1>5. PlayingWithinClip'
  BY DEF AudioInv, PlayingWithinClip, HasCurrent, PushClip
<1>6. queuedFrames' = RemainingFrames' + Waiting'
  BY <1>1, <1>2, AudioInvParts DEF PushClip, RemainingFrames
<1> QED
  BY <1>3, <1>4, <1>5, <1>6
  DEF AudioInv, QueuedFramesExact, Waiting, FramesOf

LEMMA SetValidGenerationInv ==
  ASSUME AudioInv, NEW g \in Nat, SetValidGeneration(g)
  PROVE  AudioInv'
BY SameFrames DEF AudioInv, AudioTypeOK, SetValidGeneration

LEMMA ClearAudioInv == ASSUME AudioInv, ClearAudio PROVE AudioInv'
<1>1. Waiting' = 0
  BY FramesOfEmpty, TotalEmpty DEF ClearAudio, Waiting
<1>2. AudioTypeOK'
  BY EmptySeq DEF AudioInv, AudioTypeOK, ClearAudio
<1>3. PlayingWithinClip'
  BY DEF PlayingWithinClip, HasCurrent, ClearAudio
<1>4. queuedFrames' = RemainingFrames' + Waiting' /\ queuedFrames' <= MaximumFrames
  BY <1>1, AudioAssumption DEF ClearAudio, RemainingFrames, NoClip
<1> QED
  BY <1>2, <1>3, <1>4 DEF AudioInv, QueuedFramesExact, Waiting, FramesOf

LEMMA StopAudioInv == ASSUME AudioInv, StopAudio PROVE AudioInv'
BY SameFrames DEF AudioInv, AudioTypeOK, StopAudio

LEMMA CallbackBeginInv == ASSUME AudioInv, CallbackBegin PROVE AudioInv'
<1>1. AudioTypeOK'
  BY AudioAssumption DEF AudioInv, AudioTypeOK, CallbackBegin
<1> QED
  BY <1>1, SameFrames DEF CallbackBegin

LEMMA CallbackEndInv == ASSUME AudioInv, CallbackEnd PROVE AudioInv'
<1>1. AudioTypeOK'
  BY AudioAssumption DEF AudioInv, AudioTypeOK, CallbackEnd, Idle
<1> QED
  BY <1>1, SameFrames DEF CallbackEnd

LEMMA CallbackDropCurrentInv ==
  ASSUME AudioInv, CallbackDropCurrent
  PROVE  AudioInv'
<1>1. queuedFrames' = Waiting
  BY AudioInvParts DEF CallbackDropCurrent, CountedOut, Lesser
<1>2. Waiting' = Waiting
  BY DEF CallbackDropCurrent, Waiting
<1>3. AudioTypeOK'
  BY <1>1, AudioInvParts DEF AudioInv, AudioTypeOK, CallbackDropCurrent
<1>4. PlayingWithinClip'
  BY DEF PlayingWithinClip, HasCurrent, CallbackDropCurrent
<1>5. queuedFrames' = RemainingFrames' + Waiting' /\ queuedFrames' <= MaximumFrames
  BY <1>1, <1>2, AudioInvParts, AudioAssumption
  DEF CallbackDropCurrent, RemainingFrames, NoClip
<1> QED
  BY <1>3, <1>4, <1>5 DEF AudioInv, QueuedFramesExact, Waiting, FramesOf

LEMMA CallbackTakeInv == ASSUME AudioInv, CallbackTake PROVE AudioInv'
<1> DEFINE clip == Head(audioQueue)
<1>1. /\ clip \in Clips /\ clip.frames \in Nat /\ clip.frames > 0
      /\ Tail(audioQueue) \in Seq(Clips)
      /\ Waiting' \in Nat
      /\ Waiting = clip.frames + Waiting'
  <2>1. audioQueue \in Seq(Clips) /\ audioQueue # <<>> /\ audioQueue' = Tail(audioQueue)
    BY DEF AudioInv, AudioTypeOK, CallbackTake
  <2>2. clip \in Clips /\ Tail(audioQueue) \in Seq(Clips)
    BY <2>1, FramesOfTail
  <2>3. Waiting' \in Nat
    BY <2>1, <2>2, FramesOfClips, TotalType DEF Waiting
  <2>4. Waiting = clip.frames + Waiting'
    BY <2>1, FramesOfTail, FramesOfClips, TotalTail DEF Waiting
  <2> QED
    BY <2>2, <2>3, <2>4 DEF Clips
<1>2. ~HasCurrent /\ RemainingFrames = 0 /\ queuedFrames = Waiting
  BY AudioInvParts DEF CallbackTake
<1>3. CASE ~Obsolete(clip)
  <2>1. current' = clip /\ currentFrame' = 0 /\ queuedFrames' = queuedFrames
    BY <1>3 DEF CallbackTake
  <2>2. AudioTypeOK'
    BY <1>1, <2>1 DEF AudioInv, AudioTypeOK, CallbackTake
  <2>3. PlayingWithinClip'
    BY <1>1, <2>1 DEF PlayingWithinClip, HasCurrent
  <2>4. queuedFrames' = RemainingFrames' + Waiting' /\ queuedFrames' <= MaximumFrames
    BY <1>1, <1>2, <2>1, AudioInvParts DEF RemainingFrames
  <2> QED
    BY <2>2, <2>3, <2>4 DEF AudioInv, QueuedFramesExact, Waiting, FramesOf
<1>4. CASE Obsolete(clip)
  <2>1. current' = current /\ currentFrame' = 0 /\ queuedFrames' = Waiting'
    BY <1>1, <1>2, <1>4 DEF CallbackTake, CountedOut, Lesser
  <2>2. AudioTypeOK'
    BY <1>1, <2>1 DEF AudioInv, AudioTypeOK, CallbackTake
  <2>3. PlayingWithinClip'
    BY <1>2, <2>1 DEF PlayingWithinClip, HasCurrent
  <2>4. queuedFrames' = RemainingFrames' + Waiting' /\ queuedFrames' <= MaximumFrames
    BY <1>1, <1>2, <2>1, AudioInvParts, AudioAssumption
    DEF RemainingFrames, HasCurrent, NoClip
  <2> QED
    BY <2>2, <2>3, <2>4 DEF AudioInv, QueuedFramesExact, Waiting, FramesOf
<1> QED
  BY <1>3, <1>4

LEMMA CallbackCopyInv == ASSUME AudioInv, CallbackCopy PROVE AudioInv'
<1> DEFINE n == CopiedFrames
<1>1. /\ callback.written \in Nat /\ callback.written < CallbackFrames
      /\ CallbackFrames \in Nat
  BY AudioAssumption DEF AudioInv, AudioTypeOK, CallbackCopy, CallbackWantsMore
<1>2. /\ HasCurrent /\ current \in Clips /\ current.frames \in Nat
      /\ currentFrame \in Nat /\ RemainingFrames = current.frames - currentFrame
      /\ RemainingFrames \in Nat \ {0}
  BY AudioInvParts DEF AudioInv, AudioTypeOK, CallbackCopy, RemainingFrames
<1>3. /\ n \in Nat \ {0} /\ n <= RemainingFrames
      /\ n <= CallbackFrames - callback.written
  BY <1>1, <1>2 DEF CopiedFrames, Lesser
<1>4. queuedFrames' = queuedFrames - n /\ Waiting' = Waiting
  BY <1>3, AudioInvParts DEF CallbackCopy, CountedOut, Lesser, Waiting
<1>5. callback' \in [holds : BOOLEAN, valid : Nat, written : 0..CallbackFrames]
  BY <1>1, <1>3 DEF AudioInv, AudioTypeOK, CallbackCopy
<1>6. CASE CopyFinishes
  <2>1. /\ current' = NoClip /\ currentFrame' = 0
        /\ n = RemainingFrames
    BY <1>2, <1>3, <1>6 DEF CallbackCopy, CopyFinishes
  <2>2. queuedFrames' = Waiting
    BY <1>4, <2>1, AudioInvParts
  <2>3. AudioTypeOK'
    BY <1>5, <2>1, <2>2, AudioInvParts DEF AudioInv, AudioTypeOK, CallbackCopy
  <2>4. PlayingWithinClip'
    BY <2>1 DEF PlayingWithinClip, HasCurrent
  <2>5. queuedFrames' = RemainingFrames' + Waiting' /\ queuedFrames' <= MaximumFrames
    BY <1>4, <2>1, <2>2, AudioInvParts, AudioAssumption DEF RemainingFrames, NoClip
  <2> QED
    BY <2>3, <2>4, <2>5 DEF AudioInv, QueuedFramesExact, Waiting, FramesOf
<1>7. CASE ~CopyFinishes
  <2>1. /\ current' = current /\ currentFrame' = currentFrame + n
        /\ currentFrame + n < current.frames
    BY <1>2, <1>3, <1>7 DEF CallbackCopy, CopyFinishes
  <2>2. queuedFrames' \in Nat
    BY <1>3, <1>4, AudioInvParts
  <2>3. AudioTypeOK'
    BY <1>2, <1>3, <1>5, <2>1, <2>2 DEF AudioInv, AudioTypeOK, CallbackCopy
  <2>4. PlayingWithinClip'
    BY <1>2, <2>1 DEF PlayingWithinClip, HasCurrent
  <2>5. queuedFrames' = RemainingFrames' + Waiting' /\ queuedFrames' <= MaximumFrames
    BY <1>2, <1>3, <1>4, <2>1, AudioInvParts, AudioAssumption DEF RemainingFrames
  <2> QED
    BY <2>3, <2>4, <2>5 DEF AudioInv, QueuedFramesExact, Waiting, FramesOf
<1> QED
  BY <1>6, <1>7
=============================================================================
