--------------------------- MODULE WakePlanProofs ---------------------------
(***************************************************************************)
(* Facts about the plans, for every configuration and every survey: what   *)
(* they hold, what they leave out, and in which order.                     *)
(***************************************************************************)
EXTENDS WakePlan, SequenceTheorems, TLAPS

(* A planned frame is a frame: it carries the survey's own addresses.      *)
LEMMA PlannedType ==
    ASSUME NEW s \in BusState, NEW op \in Op, NEW to \in Destination,
           NEW required \in BOOLEAN
    PROVE  Planned(s, op, to, required) \in Frame
BY DEF Planned, Frame, BusState

(* The frames the wake and the standby plan of their own accord.           *)
LEMMA BuiltInFrames ==
    ASSUME NEW s \in BusState
    PROVE  /\ Planned(s, "UserControlPressed", "tv", TRUE) \in Frame
           /\ Planned(s, "UserControlReleased", "tv", TRUE) \in Frame
           /\ Planned(s, "ImageViewOn", "tv", TRUE) \in Frame
           /\ Planned(s, "SetStreamPath", "all", FALSE) \in Frame
           /\ Planned(s, "ActiveSource", "all", FALSE) \in Frame
           /\ Planned(s, "SystemAudioModeRequest", "audio", TRUE) \in Frame
           /\ Planned(s, "Standby", "all", FALSE) \in Frame
           /\ Planned(s, "Standby", "tv", TRUE) \in Frame
           /\ Planned(s, "Standby", "audio", TRUE) \in Frame
BY PlannedType DEF Op, ExtraOp, Destination

-----------------------------------------------------------------------------
(* Putting plans together.                                                 *)

Lacks(frames, A) == \A i \in DOMAIN frames : frames[i] \notin A
Has(frames, f) == \E i \in DOMAIN frames : frames[i] = f
(* Every frame of A comes before every frame of B.                         *)
Before(frames, A, B) ==
    \A i, j \in DOMAIN frames : frames[i] \in A /\ frames[j] \in B => i < j

(* Where the frames of two lists are when one follows the other.           *)
LEMMA JoinedAt ==
    ASSUME NEW first \in Seq(Frame), NEW second \in Seq(Frame)
    PROVE  /\ first \o second \in Seq(Frame)
           /\ \A i \in DOMAIN (first \o second) :
                 \/ i \in DOMAIN first /\ (first \o second)[i] = first[i]
                 \/ /\ i - Len(first) \in DOMAIN second
                    /\ (first \o second)[i] = second[i - Len(first)]
           /\ \A i \in DOMAIN first :
                 i \in DOMAIN (first \o second) /\ (first \o second)[i] = first[i]
           /\ \A i \in DOMAIN second :
                 /\ Len(first) + i \in DOMAIN (first \o second)
                 /\ (first \o second)[Len(first) + i] = second[i]
<1>1. first \o second \in Seq(Frame) /\ Len(first) \in Nat /\ Len(second) \in Nat
  OBVIOUS
<1>2. /\ DOMAIN first = 1 .. Len(first) /\ DOMAIN second = 1 .. Len(second)
      /\ DOMAIN (first \o second) = 1 .. Len(first) + Len(second)
  OBVIOUS
<1>3. ASSUME NEW i \in 1 .. Len(first) + Len(second)
      PROVE  \/ i \in DOMAIN first /\ (first \o second)[i] = first[i]
             \/ /\ i - Len(first) \in DOMAIN second
                /\ (first \o second)[i] = second[i - Len(first)]
  <2>1. CASE i <= Len(first)
    BY <1>1, <1>2, <2>1
  <2>2. CASE i > Len(first)
    BY <1>1, <1>2, <2>2
  <2> QED  BY <1>1, <2>1, <2>2
<1>4. ASSUME NEW i \in 1 .. Len(first)
      PROVE  i \in DOMAIN (first \o second) /\ (first \o second)[i] = first[i]
  BY <1>1, <1>2
<1>5. ASSUME NEW i \in 1 .. Len(second)
      PROVE  /\ Len(first) + i \in DOMAIN (first \o second)
             /\ (first \o second)[Len(first) + i] = second[i]
  BY <1>1, <1>2
<1> QED  BY <1>1, <1>2, <1>3, <1>4, <1>5

(* Frames that lack some kind of frame, and frames that have one.          *)
Free(A) == {frames \in Seq(Frame) : Lacks(frames, A)}
Holding(f) == {frames \in Seq(Frame) : Has(frames, f)}

(* A kind of frame that both lack is in neither.                           *)
LEMMA JoinFree ==
    ASSUME NEW A, NEW first \in Free(A), NEW second \in Free(A)
    PROVE  first \o second \in Free(A)
<1>1. first \in Seq(Frame) /\ second \in Seq(Frame) /\ Lacks(first, A) /\ Lacks(second, A)
  BY DEF Free
<1>2. ASSUME NEW i \in DOMAIN (first \o second) PROVE (first \o second)[i] \notin A
  <2>1. CASE i \in DOMAIN first /\ (first \o second)[i] = first[i]
    BY <1>1, <2>1 DEF Lacks
  <2>2. CASE /\ i - Len(first) \in DOMAIN second
             /\ (first \o second)[i] = second[i - Len(first)]
    BY <1>1, <2>2 DEF Lacks
  <2> QED  BY <1>1, <2>1, <2>2, JoinedAt
<1>3. first \o second \in Seq(Frame) /\ Lacks(first \o second, A)
  BY <1>1, <1>2 DEF Lacks
<1> QED  BY <1>3 DEF Free

(* A frame that either has is in both.                                     *)
LEMMA JoinHolding ==
    ASSUME NEW f, NEW first \in Seq(Frame), NEW second \in Seq(Frame),
           first \in Holding(f) \/ second \in Holding(f)
    PROVE  first \o second \in Holding(f)
<1>1. first \o second \in Seq(Frame)
  OBVIOUS
<1>2. CASE first \in Holding(f)
  <2>1. PICK i \in DOMAIN first : first[i] = f
    BY <1>2 DEF Holding, Has
  <2>2. i \in DOMAIN (first \o second) /\ (first \o second)[i] = f
    BY <2>1, JoinedAt
  <2> QED  BY <1>1, <2>2 DEF Holding, Has
<1>3. CASE second \in Holding(f)
  <2>1. PICK i \in DOMAIN second : second[i] = f
    BY <1>3 DEF Holding, Has
  <2>2. /\ Len(first) + i \in DOMAIN (first \o second)
        /\ (first \o second)[Len(first) + i] = f
    BY <2>1, JoinedAt
  <2> QED  BY <1>1, <2>2 DEF Holding, Has
<1> QED  BY <1>2, <1>3

(* An order is kept by what follows, if no more of what comes first does.  *)
LEMMA JoinBefore ==
    ASSUME NEW A, NEW B, NEW first \in Seq(Frame), NEW second \in Free(A),
           Before(first, A, B)
    PROVE  first \o second \in Seq(Frame) /\ Before(first \o second, A, B)
<1>1. second \in Seq(Frame) /\ Lacks(second, A) /\ first \o second \in Seq(Frame)
  BY DEF Free
<1> SUFFICES ASSUME NEW i \in DOMAIN (first \o second), NEW j \in DOMAIN (first \o second),
                    (first \o second)[i] \in A, (first \o second)[j] \in B
             PROVE  i < j
  BY <1>1 DEF Before
<1>2. i \in DOMAIN first /\ (first \o second)[i] = first[i]
  BY <1>1, JoinedAt DEF Lacks
<1>3. CASE j \in DOMAIN first /\ (first \o second)[j] = first[j]
  BY <1>2, <1>3 DEF Before
<1>4. CASE j - Len(first) \in DOMAIN second
  <2>1. Len(first) \in Nat /\ i \in 1 .. Len(first) /\ j \in Nat /\ j - Len(first) > 0
    BY <1>1, <1>2, <1>4
  <2> QED  BY <2>1
<1> QED  BY <1>1, <1>3, <1>4, JoinedAt

(* Leaving frames out, as an if does, adds none.                           *)
LEMMA WhenFree ==
    ASSUME NEW A, NEW frames \in Seq(Frame), NEW b, b => frames \in Free(A)
    PROVE  When(b, frames) \in Free(A)
BY DEF When, Free, Lacks

(* What an if keeps is there when its condition holds.                     *)
LEMMA WhenHolding ==
    ASSUME NEW f, NEW frames \in Holding(f), NEW b, b
    PROVE  When(b, frames) \in Holding(f)
BY DEF When

(* One frame, and two, lack what they are not and hold what they are.      *)
LEMMA Few ==
    ASSUME NEW f \in Frame, NEW g \in Frame
    PROVE  /\ << f >> \in Seq(Frame) /\ << f, g >> \in Seq(Frame)
           /\ \A A : f \notin A => << f >> \in Free(A)
           /\ \A A : f \notin A /\ g \notin A => << f, g >> \in Free(A)
           /\ << f >> \in Holding(f)
BY DEF Lacks, Has, Free, Holding

(* The user's own frames: each is what an entry says, or they are dropped. *)
LEMMA ExtraFrames ==
    ASSUME NEW s \in BusState, NEW spec \in Seq(ExtraEntry)
    PROVE  /\ Extra(spec, s) \in Seq(Frame)
           /\ \A i \in DOMAIN Extra(spec, s) :
                 /\ i \in DOMAIN spec
                 /\ Extra(spec, s)[i] = Planned(s, spec[i].op, spec[i].to, FALSE)
           /\ spec = << >> => Extra(spec, s) = << >>
<1> DEFINE frames == [i \in DOMAIN spec |-> Planned(s, spec[i].op, spec[i].to, FALSE)]
<1>1. \A i \in DOMAIN spec : frames[i] \in Frame
  <2>1. SUFFICES ASSUME NEW i \in DOMAIN spec
                 PROVE  Planned(s, spec[i].op, spec[i].to, FALSE) \in Frame
    OBVIOUS
  <2>2. spec[i] \in ExtraEntry
    OBVIOUS
  <2>3. spec[i].op \in Op /\ spec[i].to \in Destination
    BY <2>2 DEF ExtraEntry, Op
  <2> QED  BY <2>3, PlannedType
<1>2. frames \in Seq(Frame)
  <2>1. Len(spec) \in Nat /\ DOMAIN spec = 1 .. Len(spec)
    OBVIOUS
  <2>2. frames \in [1 .. Len(spec) -> Frame]
    BY <1>1, <2>1
  <2> QED  BY <2>1, <2>2, SeqDef
<1>3. Extra(spec, s) = frames \/ Extra(spec, s) = << >>
  BY DEF Extra, When
<1>4. CASE Extra(spec, s) = << >>
  BY <1>4
<1>5. CASE Extra(spec, s) = frames
  <2>1. DOMAIN frames = DOMAIN spec
    OBVIOUS
  <2>2. spec = << >> => Len(frames) = 0
    BY <1>2, <2>1
  <2>3. spec = << >> => frames = << >>
    BY <1>2, <2>2
  <2> QED  BY <1>2, <1>5, <2>1, <2>3
<1> QED  BY <1>3, <1>4, <1>5

(* They lack whatever none of the entries asks for.                        *)
LEMMA ExtraFree ==
    ASSUME NEW s \in BusState, NEW spec \in Seq(ExtraEntry), NEW A,
           \A i \in DOMAIN spec : Planned(s, spec[i].op, spec[i].to, FALSE) \notin A
    PROVE  Extra(spec, s) \in Free(A)
BY ExtraFrames DEF Free, Lacks

-----------------------------------------------------------------------------
(* The plan of a wake.                                                     *)

(* Everything is free of what cannot be found.                             *)
LEMMA FreeOfNothing == Free({}) = Seq(Frame)
BY DEF Free, Lacks

(* It lacks whatever is neither among the frames the switches and the      *)
(* survey call for nor among the user's own.                               *)
LEMMA WakeFree ==
    ASSUME NEW c \in Config, NEW s \in BusState, NEW A,
           NeedTv(c, s) => /\ Planned(s, "UserControlPressed", "tv", TRUE) \notin A
                           /\ Planned(s, "UserControlReleased", "tv", TRUE) \notin A
                           /\ Planned(s, "ImageViewOn", "tv", TRUE) \notin A,
           NeedSource(c, s) => /\ Planned(s, "SetStreamPath", "all", FALSE) \notin A
                               /\ Planned(s, "ActiveSource", "all", FALSE) \notin A,
           NeedAudio(c, s) => Planned(s, "SystemAudioModeRequest", "audio", TRUE) \notin A,
           Extra(c.extra_wake_frames, s) \in Free(A)
    PROVE  PlanWake(c, s) \in Free(A)
<1> DEFINE
      key == When(NeedTv(c, s) /\ c.send_remote_power_key,
                  << Planned(s, "UserControlPressed", "tv", TRUE),
                     Planned(s, "UserControlReleased", "tv", TRUE) >>)
      view == When(NeedTv(c, s), << Planned(s, "ImageViewOn", "tv", TRUE) >>)
      path == When(NeedSource(c, s) /\ c.send_stream_path,
                   << Planned(s, "SetStreamPath", "all", FALSE) >>)
      claim == When(NeedSource(c, s), << Planned(s, "ActiveSource", "all", FALSE) >>)
      audio == When(NeedAudio(c, s),
                    << Planned(s, "SystemAudioModeRequest", "audio", TRUE) >>)
      own == Extra(c.extra_wake_frames, s)
<1>1. key \in Free(A) /\ view \in Free(A)
  BY BuiltInFrames, Few, WhenFree
<1>2. path \in Free(A) /\ claim \in Free(A) /\ audio \in Free(A)
  BY BuiltInFrames, Few, WhenFree
<1>3. PlanWake(c, s) = key \o view \o path \o claim \o audio \o own
  BY DEF PlanWake
<1> HIDE DEF key, view, path, claim, audio
<1>4. key \o view \o path \in Free(A)
  BY <1>1, <1>2, JoinFree
<1>5. key \o view \o path \o claim \o audio \in Free(A)
  BY <1>2, <1>4, JoinFree
<1> QED  BY <1>3, <1>5, JoinFree

(* It is a list of frames, and holds what is needed.                       *)
LEMMA WakeHolds ==
    ASSUME NEW c \in Config, NEW s \in BusState
    PROVE  /\ PlanWake(c, s) \in Seq(Frame)
           /\ NeedTv(c, s) =>
                 PlanWake(c, s) \in Holding(Planned(s, "ImageViewOn", "tv", TRUE))
           /\ NeedSource(c, s) =>
                 PlanWake(c, s) \in Holding(Planned(s, "ActiveSource", "all", FALSE))
           /\ NeedAudio(c, s) =>
                 PlanWake(c, s) \in
                    Holding(Planned(s, "SystemAudioModeRequest", "audio", TRUE))
<1> DEFINE
      key == When(NeedTv(c, s) /\ c.send_remote_power_key,
                  << Planned(s, "UserControlPressed", "tv", TRUE),
                     Planned(s, "UserControlReleased", "tv", TRUE) >>)
      view == When(NeedTv(c, s), << Planned(s, "ImageViewOn", "tv", TRUE) >>)
      path == When(NeedSource(c, s) /\ c.send_stream_path,
                   << Planned(s, "SetStreamPath", "all", FALSE) >>)
      claim == When(NeedSource(c, s), << Planned(s, "ActiveSource", "all", FALSE) >>)
      audio == When(NeedAudio(c, s),
                    << Planned(s, "SystemAudioModeRequest", "audio", TRUE) >>)
      own == Extra(c.extra_wake_frames, s)
      tvFrame == Planned(s, "ImageViewOn", "tv", TRUE)
      claimFrame == Planned(s, "ActiveSource", "all", FALSE)
      audioFrame == Planned(s, "SystemAudioModeRequest", "audio", TRUE)
<1>1. own \in Seq(Frame)
  BY ExtraFrames DEF Config
<1>2. /\ key \in Seq(Frame) /\ view \in Seq(Frame) /\ path \in Seq(Frame)
      /\ claim \in Seq(Frame) /\ audio \in Seq(Frame)
  BY BuiltInFrames, Few, WhenFree, FreeOfNothing
<1>3. NeedTv(c, s) => view \in Holding(tvFrame)
  BY BuiltInFrames, Few, WhenHolding
<1>4. NeedSource(c, s) => claim \in Holding(claimFrame)
  BY BuiltInFrames, Few, WhenHolding
<1>5. NeedAudio(c, s) => audio \in Holding(audioFrame)
  BY BuiltInFrames, Few, WhenHolding
<1>6. PlanWake(c, s) = key \o view \o path \o claim \o audio \o own
  BY DEF PlanWake
<1> HIDE DEF key, view, path, claim, audio, own, tvFrame, claimFrame, audioFrame
<1>7. /\ key \o view \in Seq(Frame) /\ key \o view \o path \in Seq(Frame)
      /\ key \o view \o path \o claim \in Seq(Frame)
      /\ key \o view \o path \o claim \o audio \in Seq(Frame)
      /\ key \o view \o path \o claim \o audio \o own \in Seq(Frame)
  BY <1>1, <1>2
<1>8. ASSUME NeedTv(c, s) PROVE PlanWake(c, s) \in Holding(tvFrame)
  <2>1. key \o view \o path \in Holding(tvFrame)
    BY <1>2, <1>3, <1>7, <1>8, JoinHolding
  <2>2. key \o view \o path \o claim \o audio \in Holding(tvFrame)
    BY <1>2, <1>7, <2>1, JoinHolding
  <2> QED  BY <1>1, <1>6, <1>7, <2>2, JoinHolding
<1>9. ASSUME NeedSource(c, s) PROVE PlanWake(c, s) \in Holding(claimFrame)
  <2>1. key \o view \o path \o claim \o audio \in Holding(claimFrame)
    BY <1>2, <1>4, <1>7, <1>9, JoinHolding
  <2> QED  BY <1>1, <1>6, <1>7, <2>1, JoinHolding
<1>10. ASSUME NeedAudio(c, s) PROVE PlanWake(c, s) \in Holding(audioFrame)
  <2>1. key \o view \o path \o claim \o audio \in Holding(audioFrame)
    BY <1>2, <1>5, <1>7, <1>10, JoinHolding
  <2> QED  BY <1>1, <1>6, <1>7, <2>1, JoinHolding
<1>11. PlanWake(c, s) \in Seq(Frame)
  BY <1>6, <1>7
<1> QED  BY <1>8, <1>9, <1>10, <1>11 DEF tvFrame, claimFrame, audioFrame

(* When nothing is needed and the user adds nothing, nothing is sent.      *)
LEMMA WakeNothing ==
    ASSUME NEW c \in Config, NEW s \in BusState, c.extra_wake_frames = << >>,
           ~NeedTv(c, s), ~NeedSource(c, s), ~NeedAudio(c, s)
    PROVE  PlanWake(c, s) = << >>
<1>1. Extra(c.extra_wake_frames, s) = << >>
  BY ExtraFrames DEF Config
<1> QED  BY <1>1 DEF PlanWake, When

Of(ops) == {f \in Frame : f.op \in ops}

(* Whatever wakes the TV comes before the claim of its input, and before   *)
(* the user's own frames.                                                  *)
LEMMA WakeOrder ==
    ASSUME NEW c \in Config, NEW s \in BusState
    PROVE  Before(PlanWake(c, s), Of({"UserControlPressed", "ImageViewOn"}),
                                  Of({"ActiveSource", "TextViewOn"}))
<1> DEFINE
      key == When(NeedTv(c, s) /\ c.send_remote_power_key,
                  << Planned(s, "UserControlPressed", "tv", TRUE),
                     Planned(s, "UserControlReleased", "tv", TRUE) >>)
      view == When(NeedTv(c, s), << Planned(s, "ImageViewOn", "tv", TRUE) >>)
      path == When(NeedSource(c, s) /\ c.send_stream_path,
                   << Planned(s, "SetStreamPath", "all", FALSE) >>)
      claim == When(NeedSource(c, s), << Planned(s, "ActiveSource", "all", FALSE) >>)
      audio == When(NeedAudio(c, s),
                    << Planned(s, "SystemAudioModeRequest", "audio", TRUE) >>)
      own == Extra(c.extra_wake_frames, s)
      A == Of({"UserControlPressed", "ImageViewOn"})
      B == Of({"ActiveSource", "TextViewOn"})
<1>1. own \in Free(A)
  <2>1. c.extra_wake_frames \in Seq(ExtraEntry)
    BY DEF Config
  <2>2. ASSUME NEW i \in DOMAIN own PROVE own[i] \notin A
    <3>1. /\ i \in DOMAIN c.extra_wake_frames
          /\ own[i] = Planned(s, c.extra_wake_frames[i].op, c.extra_wake_frames[i].to, FALSE)
      BY <2>1, ExtraFrames
    <3>2. c.extra_wake_frames[i] \in ExtraEntry
      BY <2>1, <3>1
    <3> QED  BY <3>1, <3>2 DEF ExtraEntry, ExtraOp, Planned, Of
  <2> QED  BY <2>1, <2>2, ExtraFrames DEF Lacks, Free
<1>2. /\ Planned(s, "UserControlPressed", "tv", TRUE) \notin B
      /\ Planned(s, "UserControlReleased", "tv", TRUE) \notin B
      /\ Planned(s, "ImageViewOn", "tv", TRUE) \notin B
  BY DEF Planned, Of
<1>3. /\ Planned(s, "SetStreamPath", "all", FALSE) \notin A
      /\ Planned(s, "ActiveSource", "all", FALSE) \notin A
      /\ Planned(s, "SystemAudioModeRequest", "audio", TRUE) \notin A
  BY DEF Planned, Of
<1> HIDE DEF A, B
<1>4. key \in Free(B) /\ view \in Free(B)
  BY <1>2, BuiltInFrames, Few, WhenFree
<1>5. path \in Free(A) /\ claim \in Free(A) /\ audio \in Free(A)
  BY <1>3, BuiltInFrames, Few, WhenFree
<1>6. PlanWake(c, s) = key \o view \o path \o claim \o audio \o own
  BY DEF PlanWake
<1> HIDE DEF key, view, path, claim, audio, own
<1>7. key \o view \in Seq(Frame) /\ Before(key \o view, A, B)
  BY <1>4, JoinFree DEF Before, Lacks, Free
<1>8. key \o view \o path \in Seq(Frame) /\ Before(key \o view \o path, A, B)
  BY <1>5, <1>7, JoinBefore
<1>9. /\ key \o view \o path \o claim \in Seq(Frame)
      /\ Before(key \o view \o path \o claim, A, B)
  BY <1>5, <1>8, JoinBefore
<1>10. /\ key \o view \o path \o claim \o audio \in Seq(Frame)
       /\ Before(key \o view \o path \o claim \o audio, A, B)
  BY <1>5, <1>9, JoinBefore
<1>11. Before(PlanWake(c, s), A, B)
  BY <1>1, <1>6, <1>10, JoinBefore
<1> QED  BY <1>11 DEF A, B

-----------------------------------------------------------------------------
(* The plan of a standby.                                                  *)

(* It lacks whatever is neither a <Standby> that is called for nor one of  *)
(* the user's own frames.                                                  *)
LEMMA StandbyFree ==
    ASSUME NEW c \in Config, NEW s \in BusState, NEW A,
           c.standby_broadcast => Planned(s, "Standby", "all", FALSE) \notin A,
           c.standby_tv => Planned(s, "Standby", "tv", TRUE) \notin A,
           c.standby_audio /\ s.audio_present => Planned(s, "Standby", "audio", TRUE) \notin A,
           Extra(c.extra_standby_frames, s) \in Free(A)
    PROVE  PlanStandby(c, s) \in Free(A)
<1> DEFINE
      all == When(c.standby_broadcast, << Planned(s, "Standby", "all", FALSE) >>)
      tv == When(~c.standby_broadcast /\ c.standby_tv,
                 << Planned(s, "Standby", "tv", TRUE) >>)
      audio == When(~c.standby_broadcast /\ c.standby_audio /\ s.audio_present,
                    << Planned(s, "Standby", "audio", TRUE) >>)
      own == Extra(c.extra_standby_frames, s)
<1>1. all \in Free(A) /\ tv \in Free(A) /\ audio \in Free(A)
  BY BuiltInFrames, Few, WhenFree
<1>2. PlanStandby(c, s) = all \o tv \o audio \o own
  BY DEF PlanStandby
<1> HIDE DEF all, tv, audio
<1>3. all \o tv \o audio \in Free(A)
  BY <1>1, JoinFree
<1> QED  BY <1>2, <1>3, JoinFree

(* It is a list of frames, and everything that is to sleep is told to.     *)
LEMMA StandbyHolds ==
    ASSUME NEW c \in Config, NEW s \in BusState
    PROVE  /\ PlanStandby(c, s) \in Seq(Frame)
           /\ c.standby_broadcast =>
                 PlanStandby(c, s) \in Holding(Planned(s, "Standby", "all", FALSE))
           /\ ~c.standby_broadcast /\ c.standby_tv =>
                 PlanStandby(c, s) \in Holding(Planned(s, "Standby", "tv", TRUE))
           /\ ~c.standby_broadcast /\ c.standby_audio /\ s.audio_present =>
                 PlanStandby(c, s) \in Holding(Planned(s, "Standby", "audio", TRUE))
<1> DEFINE
      all == When(c.standby_broadcast, << Planned(s, "Standby", "all", FALSE) >>)
      tv == When(~c.standby_broadcast /\ c.standby_tv,
                 << Planned(s, "Standby", "tv", TRUE) >>)
      audio == When(~c.standby_broadcast /\ c.standby_audio /\ s.audio_present,
                    << Planned(s, "Standby", "audio", TRUE) >>)
      own == Extra(c.extra_standby_frames, s)
      allFrame == Planned(s, "Standby", "all", FALSE)
      tvFrame == Planned(s, "Standby", "tv", TRUE)
      audioFrame == Planned(s, "Standby", "audio", TRUE)
<1>1. own \in Seq(Frame)
  BY ExtraFrames DEF Config
<1>2. all \in Seq(Frame) /\ tv \in Seq(Frame) /\ audio \in Seq(Frame)
  BY BuiltInFrames, Few, WhenFree, FreeOfNothing
<1>3. c.standby_broadcast => all \in Holding(allFrame)
  BY BuiltInFrames, Few, WhenHolding
<1>4. ~c.standby_broadcast /\ c.standby_tv => tv \in Holding(tvFrame)
  BY BuiltInFrames, Few, WhenHolding
<1>5. ~c.standby_broadcast /\ c.standby_audio /\ s.audio_present =>
         audio \in Holding(audioFrame)
  BY BuiltInFrames, Few, WhenHolding
<1>6. PlanStandby(c, s) = all \o tv \o audio \o own
  BY DEF PlanStandby
<1> HIDE DEF all, tv, audio, own, allFrame, tvFrame, audioFrame
<1>7. /\ all \o tv \in Seq(Frame) /\ all \o tv \o audio \in Seq(Frame)
      /\ all \o tv \o audio \o own \in Seq(Frame)
  BY <1>1, <1>2
<1>8. ASSUME NEW f, all \in Holding(f) \/ tv \in Holding(f) \/ audio \in Holding(f)
      PROVE  PlanStandby(c, s) \in Holding(f)
  <2>1. all \o tv \o audio \in Holding(f)
    BY <1>2, <1>7, <1>8, JoinHolding
  <2> QED  BY <1>1, <1>6, <1>7, <2>1, JoinHolding
<1>9. PlanStandby(c, s) \in Seq(Frame)
  BY <1>6, <1>7
<1> QED  BY <1>3, <1>4, <1>5, <1>8, <1>9 DEF allFrame, tvFrame, audioFrame

-----------------------------------------------------------------------------
(* What a plan requires is addressed to one device, whose acknowledgement  *)
(* means something; broadcasts are best effort.                            *)
Directed(frames) == \A i \in DOMAIN frames : frames[i].required => frames[i].to # "all"

Plans == {frames \in Seq(Frame) : Directed(frames)}

Required == {f \in Frame : f.required}

(* The user's frames are all best effort.                                  *)
LEMMA ExtraBestEffort ==
    ASSUME NEW s \in BusState, NEW spec \in Seq(ExtraEntry)
    PROVE  Extra(spec, s) \in Free(Required)
BY ExtraFrames DEF Lacks, Free, Planned, Required

Misdirected == {f \in Required : f.to = "all"}

(* A list without a broadcast that is required is a plan.                  *)
LEMMA FreeDirected == Free(Misdirected) = Plans
<1>1. ASSUME NEW frames \in Seq(Frame)
      PROVE  Lacks(frames, Misdirected) <=> Directed(frames)
  <2>1. \A i \in DOMAIN frames : frames[i] \in Frame
    OBVIOUS
  <2> QED  BY <2>1 DEF Lacks, Directed, Misdirected, Required
<1> QED  BY <1>1 DEF Free, Plans

(* A wake's plan is a plan: a sequence of frames, with what it requires    *)
(* sent to the TV or to the receiver.                                      *)
LEMMA PlanWakePlans ==
    ASSUME NEW c \in Config, NEW s \in BusState
    PROVE  PlanWake(c, s) \in Plans
<1>1. /\ Planned(s, "UserControlPressed", "tv", TRUE) \notin Misdirected
      /\ Planned(s, "UserControlReleased", "tv", TRUE) \notin Misdirected
      /\ Planned(s, "ImageViewOn", "tv", TRUE) \notin Misdirected
      /\ Planned(s, "SetStreamPath", "all", FALSE) \notin Misdirected
      /\ Planned(s, "ActiveSource", "all", FALSE) \notin Misdirected
      /\ Planned(s, "SystemAudioModeRequest", "audio", TRUE) \notin Misdirected
  BY DEF Planned, Misdirected, Required
<1>2. Extra(c.extra_wake_frames, s) \in Free(Misdirected)
  BY ExtraBestEffort DEF Config, Free, Lacks, Misdirected
<1> QED  BY <1>1, <1>2, WakeFree, FreeDirected

(* So is a standby's.                                                      *)
LEMMA PlanStandbyPlans ==
    ASSUME NEW c \in Config, NEW s \in BusState
    PROVE  PlanStandby(c, s) \in Plans
<1>1. /\ Planned(s, "Standby", "all", FALSE) \notin Misdirected
      /\ Planned(s, "Standby", "tv", TRUE) \notin Misdirected
      /\ Planned(s, "Standby", "audio", TRUE) \notin Misdirected
  BY DEF Planned, Misdirected, Required
<1>2. Extra(c.extra_standby_frames, s) \in Free(Misdirected)
  BY ExtraBestEffort DEF Config, Free, Lacks, Misdirected
<1> QED  BY <1>1, <1>2, StandbyFree, FreeDirected
=============================================================================
