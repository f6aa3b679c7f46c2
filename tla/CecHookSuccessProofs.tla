------------------------ MODULE CecHookSuccessProofs ------------------------
(***************************************************************************)
(* Exit status 0 means the required frames landed, RequiredLanded, and     *)
(* every run keeps its contract, KeepsContract: for every number of hooks  *)
(* and with every fault allowed.                                           *)
(***************************************************************************)
EXTENDS CecHookProofs

(* The required frames of the plan before the n-th were acknowledged.      *)
LandedBelow(h, n) ==
    \A i \in DOMAIN plan[h] : plan[h][i].required /\ i < n => i \in landed[h]

AllLanded(h) == \A i \in DOMAIN plan[h] : plan[h][i].required => i \in landed[h]

(* The inductive form of RequiredLanded.  The loop has had everything      *)
(* required acknowledged so far; it may shrug at a refused broadcast       *)
(* because nothing required is one.                                        *)
SuccessInv(h) ==
    /\ Directed(plan[h])
    /\ pc[h] # "done" => verdict[h] = "running"
    /\ pc[h] = "send" => LandedBelow(h, at[h])
    /\ pc[h] = "confirm" => AllLanded(h)
    /\ verdict[h] = "ok" /\ ~DryRun(h) => AllLanded(h)

LandedInv == \A h \in Hooks : SuccessInv(h)

(* Only one hook moves at a time: it is enough to look at that one.        *)
LEMMA OthersKeep ==
    ASSUME TypeOK, LandedInv, NEW h \in Hooks, UNCHANGED command,
           \A g \in Hooks \ {h} : /\ pc'[g] = pc[g] /\ plan'[g] = plan[g] /\ at'[g] = at[g]
                                  /\ landed'[g] = landed[g] /\ verdict'[g] = verdict[g],
           SuccessInv(h)'
    PROVE  LandedInv'
<1> SUFFICES ASSUME NEW g \in Hooks \ {h} PROVE SuccessInv(g)'
  BY DEF LandedInv
<1>1. SuccessInv(g)
  BY DEF LandedInv
<1> QED  BY <1>1 DEF SuccessInv, LandedBelow, AllLanded, Directed, DryRun

(* A step that neither sends nor arrives where sending begins or ends.     *)
Aside(h) ==
    \/ \E how \in {"failed", "traceback"} : Ends(h, how)
    \/ \E where \in Pc \ {"send", "confirm", "done"} : Goto(h, where)

(* Such a step disturbs nothing.                                           *)
LEMMA AsideKeeps ==
    ASSUME TypeOK, LandedInv, NEW h \in Hooks, pc[h] # "done",
           UNCHANGED << command, plan, at, landed >>,
           Aside(h)
    PROVE  LandedInv'
<1>1. SuccessInv(h)
  BY DEF LandedInv
<1>2. CASE \E how \in {"failed", "traceback"} : Ends(h, how)
  <2>1. /\ pc'[h] = "done" /\ verdict'[h] # "ok"
        /\ \A g \in Hooks \ {h} : pc'[g] = pc[g] /\ verdict'[g] = verdict[g]
    BY <1>2 DEF Ends, TypeOK
  <2>2. SuccessInv(h)'
    BY <1>1, <2>1 DEF SuccessInv, Directed
  <2> QED  BY <2>1, <2>2, OthersKeep
<1>3. CASE \E where \in Pc \ {"send", "confirm", "done"} : Goto(h, where)
  <2>1. /\ pc'[h] \notin {"send", "confirm", "done"} /\ verdict'[h] = "running"
        /\ \A g \in Hooks \ {h} : pc'[g] = pc[g] /\ verdict'[g] = verdict[g]
    BY <1>1, <1>3 DEF Goto, TypeOK, SuccessInv
  <2>2. SuccessInv(h)'
    BY <1>1, <2>1 DEF SuccessInv, Directed
  <2> QED  BY <2>1, <2>2, OthersKeep
<1> QED  BY <1>2, <1>3 DEF Aside

(* Opening, claiming, repairing and recovering stay aside.                 *)
LEMMA ClaimingAside ==
    ASSUME NEW h \in Hooks,
           \/ Open(h) \/ Info(h) \/ Clear(h) \/ Set(h) \/ Reclear(h) \/ Await(h)
           \/ Tunnel(h) \/ ReadPhys(h) \/ Begin(h) \/ Recover(h)
    PROVE  Aside(h) /\ pc[h] # "done" /\ UNCHANGED << command, plan, at, landed >>
<1> USE DEF Pc, Claiming, Talking, Asking
<1>1. ClaimFails(h) => Aside(h)
  BY DEF ClaimFails, Aside
<1>2. UNCHANGED << command, plan, at, landed >> /\ pc[h] # "done"
  BY DEF Open, Info, Clear, Set, Reclear, Await, Tunnel, ReadPhys, Begin, Recover, settings
<1>3. CASE Open(h) \/ Info(h)
  BY <1>1, <1>2, <1>3 DEF Open, Info, Aside
<1>4. CASE Clear(h) \/ Recover(h)
  BY <1>1, <1>2, <1>4 DEF Clear, Recover, ClearLogAddrs, Aside
<1>5. CASE Set(h) \/ Reclear(h)
  <2>1. SetLogAddrs(h) => Aside(h)
    BY <1>1 DEF SetLogAddrs, Aside
  <2> QED  BY <1>2, <1>5, <2>1 DEF Set, Reclear, Aside
<1>6. CASE Await(h) \/ Tunnel(h)
  BY <1>1, <1>2, <1>6 DEF Await, Tunnel, Aside
<1>7. CASE ReadPhys(h) \/ Begin(h)
  BY <1>1, <1>2, <1>7 DEF ReadPhys, Ready, Begin, Aside
<1> QED  BY <1>2, <1>3, <1>4, <1>5, <1>6, <1>7

(* So does asking.                                                         *)
LEMMA AskingAside ==
    ASSUME NEW h \in Hooks,
           \/ PollTv(h) \/ PollAudio(h) \/ AskPower(h) \/ AskSource(h) \/ AskAudio(h)
    PROVE  Aside(h) /\ pc[h] # "done" /\ UNCHANGED << command, plan, at, landed >>
<1>1. UNCHANGED << command, plan, at, landed >> /\ pc[h] # "done"
  BY DEF PollTv, PollAudio, AskPower, AskSource, AskAudio, settings
<1>2. Aside(h)
  BY DEF PollTv, PollAudio, AskPower, AskSource, AskAudio, Breaks, AfterPolls, Aside,
         Pc, Talking, Asking
<1> QED  BY <1>1, <1>2

(* Planning owes what it plans, and succeeds at once only with nothing to  *)
(* send or in a dry run.                                                   *)
LEMMA PlanningKeeps ==
    ASSUME TypeOK, LandedInv, NEW h \in Hooks, MakePlan(h)
    PROVE  LandedInv'
<1> DEFINE frames == IF On(h) THEN PlanWake(config, bus[h]) ELSE PlanStandby(config, bus[h])
<1>1. frames \in Plans
  <2>1. config \in Config /\ bus[h] \in BusState
    BY DEF TypeOK
  <2> QED  BY <2>1, PlanWakePlans, PlanStandbyPlans
<1>2. \/ Ends(h, "traceback") /\ UNCHANGED << plan, at, landed >>
      \/ /\ plan' = [plan EXCEPT ![h] = frames]
         /\ at' = [at EXCEPT ![h] = 1]
         /\ landed' = [landed EXCEPT ![h] = {}]
         /\ IF frames = << >> \/ DryRun(h) THEN Ends(h, "ok") ELSE Goto(h, "send")
  BY DEF MakePlan
<1>3. UNCHANGED command /\ pc[h] = "plan"
  BY DEF MakePlan, settings
<1> HIDE DEF frames
<1>4. CASE Ends(h, "traceback") /\ UNCHANGED << plan, at, landed >>
  BY <1>3, <1>4, AsideKeeps DEF Aside
<1>5. CASE /\ plan' = [plan EXCEPT ![h] = frames]
           /\ at' = [at EXCEPT ![h] = 1]
           /\ landed' = [landed EXCEPT ![h] = {}]
           /\ IF frames = << >> \/ DryRun(h) THEN Ends(h, "ok") ELSE Goto(h, "send")
  <2>1. plan'[h] = frames /\ at'[h] = 1 /\ DOMAIN frames \subseteq Nat \ {0}
        /\ Directed(frames)
    BY <1>1, <1>5 DEF TypeOK, Plans
  <2>2. \A g \in Hooks \ {h} :
           /\ pc'[g] = pc[g] /\ plan'[g] = plan[g] /\ at'[g] = at[g]
           /\ landed'[g] = landed[g] /\ verdict'[g] = verdict[g]
    BY <1>5 DEF Ends, Goto, TypeOK
  <2>3. verdict[h] = "running"
    BY <1>3 DEF LandedInv, SuccessInv
  <2>4. CASE (frames = << >> \/ DryRun(h)) /\ Ends(h, "ok")
    <3>1. pc'[h] = "done"
      BY <2>4 DEF Ends, TypeOK
    <3>2. DryRun(h)' = DryRun(h)
      BY <1>3 DEF DryRun
    <3>3. frames = << >> => AllLanded(h)'
      BY <2>1 DEF AllLanded
    <3>4. SuccessInv(h)'
      BY <2>1, <2>4, <3>1, <3>2, <3>3 DEF SuccessInv
    <3> QED  BY <1>3, <2>2, <3>4, OthersKeep
  <2>5. CASE Goto(h, "send")
    <3>1. pc'[h] = "send" /\ verdict'[h] = "running"
      BY <2>3, <2>5 DEF Goto, TypeOK
    <3>2. LandedBelow(h, at[h])'
      BY <2>1 DEF LandedBelow
    <3>3. SuccessInv(h)'
      BY <2>1, <3>1, <3>2 DEF SuccessInv
    <3> QED  BY <1>3, <2>2, <3>3, OthersKeep
  <2> QED  BY <1>5, <2>4, <2>5
<1> QED  BY <1>2, <1>4, <1>5

(* One frame more: the loop goes on past a frame that was acknowledged or  *)
(* was not required, and is done only after the last one.                  *)
LEMMA SendingKeeps ==
    ASSUME TypeOK, LandedInv, NEW h \in Hooks, Send(h)
    PROVE  LandedInv'
<1> DEFINE frame == plan[h][at[h]]
<1>1. /\ pc[h] = "send" /\ at[h] \in 1 .. Len(plan[h]) /\ plan[h] \in Seq(Frame)
      /\ Len(plan[h]) \in Nat /\ DOMAIN plan[h] = 1 .. Len(plan[h])
  BY DEF Send, TypeOK, IndexInPlan
<1>2. /\ Directed(plan[h]) /\ LandedBelow(h, at[h]) /\ verdict[h] = "running"
  BY <1>1 DEF LandedInv, SuccessInv
<1>3. UNCHANGED << command, plan >>
  BY DEF Send, settings
<1>4. PICK outcome :
        /\ landed' = [landed EXCEPT ![h] = IF outcome = "ok" THEN @ \cup {at[h]} ELSE @]
        /\ at' = [at EXCEPT ![h] = @ + 1]
        /\ \/ Ends(h, "failed")
           \/ /\ outcome = "ok" \/ Shrug(frame, outcome)
              /\ IF at[h] = Len(plan[h]) THEN SendReturns(h, TRUE) ELSE Goto(h, "send")
           \/ SendReturns(h, FALSE)
  BY Zenon DEF Send
<1> HIDE DEF frame
<1>5. \A g \in Hooks \ {h} :
         /\ pc'[g] = pc[g] /\ plan'[g] = plan[g] /\ at'[g] = at[g]
         /\ landed'[g] = landed[g] /\ verdict'[g] = verdict[g]
  <2>1. /\ \E where : pc' = [pc EXCEPT ![h] = where]
        /\ \E how : verdict' = [verdict EXCEPT ![h] = how] \/ UNCHANGED verdict
    BY <1>4 DEF SendReturns, Ends, Goto
  <2> QED  BY <1>3, <1>4, <2>1 DEF TypeOK
<1>6. Directed(plan[h])'
  BY <1>2, <1>3 DEF Directed
<1>7. CASE Ends(h, "failed") \/ SendReturns(h, FALSE)
  <2>1. Ends(h, "failed") \/ Goto(h, "recover")
    BY <1>7 DEF SendReturns
  <2>2. \/ pc'[h] = "done" /\ verdict'[h] = "failed"
        \/ pc'[h] = "recover" /\ verdict'[h] = "running"
    BY <1>2, <2>1 DEF Ends, Goto, TypeOK
  <2>3. SuccessInv(h)'
    BY <1>6, <2>2 DEF SuccessInv
  <2> QED  BY <1>3, <1>5, <2>3, OthersKeep
<1>8. CASE outcome = "ok" \/ Shrug(frame, outcome)
  <2>1. frame.required => outcome = "ok"
    BY <1>1, <1>2, <1>8 DEF frame, Shrug, Directed
  <2>2. landed[h] \subseteq landed'[h] /\ (frame.required => at[h] \in landed'[h])
    BY <1>4, <2>1 DEF TypeOK
  <2>3. \A i \in DOMAIN plan[h] : plan[h][i].required /\ i <= at[h] => i \in landed'[h]
    BY <1>1, <1>2, <2>2 DEF frame, LandedBelow
  <2>4. CASE at[h] = Len(plan[h]) /\ SendReturns(h, TRUE)
    <3>1. AllLanded(h)'
      BY <1>1, <1>3, <2>3, <2>4 DEF AllLanded
    <3>2. \/ pc'[h] = "confirm" /\ verdict'[h] = "running"
          \/ pc'[h] = "done" /\ verdict'[h] = "ok"
      BY <1>2, <2>4 DEF SendReturns, Ends, Goto, TypeOK
    <3>3. SuccessInv(h)'
      BY <1>6, <3>1, <3>2 DEF SuccessInv
    <3> QED  BY <1>3, <1>5, <3>3, OthersKeep
  <2>5. CASE Goto(h, "send")
    <3>1. pc'[h] = "send" /\ verdict'[h] = "running" /\ at'[h] = at[h] + 1
      BY <1>2, <1>4, <2>5 DEF Goto, TypeOK
    <3>2. LandedBelow(h, at[h])'
      BY <1>1, <1>3, <2>3, <3>1 DEF LandedBelow
    <3>3. SuccessInv(h)'
      BY <1>6, <3>1, <3>2 DEF SuccessInv
    <3> QED  BY <1>3, <1>5, <3>3, OthersKeep
  <2>6. CASE Ends(h, "failed") \/ SendReturns(h, FALSE)
    BY <1>7, <2>6
  <2> QED  BY <1>4, <2>4, <2>5, <2>6
<1> QED  BY <1>4, <1>7, <1>8

(* Whatever the TV says of its power, what was sent has landed.            *)
LEMMA ConfirmKeeps ==
    ASSUME TypeOK, LandedInv, NEW h \in Hooks, Confirm(h)
    PROVE  LandedInv'
<1>1. SuccessInv(h) /\ pc[h] = "confirm" /\ UNCHANGED << command, plan, at, landed >>
  BY DEF LandedInv, Confirm, settings
<1>2. \E how : Ends(h, how)
  BY DEF Confirm
<1>3. /\ pc'[h] = "done"
      /\ \A g \in Hooks \ {h} : pc'[g] = pc[g] /\ verdict'[g] = verdict[g]
  BY <1>2 DEF Ends, TypeOK
<1>4. SuccessInv(h)'
  BY <1>1, <1>3 DEF SuccessInv, AllLanded, Directed
<1> QED  BY <1>1, <1>3, <1>4, OthersKeep

(* A hook starts with an empty plan, which owes nothing.                   *)
LEMMA LandedInit == Init => LandedInv
BY DEF Init, LandedInv, SuccessInv, Directed

(* Every step keeps LandedInv.                                             *)
LEMMA LandedStep ==
    ASSUME TypeOK, LandedInv, [Next]_vars
    PROVE  LandedInv'
<1>1. ASSUME NEW h \in Hooks, Hook(h) PROVE LandedInv'
  <2>1. CASE \/ Open(h) \/ Info(h) \/ Clear(h) \/ Set(h) \/ Reclear(h) \/ Await(h)
             \/ Tunnel(h) \/ ReadPhys(h) \/ Begin(h) \/ Recover(h)
    BY <2>1, ClaimingAside, AsideKeeps
  <2>2. CASE \/ PollTv(h) \/ PollAudio(h) \/ AskPower(h) \/ AskSource(h) \/ AskAudio(h)
    BY <2>2, AskingAside, AsideKeeps
  <2>3. CASE MakePlan(h) \/ Send(h) \/ Confirm(h)
    BY <2>3, PlanningKeeps, SendingKeeps, ConfirmKeeps
  <2> QED  BY <1>1, <2>1, <2>2, <2>3 DEF Hook
<1>2. CASE Environment \/ UNCHANGED vars
  <2>1. UNCHANGED << command, pc, plan, at, landed, verdict >>
    BY <1>2 DEF Environment, TvSettles, KernelClaims, AdapterResets, AdapterGone,
                vars, settings, self
  <2> QED  BY <2>1 DEF LandedInv, SuccessInv, LandedBelow, AllLanded, Directed, DryRun
<1> QED  BY <1>1, <1>2 DEF Next, AllDone

(* Whatever is lost, refused, reset or unplugged, a process that exits 0   *)
(* outside a dry run has had every required frame of its plan acknowledged *)
(* in the attempt it ended with.                                           *)
THEOREM RequiredLandedCorrect == Spec => []RequiredLanded
<1>1. LandedInv => RequiredLanded
  BY DEF LandedInv, SuccessInv, AllLanded, RequiredLanded
<1>2. Init => TypeOK /\ LandedInv
  BY InitType, LandedInit
<1>3. TypeOK /\ LandedInv /\ [Next]_vars => (TypeOK /\ LandedInv)'
  BY TypeStep, LandedStep
<1> QED  BY <1>1, <1>2, <1>3, PTL DEF Spec

-----------------------------------------------------------------------------
(***************************************************************************)
(* KeepsContract, with the same invariant and what follows of a run's      *)
(* attempts.                                                               *)
(***************************************************************************)

Limit(h) == IF On(h) THEN config.wake_attempts ELSE 1

(* Only a process that claims or has ended has yet to make an attempt; it  *)
(* makes no more than it may; and what has landed in the send loop is      *)
(* behind the frame to be sent next.                                       *)
RunInv(h) ==
    /\ attempt[h] = 0 => pc[h] \in Claiming \cup {"open", "done"}
    /\ pc[h] = "open" => attempt[h] = 0
    /\ attempt[h] <= Limit(h)
    /\ pc[h] = "send" => ~DryRun(h) /\ \A i \in landed[h] : i < at[h]

Away == Claiming \cup {"open", "recover"}
Here == Asking \cup {"begin", "plan"}

(* The contract's phases, by where the process is.                         *)
LEMMA Phases ==
    ASSUME NEW h \in Hooks
    PROVE  /\ pc[h] = "done" => Phase(h) = "done"
           /\ pc[h] \in {"send", "confirm"} => Phase(h) = "telling"
           /\ pc[h] \in Here => Phase(h) = "asking"
           /\ pc[h] \in Away => Phase(h) = IF attempt[h] = 0 THEN "opening" ELSE "repairing"
<1>1. /\ pc[h] = "done" => pc[h] \notin {"send", "confirm"} /\ pc[h] \notin Here
      /\ pc[h] \in {"send", "confirm"} => pc[h] # "done" /\ pc[h] \notin Here
  BY DEF Here, Asking
<1>2. /\ pc[h] \in Here => pc[h] # "done" /\ pc[h] \notin {"send", "confirm"} /\ pc[h] \notin Away
      /\ pc[h] \in Away => pc[h] # "done" /\ pc[h] \notin {"send", "confirm"} /\ pc[h] \notin Here
  BY DEF Away, Here, Claiming, Asking
<1>3. (pc[h] = "done" => pc[h] \notin Away) /\ (pc[h] \in {"send", "confirm"} => pc[h] \notin Away)
  BY DEF Away, Claiming
<1>4. CASE pc[h] = "done"
  BY <1>1, <1>2, <1>3, <1>4, Zenon DEF Phase, Here
<1>5. CASE pc[h] \in {"send", "confirm"}
  BY <1>1, <1>2, <1>3, <1>5, Zenon DEF Phase, Here
<1>6. CASE pc[h] \in Here
  BY <1>1, <1>2, <1>3, <1>6, Zenon DEF Phase, Here
<1>7. CASE pc[h] \in Away
  BY <1>1, <1>2, <1>3, <1>7, Zenon DEF Phase, Here
<1> QED  BY <1>4, <1>5, <1>6, <1>7

(* And where it is next.                                                   *)
LEMMA PhasesNext ==
    ASSUME NEW h \in Hooks
    PROVE  /\ pc'[h] = "done" => Phase(h)' = "done"
           /\ pc'[h] \in {"send", "confirm"} => Phase(h)' = "telling"
           /\ pc'[h] \in Here => Phase(h)' = "asking"
           /\ pc'[h] \in Away => Phase(h)' = IF attempt'[h] = 0 THEN "opening" ELSE "repairing"
<1>1. /\ pc'[h] = "done" => pc'[h] \notin {"send", "confirm"} /\ pc'[h] \notin Here
      /\ pc'[h] \in {"send", "confirm"} => pc'[h] # "done" /\ pc'[h] \notin Here
  BY DEF Here, Asking
<1>2. /\ pc'[h] \in Here => pc'[h] # "done" /\ pc'[h] \notin {"send", "confirm"} /\ pc'[h] \notin Away
      /\ pc'[h] \in Away => pc'[h] # "done" /\ pc'[h] \notin {"send", "confirm"} /\ pc'[h] \notin Here
  BY DEF Away, Here, Claiming, Asking
<1>3. (pc'[h] = "done" => pc'[h] \notin Away) /\ (pc'[h] \in {"send", "confirm"} => pc'[h] \notin Away)
  BY DEF Away, Claiming
<1>4. CASE pc'[h] = "done"
  BY <1>1, <1>2, <1>3, <1>4, Zenon DEF Phase, Here
<1>5. CASE pc'[h] \in {"send", "confirm"}
  BY <1>1, <1>2, <1>3, <1>5, Zenon DEF Phase, Here
<1>6. CASE pc'[h] \in Here
  BY <1>1, <1>2, <1>3, <1>6, Zenon DEF Phase, Here
<1>7. CASE pc'[h] \in Away
  BY <1>1, <1>2, <1>3, <1>7, Zenon DEF Phase, Here
<1> QED  BY <1>4, <1>5, <1>6, <1>7

(* Outside the sending and before a success nothing is owed; a success     *)
(* that has everything landed owes nothing either.                         *)
LEMMA Owing ==
    ASSUME NEW h \in Hooks
    PROVE  /\ Phase(h) # "telling" /\ verdict[h] # "ok" => Owed(h) = {}
           /\ Phase(h)' # "telling" /\ verdict'[h] # "ok" => Owed(h)' = {}
           /\ AllLanded(h)' \/ DryRun(h)' => Owed(h)' = {}
BY DEF Owed, AllLanded

(* What the contract says of a step, one hook at a time.                   *)
ContractStep(h) == [Contract(h)!Next]_(Contract(h)!vars)

(* A step the contract does not see.                                       *)
LEMMA Unseen ==
    ASSUME NEW h \in Hooks, UNCHANGED << config, command >>,
           Phase(h)' = Phase(h), Owed(h)' = Owed(h),
           attempt'[h] = attempt[h], verdict'[h] = verdict[h]
    PROVE  ContractStep(h)
<1>1. On(h)' = On(h)
  BY DEF On
<1> QED  BY <1>1, Zenon DEF ContractStep, Contract!vars

(* A step by which the process leaves with an error.                       *)
LEMMA Leaves ==
    ASSUME TypeOK, NEW h \in Hooks, UNCHANGED << config, command >>, pc[h] # "done",
           NEW how \in {"failed", "traceback"}, Ends(h, how), attempt'[h] = attempt[h]
    PROVE  ContractStep(h)
<1>1. pc'[h] = "done" /\ verdict'[h] = how
  BY DEF Ends, TypeOK
<1>2. pc[h] \in Away \cup Here \cup {"send", "confirm"}
  BY DEF TypeOK, Pc, Talking, Away, Here
<1>3. Phase(h) # "done" /\ Phase(h)' = "done"
  BY <1>1, <1>2, Phases, PhasesNext
<1>4. Owed(h)' = {}
  BY <1>1, <1>3, Owing
<1>5. Limit(h)' = Limit(h)
  BY DEF Limit, On
<1>6. Contract(h)!Break
  BY <1>1, <1>3, <1>4, <1>5, Zenon DEF Contract!Break, Limit
<1> QED  BY <1>6, Zenon DEF ContractStep, Contract!Next

(* A step between the calls of a run that is not telling.                  *)
LEMMA Proceeds ==
    ASSUME TypeOK, LandedInv, NEW h \in Hooks, UNCHANGED << config, command >>,
           NEW where \in Away \cup Here, Goto(h, where),
           \/ /\ pc[h] \in Away /\ where \in Away
              /\ attempt'[h] = attempt[h]
           \/ /\ pc[h] \in Here /\ where \in Here
              /\ attempt'[h] = attempt[h]
           \/ /\ pc[h] \in Away /\ where \in Here
              /\ attempt'[h] = IF attempt[h] = 0 THEN 1 ELSE attempt[h]
    PROVE  ContractStep(h)
<1>1. pc'[h] = where /\ verdict'[h] = verdict[h]
  BY DEF Goto, TypeOK
<1>2. verdict[h] = "running"
  BY DEF LandedInv, SuccessInv, Away, Here, Claiming, Asking
<1>3. Phase(h) # "telling" /\ Phase(h)' # "telling"
  BY <1>1, Phases, PhasesNext
<1>4. Owed(h) = {} /\ Owed(h)' = {}
  BY <1>1, <1>2, <1>3, Owing
<1>5. Limit(h)' = Limit(h)
  BY DEF Limit, On
<1>6. CASE \/ pc[h] \in Away /\ where \in Away /\ attempt'[h] = attempt[h]
           \/ pc[h] \in Here /\ where \in Here /\ attempt'[h] = attempt[h]
  <2>1. Phase(h)' = Phase(h)
    BY <1>1, <1>6, Phases, PhasesNext
  <2> QED  BY <1>1, <1>4, <1>6, <2>1, Unseen
<1>7. CASE /\ pc[h] \in Away /\ where \in Here
           /\ attempt'[h] = IF attempt[h] = 0 THEN 1 ELSE attempt[h]
  <2>1. Phase(h)' = "asking" /\ Phase(h) = IF attempt[h] = 0 THEN "opening" ELSE "repairing"
    BY <1>1, <1>7, Phases, PhasesNext
  <2>2. CASE attempt[h] = 0
    <3>1. Phase(h) = "opening" /\ attempt'[h] = 1
      BY <1>7, <2>1, <2>2
    <3>2. Contract(h)!Open
      BY <1>1, <1>4, <1>5, <2>1, <3>1, Zenon DEF Contract!Open, Limit
    <3> QED  BY <3>2, Zenon DEF ContractStep, Contract!Next
  <2>3. CASE attempt[h] # 0
    <3>1. Phase(h) = "repairing" /\ attempt'[h] = attempt[h]
      BY <1>7, <2>1, <2>3
    <3>2. Contract(h)!Repair
      BY <1>1, <1>4, <1>5, <2>1, <3>1, Zenon DEF Contract!Repair, Limit
    <3> QED  BY <3>2, Zenon DEF ContractStep, Contract!Next
  <2> QED  BY <2>2, <2>3
<1> QED  BY <1>6, <1>7

(* Where the calls that open, claim and recover may lead.                  *)
AwayMove(h) ==
    \/ /\ \E how \in {"failed", "traceback"} : Ends(h, how)
       /\ UNCHANGED attempt
    \/ /\ \E where \in Claiming : Goto(h, where)
       /\ UNCHANGED attempt
    \/ /\ \E where \in {"begin", "pollTv"} : Goto(h, where)
       /\ attempt' = [attempt EXCEPT ![h] = IF @ = 0 THEN 1 ELSE @]

(* A claim that fails ends the process, or leads to the next attempt.      *)
LEMMA ClaimFailsMove ==
    ASSUME TypeOK, NEW h \in Hooks, ClaimFails(h), UNCHANGED attempt
    PROVE  AwayMove(h)
<1>1. CASE attempt[h] = 0
  BY <1>1 DEF ClaimFails, AwayMove
<1>2. CASE attempt[h] # 0
  <2>1. attempt' = [attempt EXCEPT ![h] = IF @ = 0 THEN 1 ELSE @]
    BY <1>2 DEF TypeOK
  <2> QED  BY <1>2, <2>1 DEF ClaimFails, AwayMove
<1> QED  BY <1>1, <1>2

(* They lead on to a claim, to an attempt, or out.                         *)
LEMMA AwayMoves ==
    ASSUME TypeOK, NEW h \in Hooks,
           \/ Open(h) \/ Info(h) \/ Clear(h) \/ Set(h) \/ Reclear(h) \/ Await(h)
           \/ Tunnel(h) \/ ReadPhys(h) \/ Recover(h)
    PROVE  pc[h] \in Away /\ AwayMove(h)
<1>1. pc[h] \in Away
  BY DEF Open, Info, Clear, Set, Reclear, Await, Tunnel, ReadPhys, Recover, Away, Claiming
<1>2. CASE Open(h) \/ Tunnel(h) \/ Reclear(h)
  BY <1>1, <1>2 DEF Open, Tunnel, Reclear, AwayMove, Claiming
<1>3. CASE Info(h)
  <2>1. ClaimFails(h) \/ \E where \in Claiming : Goto(h, where)
    BY <1>3 DEF Info, Claiming
  <2>2. UNCHANGED attempt
    BY <1>3 DEF Info
  <2> QED  BY <1>1, <2>1, <2>2, ClaimFailsMove DEF AwayMove
<1>4. CASE Clear(h) \/ Recover(h)
  <2>1. ClaimFails(h) \/ \E where \in Claiming : Goto(h, where)
    BY <1>4 DEF Clear, Recover, ClearLogAddrs, Claiming
  <2>2. UNCHANGED attempt
    BY <1>4 DEF Clear, Recover
  <2> QED  BY <1>1, <2>1, <2>2, ClaimFailsMove DEF AwayMove
<1>5. CASE Set(h)
  <2>1. SetLogAddrs(h) => ClaimFails(h) \/ \E where \in Claiming : Goto(h, where)
    BY DEF SetLogAddrs, Claiming
  <2>2. UNCHANGED attempt /\ (SetLogAddrs(h) \/ Ends(h, "traceback"))
    BY <1>5 DEF Set
  <2> QED  BY <1>1, <2>1, <2>2, ClaimFailsMove DEF AwayMove
<1>6. CASE Await(h)
  <2>1. ClaimFails(h) \/ \E where \in Claiming : Goto(h, where)
    BY <1>6 DEF Await, Claiming
  <2>2. UNCHANGED attempt
    BY <1>6 DEF Await
  <2> QED  BY <1>1, <2>1, <2>2, ClaimFailsMove DEF AwayMove
<1>7. CASE ReadPhys(h)
  BY <1>1, <1>7, ClaimFailsMove DEF ReadPhys, Ready, AwayMove
<1> QED  BY <1>1, <1>2, <1>3, <1>4, <1>5, <1>6, <1>7

(* Asking leads on to asking, to planning, or out.                         *)
LEMMA HereMoves ==
    ASSUME NEW h \in Hooks,
           \/ Begin(h) \/ PollTv(h) \/ PollAudio(h) \/ AskPower(h) \/ AskSource(h)
           \/ AskAudio(h)
    PROVE  /\ pc[h] \in Here /\ UNCHANGED attempt
           /\ \/ \E how \in {"failed", "traceback"} : Ends(h, how)
              \/ \E where \in Here : Goto(h, where)
<1>1. pc[h] \in Here /\ UNCHANGED attempt
  BY DEF Begin, PollTv, PollAudio, AskPower, AskSource, AskAudio, Here, Asking
<1>2. \/ \E how \in {"failed", "traceback"} : Ends(h, how)
      \/ \E where \in Here : Goto(h, where)
  BY DEF Begin, PollTv, PollAudio, AskPower, AskSource, AskAudio, Breaks, AfterPolls, Here, Asking
<1> QED  BY <1>1, <1>2

-----------------------------------------------------------------------------
(* A process that claims, asks or ends early keeps what is known of its    *)
(* attempts.                                                               *)
LEMMA MovesRun ==
    ASSUME TypeOK, NEW h \in Hooks, RunInv(h), UNCHANGED << config, command >>,
           \/ pc[h] \in Away /\ AwayMove(h)
           \/ /\ pc[h] \in Here /\ UNCHANGED attempt
              /\ \/ \E how \in {"failed", "traceback"} : Ends(h, how)
                 \/ \E where \in Here : Goto(h, where)
    PROVE  RunInv(h)'
<1>1. Limit(h)' = Limit(h) /\ Limit(h) \in Nat \ {0}
  <2>1. config \in Config
    BY DEF TypeOK
  <2>2. config.wake_attempts \in Nat \ {0}
    BY <2>1 DEF Config
  <2>3. Limit(h)' = Limit(h)
    BY DEF Limit, On
  <2> QED  BY <2>2, <2>3 DEF Limit
<1>2. attempt[h] \in Nat
  BY DEF TypeOK
<1>3. CASE (\E how \in {"failed", "traceback"} : Ends(h, how)) /\ UNCHANGED attempt
  <2>1. pc'[h] = "done"
    BY <1>3 DEF Ends, TypeOK
  <2> QED  BY <1>1, <1>3, <2>1 DEF RunInv
<1>4. CASE (\E where \in Claiming : Goto(h, where)) /\ UNCHANGED attempt
  <2>1. pc'[h] \in Claiming
    BY <1>4 DEF Goto, TypeOK
  <2> QED  BY <1>1, <1>4, <2>1 DEF RunInv, Claiming
<1>5. CASE /\ pc[h] \in Here /\ UNCHANGED attempt
           /\ \E where \in Here : Goto(h, where)
  <2>1. pc'[h] \in Here
    BY <1>5 DEF Goto, TypeOK
  <2>2. attempt[h] # 0
    BY <1>5 DEF RunInv, Here, Asking, Claiming
  <2>3. pc'[h] \notin {"open", "send"}
    BY <2>1 DEF Here, Asking
  <2> QED  BY <1>1, <1>5, <2>2, <2>3 DEF RunInv
<1>6. CASE /\ \E where \in {"begin", "pollTv"} : Goto(h, where)
           /\ attempt' = [attempt EXCEPT ![h] = IF @ = 0 THEN 1 ELSE @]
  <2>1. pc'[h] \in {"begin", "pollTv"}
    BY <1>6 DEF Goto, TypeOK
  <2>2. attempt'[h] = IF attempt[h] = 0 THEN 1 ELSE attempt[h]
    BY <1>6 DEF TypeOK
  <2> QED  BY <1>1, <1>2, <2>1, <2>2 DEF RunInv
<1> QED  BY <1>3, <1>4, <1>5, <1>6 DEF AwayMove

(* And keeps the contract.                                                 *)
LEMMA MovesKeep ==
    ASSUME TypeOK, LandedInv, NEW h \in Hooks, UNCHANGED << config, command >>,
           \/ pc[h] \in Away /\ AwayMove(h)
           \/ /\ pc[h] \in Here /\ UNCHANGED attempt
              /\ \/ \E how \in {"failed", "traceback"} : Ends(h, how)
                 \/ \E where \in Here : Goto(h, where)
    PROVE  ContractStep(h)
<1>1. pc[h] # "done"
  BY DEF Away, Here, Claiming, Asking
<1>2. CASE (\E how \in {"failed", "traceback"} : Ends(h, how)) /\ UNCHANGED attempt
  BY <1>1, <1>2, Leaves
<1>3. CASE /\ pc[h] \in Away /\ UNCHANGED attempt
           /\ \E where \in Claiming : Goto(h, where)
  BY <1>3, Proceeds DEF Away
<1>4. CASE /\ pc[h] \in Here /\ UNCHANGED attempt
           /\ \E where \in Here : Goto(h, where)
  BY <1>4, Proceeds
<1>5. CASE /\ pc[h] \in Away
           /\ \E where \in {"begin", "pollTv"} : Goto(h, where)
           /\ attempt' = [attempt EXCEPT ![h] = IF @ = 0 THEN 1 ELSE @]
  <2>1. attempt'[h] = IF attempt[h] = 0 THEN 1 ELSE attempt[h]
    BY <1>5 DEF TypeOK
  <2>2. {"begin", "pollTv"} \subseteq Here
    BY DEF Here, Asking
  <2> QED  BY <1>5, <2>1, <2>2, Proceeds
<1> QED  BY <1>2, <1>3, <1>4, <1>5 DEF AwayMove

-----------------------------------------------------------------------------
(* Planning decides what is owed, or stops when nothing is.                *)
LEMMA PlanningContract ==
    ASSUME TypeOK, LandedInv, NEW h \in Hooks, RunInv(h), MakePlan(h)
    PROVE  ContractStep(h) /\ RunInv(h)'
<1> DEFINE frames == IF On(h) THEN PlanWake(config, bus[h]) ELSE PlanStandby(config, bus[h])
<1>1. frames \in Plans
  <2>1. config \in Config /\ bus[h] \in BusState
    BY DEF TypeOK
  <2> QED  BY <2>1, PlanWakePlans, PlanStandbyPlans
<1>2. \/ Ends(h, "traceback")
      \/ /\ plan' = [plan EXCEPT ![h] = frames]
         /\ landed' = [landed EXCEPT ![h] = {}]
         /\ \/ (frames = << >> \/ DryRun(h)) /\ Ends(h, "ok")
            \/ ~DryRun(h) /\ Goto(h, "send")
  BY DEF MakePlan
<1>3. UNCHANGED << config, command, attempt >> /\ pc[h] = "plan"
  BY DEF MakePlan, settings
<1> HIDE DEF frames
<1>4. /\ Limit(h)' = Limit(h) /\ DryRun(h)' = DryRun(h)
      /\ attempt[h] # 0 /\ attempt'[h] = attempt[h] /\ attempt[h] <= Limit(h)
  BY <1>3 DEF Limit, On, DryRun, RunInv, Claiming
<1>5. verdict[h] = "running" /\ Phase(h) = "asking"
  BY <1>3, Phases DEF LandedInv, SuccessInv, Here
<1>6. Owed(h) = {}
  BY <1>5, Owing
<1>7. CASE Ends(h, "traceback")
  <2>1. pc'[h] = "done"
    BY <1>7 DEF Ends, TypeOK
  <2>2. RunInv(h)'
    BY <1>4, <2>1 DEF RunInv
  <2> QED  BY <1>3, <1>4, <1>7, <2>2, Leaves
<1>8. CASE /\ plan' = [plan EXCEPT ![h] = frames]
           /\ (frames = << >> \/ DryRun(h)) /\ Ends(h, "ok")
  <2>1. pc'[h] = "done" /\ verdict'[h] = "ok" /\ plan'[h] = frames
    BY <1>8 DEF Ends, TypeOK
  <2>2. Phase(h)' = "done"
    BY <2>1, PhasesNext
  <2>3. AllLanded(h)' \/ DryRun(h)'
    BY <1>4, <1>8, <2>1 DEF AllLanded
  <2>4. Owed(h)' = {}
    BY <2>3, Owing
  <2>5. Contract(h)!Stop
    BY <1>4, <1>5, <1>6, <2>1, <2>2, <2>4, Zenon DEF Contract!Stop, Limit
  <2>6. RunInv(h)'
    BY <1>4, <2>1 DEF RunInv
  <2> QED  BY <2>5, <2>6, Zenon DEF ContractStep, Contract!Next
<1>9. CASE /\ plan' = [plan EXCEPT ![h] = frames]
           /\ landed' = [landed EXCEPT ![h] = {}]
           /\ ~DryRun(h) /\ Goto(h, "send")
  <2>1. pc'[h] = "send" /\ verdict'[h] = verdict[h] /\ plan'[h] = frames /\ landed'[h] = {}
    BY <1>9 DEF Goto, TypeOK
  <2>2. Phase(h)' = "telling"
    BY <2>1, PhasesNext
  <2>3. Owed(h)' \in SUBSET Nat
    BY <1>1, <2>1 DEF Owed, Plans
  <2>4. Contract(h)!Decide
    BY <1>4, <1>5, <2>1, <2>2, <2>3, Zenon DEF Contract!Decide, Limit
  <2>5. RunInv(h)'
    BY <1>4, <1>9, <2>1 DEF RunInv
  <2> QED  BY <2>4, <2>5, Zenon DEF ContractStep, Contract!Next
<1> QED  BY <1>2, <1>7, <1>8, <1>9

(* Whatever the TV says when asked to confirm, nothing is owed.            *)
LEMMA ConfirmContract ==
    ASSUME TypeOK, LandedInv, NEW h \in Hooks, RunInv(h), Confirm(h)
    PROVE  ContractStep(h) /\ RunInv(h)'
<1>1. UNCHANGED << config, command, attempt, plan, landed >> /\ pc[h] = "confirm"
  BY DEF Confirm, settings
<1>2. PICK how \in {"failed", "ok"} : Ends(h, how)
  BY DEF Confirm
<1>3. pc'[h] = "done" /\ verdict'[h] = how
  BY <1>2 DEF Ends, TypeOK
<1>4. Limit(h)' = Limit(h) /\ attempt[h] # 0 /\ attempt'[h] = attempt[h]
  BY <1>1 DEF Limit, On, RunInv, Claiming
<1>5. RunInv(h)'
  BY <1>3, <1>4 DEF RunInv
<1>6. CASE how = "failed"
  BY <1>1, <1>2, <1>4, <1>5, <1>6, Leaves
<1>7. CASE how = "ok"
  <2>1. AllLanded(h)'
    BY <1>1 DEF LandedInv, SuccessInv, AllLanded
  <2>2. Owed(h)' = {}
    BY <2>1, Owing
  <2>3. Phase(h) = "telling" /\ Phase(h)' = "done"
    BY <1>1, <1>3, Phases, PhasesNext
  <2>4. Contract(h)!Succeed
    BY <1>3, <1>4, <1>7, <2>2, <2>3, Zenon DEF Contract!Succeed, Limit
  <2> QED  BY <1>5, <2>4, Zenon DEF ContractStep, Contract!Next
<1> QED  BY <1>6, <1>7

(* What a turn of the send loop comes to.                                  *)
LEMMA SendTurns ==
    ASSUME TypeOK, NEW h \in Hooks, Send(h)
    PROVE  /\ UNCHANGED << config, command, plan >> /\ pc[h] = "send"
           /\ at'[h] = at[h] + 1
           /\ landed[h] \subseteq landed'[h] /\ landed'[h] \subseteq landed[h] \cup {at[h]}
           /\ \/ Ends(h, "failed") /\ UNCHANGED attempt
              \/ Ends(h, "ok") /\ UNCHANGED attempt
              \/ \E where \in {"send", "confirm"} : Goto(h, where) /\ UNCHANGED attempt
              \/ /\ Goto(h, "recover") /\ On(h) /\ attempt[h] < config.wake_attempts
                 /\ attempt' = [attempt EXCEPT ![h] = @ + 1]
                 /\ plan[h][at[h]].required
<1> DEFINE frame == plan[h][at[h]]
<1>1. UNCHANGED << config, command, plan >> /\ pc[h] = "send"
  BY DEF Send, settings
<1>2. PICK outcome :
        /\ landed' = [landed EXCEPT ![h] = IF outcome = "ok" THEN @ \cup {at[h]} ELSE @]
        /\ at' = [at EXCEPT ![h] = @ + 1]
        /\ \/ Ends(h, "failed") /\ UNCHANGED attempt
           \/ SendReturns(h, TRUE)
           \/ Goto(h, "send") /\ UNCHANGED attempt
           \/ ~Shrug(frame, outcome) /\ SendReturns(h, FALSE)
  BY Zenon DEF Send
<1>3. /\ at'[h] = at[h] + 1
      /\ landed[h] \subseteq landed'[h] /\ landed'[h] \subseteq landed[h] \cup {at[h]}
  BY <1>2 DEF TypeOK
<1>4. ~Shrug(frame, outcome) => frame.required
  BY Zenon DEF Shrug
<1> HIDE DEF frame
<1>5. SendReturns(h, TRUE) =>
         /\ UNCHANGED attempt
         /\ Ends(h, "ok") \/ Goto(h, "confirm")
  BY DEF SendReturns
<1>6. SendReturns(h, FALSE) =>
         \/ Ends(h, "failed") /\ UNCHANGED attempt
         \/ /\ Goto(h, "recover") /\ On(h) /\ attempt[h] < config.wake_attempts
            /\ attempt' = [attempt EXCEPT ![h] = @ + 1]
  BY DEF SendReturns
<1> QED  BY <1>1, <1>2, <1>3, <1>4, <1>5, <1>6, Zenon DEF frame

(* Sending owes less and less, and is tried again only when something is   *)
(* owed still and an attempt is left.                                      *)
LEMMA SendingContract ==
    ASSUME TypeOK, LandedInv, NEW h \in Hooks, RunInv(h), Send(h)
    PROVE  ContractStep(h) /\ RunInv(h)'
<1>1. /\ UNCHANGED << config, command, plan >> /\ pc[h] = "send" /\ at'[h] = at[h] + 1
      /\ landed[h] \subseteq landed'[h] /\ landed'[h] \subseteq landed[h] \cup {at[h]}
  BY SendTurns
<1>2. /\ Limit(h)' = Limit(h) /\ DryRun(h)' = DryRun(h) /\ ~DryRun(h)
      /\ attempt[h] # 0 /\ attempt[h] <= Limit(h)
      /\ \A i \in landed[h] : i < at[h]
  BY <1>1 DEF Limit, On, DryRun, RunInv, Claiming
<1>3. verdict[h] = "running" /\ Phase(h) = "telling"
  BY <1>1, Phases DEF LandedInv, SuccessInv
<1>4. at[h] \in Nat /\ landed[h] \subseteq Nat /\ attempt[h] \in Nat
  BY DEF TypeOK
<1>5. LandedInv'
  BY SendingKeeps
<1>6. Owed(h) = {i \in DOMAIN plan[h] : plan[h][i].required} \ landed[h]
  BY <1>2, <1>3, Zenon DEF Owed
<1>7. CASE Ends(h, "failed") /\ UNCHANGED attempt
  <2>1. pc'[h] = "done"
    BY <1>7 DEF Ends, TypeOK
  <2>2. RunInv(h)'
    BY <1>2, <1>7, <2>1 DEF RunInv
  <2> QED  BY <1>1, <1>7, <2>2, Leaves
<1>8. CASE Ends(h, "ok") /\ UNCHANGED attempt
  <2>1. pc'[h] = "done" /\ verdict'[h] = "ok"
    BY <1>8 DEF Ends, TypeOK
  <2>2. AllLanded(h)'
    BY <1>2, <1>5, <2>1 DEF LandedInv, SuccessInv
  <2>3. Owed(h)' = {} /\ Phase(h)' = "done"
    BY <2>1, <2>2, Owing, PhasesNext
  <2>4. attempt'[h] = attempt[h]
    BY <1>8
  <2>5. Contract(h)!Succeed
    BY <1>2, <1>3, <2>1, <2>3, <2>4, Zenon DEF Contract!Succeed, Limit
  <2>6. RunInv(h)'
    BY <1>2, <2>1, <2>4 DEF RunInv
  <2> QED  BY <2>5, <2>6, Zenon DEF ContractStep, Contract!Next
<1>9. ASSUME NEW where \in {"send", "confirm"}, Goto(h, where), UNCHANGED attempt
      PROVE  ContractStep(h) /\ RunInv(h)'
  <2>1. pc'[h] = where /\ verdict'[h] = verdict[h] /\ attempt'[h] = attempt[h]
    BY <1>9 DEF Goto, TypeOK
  <2>2. Phase(h)' = "telling"
    BY <2>1, PhasesNext
  <2>3. Owed(h)' = {i \in DOMAIN plan'[h] : plan'[h][i].required} \ landed'[h]
    BY <1>2, <2>2, Zenon DEF Owed
  <2>4. Owed(h)' \subseteq Owed(h)
    BY <1>1, <1>6, <2>3
  <2>5. Contract(h)!Acknowledged
    BY <1>2, <1>3, <2>1, <2>2, <2>4, Zenon DEF Contract!Acknowledged, Limit
  <2>6. \A i \in landed'[h] : i < at'[h]
    BY <1>1, <1>2, <1>4
  <2>7. RunInv(h)'
    BY <1>2, <2>1, <2>6 DEF RunInv
  <2> QED  BY <2>5, <2>7, Zenon DEF ContractStep, Contract!Next
<1>10. CASE /\ Goto(h, "recover") /\ On(h) /\ attempt[h] < config.wake_attempts
            /\ attempt' = [attempt EXCEPT ![h] = @ + 1]
            /\ plan[h][at[h]].required
  <2>1. pc'[h] = "recover" /\ verdict'[h] = verdict[h] /\ attempt'[h] = attempt[h] + 1
    BY <1>10 DEF Goto, TypeOK
  <2>2. Phase(h)' = "repairing"
    BY <1>4, <2>1, PhasesNext DEF Away
  <2>3. Owed(h)' = {}
    BY <1>3, <2>1, <2>2, Owing
  <2>4. at[h] \in DOMAIN plan[h] /\ at[h] \notin landed[h]
    BY <1>1, <1>2, <1>4 DEF TypeOK, IndexInPlan
  <2>5. Owed(h) # {}
    BY <1>6, <1>10, <2>4
  <2>6. attempt[h] < Limit(h)
    BY <1>10 DEF Limit
  <2>7. Contract(h)!TryAgain
    BY <1>2, <1>3, <2>1, <2>2, <2>3, <2>5, <2>6, Zenon DEF Contract!TryAgain, Limit
  <2>8. Limit(h) \in Nat
    <3>1. config \in Config
      BY DEF TypeOK
    <3>2. config.wake_attempts \in Nat
      BY <3>1 DEF Config
    <3> QED  BY <3>2 DEF Limit
  <2>9. RunInv(h)'
    BY <1>2, <1>4, <2>1, <2>6, <2>8 DEF RunInv
  <2> QED  BY <2>7, <2>9, Zenon DEF ContractStep, Contract!Next
<1> QED  BY <1>7, <1>8, <1>9, <1>10, SendTurns

(* The steps of one hook, or of the environment, are none of another's.    *)
LEMMA OthersContract ==
    ASSUME NEW g \in Hooks, UNCHANGED << config, command >>, RunInv(g),
           /\ pc'[g] = pc[g] /\ attempt'[g] = attempt[g] /\ plan'[g] = plan[g]
           /\ at'[g] = at[g] /\ landed'[g] = landed[g] /\ verdict'[g] = verdict[g]
    PROVE  ContractStep(g) /\ RunInv(g)'
<1>1. Phase(g)' = Phase(g)
  BY Zenon DEF Phase
<1>2. Owed(g)' = Owed(g)
  BY <1>1, Zenon DEF Owed, DryRun
<1>3. RunInv(g)'
  BY DEF RunInv, Limit, On, DryRun
<1> QED  BY <1>1, <1>2, <1>3, Unseen

(* A hook's step moves that hook only.                                     *)
LEMMA HookAlone ==
    ASSUME TypeOK, NEW h \in Hooks, Hook(h), NEW g \in Hooks \ {h}
    PROVE  /\ UNCHANGED << config, command >>
           /\ pc'[g] = pc[g] /\ attempt'[g] = attempt[g] /\ plan'[g] = plan[g]
           /\ at'[g] = at[g] /\ landed'[g] = landed[g] /\ verdict'[g] = verdict[g]
<1>1. UNCHANGED << config, command >>
  BY Zenon DEF Hook, Open, Info, Clear, Set, Reclear, Await, Tunnel, ReadPhys, Begin, PollTv,
     PollAudio, AskPower, AskSource, AskAudio, MakePlan, Send, Confirm, Recover, settings
<1>2. /\ pc \in [Hooks -> Pc] /\ verdict \in [Hooks -> Verdict]
      /\ attempt \in [Hooks -> Nat] /\ plan \in [Hooks -> Seq(Frame)]
      /\ at \in [Hooks -> Nat \ {0}] /\ landed \in [Hooks -> SUBSET Nat]
  BY DEF TypeOK
<1>3. ASSUME NEW where, Ends(h, where) \/ Goto(h, where)
      PROVE  pc'[g] = pc[g] /\ verdict'[g] = verdict[g]
  BY <1>2, <1>3 DEF Ends, Goto
<1>4. CASE \/ Open(h) \/ Info(h) \/ Clear(h) \/ Set(h) \/ Reclear(h) \/ Await(h)
           \/ Tunnel(h) \/ ReadPhys(h) \/ Recover(h)
  <2>1. UNCHANGED << plan, at, landed >> /\ AwayMove(h)
    BY <1>4, ClaimingAside, AwayMoves
  <2>2. /\ \E where : Ends(h, where) \/ Goto(h, where)
        /\ UNCHANGED attempt \/ attempt' = [attempt EXCEPT ![h] = IF @ = 0 THEN 1 ELSE @]
    BY <2>1, Zenon DEF AwayMove
  <2>3. attempt'[g] = attempt[g]
    BY <1>2, <2>2
  <2> QED  BY <1>1, <1>3, <2>1, <2>2, <2>3
<1>5. CASE \/ Begin(h) \/ PollTv(h) \/ PollAudio(h) \/ AskPower(h) \/ AskSource(h)
           \/ AskAudio(h)
  <2>1. UNCHANGED << plan, at, landed >>
    BY <1>5, ClaimingAside, AskingAside
  <2>2. UNCHANGED attempt /\ \E where : Ends(h, where) \/ Goto(h, where)
    BY <1>5, HereMoves
  <2> QED  BY <1>1, <1>3, <2>1, <2>2
<1>6. CASE MakePlan(h)
  <2>1. UNCHANGED attempt /\ \E where : Ends(h, where) \/ Goto(h, where)
    BY <1>6 DEF MakePlan
  <2>2. /\ UNCHANGED plan \/ \E p : plan' = [plan EXCEPT ![h] = p]
        /\ UNCHANGED at \/ at' = [at EXCEPT ![h] = 1]
        /\ UNCHANGED landed \/ landed' = [landed EXCEPT ![h] = {}]
    BY <1>6, Zenon DEF MakePlan
  <2>3. plan'[g] = plan[g] /\ at'[g] = at[g] /\ landed'[g] = landed[g]
    BY <1>2, <2>2
  <2> QED  BY <1>1, <1>3, <2>1, <2>3
<1>7. CASE Send(h)
  <2>1. /\ UNCHANGED plan
        /\ \E where : Ends(h, where) \/ Goto(h, where)
        /\ UNCHANGED attempt \/ attempt' = [attempt EXCEPT ![h] = @ + 1]
    BY <1>7, SendTurns
  <2>2. /\ at' = [at EXCEPT ![h] = @ + 1]
        /\ \E s : landed' = [landed EXCEPT ![h] = s]
    BY <1>7, Zenon DEF Send
  <2>3. attempt'[g] = attempt[g] /\ at'[g] = at[g] /\ landed'[g] = landed[g]
    BY <1>2, <2>1, <2>2
  <2> QED  BY <1>1, <1>3, <2>1, <2>3
<1>8. CASE Confirm(h)
  <2>1. UNCHANGED << attempt, plan, at, landed >> /\ \E where : Ends(h, where)
    BY <1>8 DEF Confirm
  <2> QED  BY <1>1, <1>3, <2>1
<1> QED  BY <1>4, <1>5, <1>6, <1>7, <1>8 DEF Hook

ContractInv == LandedInv /\ \A h \in Hooks : RunInv(h)

(* Every step keeps every contract.                                        *)
LEMMA ContractSteps ==
    ASSUME TypeOK, ContractInv, [Next]_vars
    PROVE  \A h \in Hooks : ContractStep(h) /\ RunInv(h)'
<1>1. LandedInv /\ \A h \in Hooks : RunInv(h)
  BY DEF ContractInv
<1>2. ASSUME NEW h \in Hooks, Hook(h) PROVE \A g \in Hooks : ContractStep(g) /\ RunInv(g)'
  <2>1. ContractStep(h) /\ RunInv(h)'
    <3>1. UNCHANGED << config, command >>
      BY <1>2, Zenon DEF Hook, Open, Info, Clear, Set, Reclear, Await, Tunnel, ReadPhys, Begin,
         PollTv, PollAudio, AskPower, AskSource, AskAudio, MakePlan, Send, Confirm, Recover,
         settings
    <3>2. CASE \/ Open(h) \/ Info(h) \/ Clear(h) \/ Set(h) \/ Reclear(h) \/ Await(h)
               \/ Tunnel(h) \/ ReadPhys(h) \/ Recover(h)
      BY <1>1, <3>1, <3>2, AwayMoves, MovesRun, MovesKeep
    <3>3. CASE \/ Begin(h) \/ PollTv(h) \/ PollAudio(h) \/ AskPower(h) \/ AskSource(h)
               \/ AskAudio(h)
      BY <1>1, <3>1, <3>3, HereMoves, MovesRun, MovesKeep
    <3>4. CASE MakePlan(h) \/ Send(h) \/ Confirm(h)
      BY <1>1, <3>4, PlanningContract, SendingContract, ConfirmContract
    <3> QED  BY <1>2, <3>2, <3>3, <3>4 DEF Hook
  <2>2. ASSUME NEW g \in Hooks \ {h} PROVE ContractStep(g) /\ RunInv(g)'
    BY <1>1, <1>2, HookAlone, OthersContract
  <2> QED  BY <2>1, <2>2
<1>3. CASE Environment \/ UNCHANGED vars
  <2>1. UNCHANGED << config, command, pc, attempt, plan, at, landed, verdict >>
    BY <1>3 DEF Environment, TvSettles, KernelClaims, AdapterResets, AdapterGone,
                vars, settings, self
  <2> QED  BY <1>1, <2>1, OthersContract
<1> QED  BY <1>2, <1>3 DEF Next, AllDone

(* Every run of every hook implements HookContract, step by step: it asks  *)
(* before it tells, repairs between attempts, makes no more attempts than  *)
(* it may, and owes nothing when it succeeds.                              *)
THEOREM ContractCorrect == Spec => KeepsContract
<1>1. Init => \A h \in Hooks : Contract(h)!Init
  <2> SUFFICES ASSUME Init, NEW h \in Hooks PROVE Contract(h)!Init
    OBVIOUS
  <2>1. pc[h] = "open" /\ attempt[h] = 0 /\ verdict[h] = "running"
    BY DEF Init
  <2>2. Phase(h) = "opening"
    BY <2>1, Phases DEF Away
  <2>3. Owed(h) = {}
    BY <2>1, <2>2, Owing
  <2>4. Limit(h) \in Nat \ {0}
    <3>1. config \in Config
      BY HookAssumption DEF HookAssumption, Init
    <3>2. config.wake_attempts \in Nat \ {0}
      BY <3>1 DEF Config
    <3> QED  BY <3>2 DEF Limit
  <2> QED  BY <2>1, <2>2, <2>3, <2>4, Zenon DEF Contract!Init, Limit
<1>2. Init => TypeOK /\ ContractInv
  <2> SUFFICES ASSUME Init PROVE TypeOK /\ ContractInv
    OBVIOUS
  <2>1. ASSUME NEW h \in Hooks PROVE RunInv(h)
    <3>1. pc[h] = "open" /\ attempt[h] = 0
      BY DEF Init
    <3>2. config \in Config
      BY HookAssumption DEF HookAssumption, Init
    <3>3. config.wake_attempts \in Nat
      BY <3>2 DEF Config
    <3> QED  BY <3>1, <3>3 DEF RunInv, Limit
  <2> QED  BY <2>1, InitType, LandedInit DEF ContractInv
<1>3. TypeOK /\ ContractInv /\ [Next]_vars => (TypeOK /\ ContractInv)'
  BY TypeStep, LandedStep, ContractSteps DEF ContractInv
<1>4. TypeOK /\ ContractInv /\ [Next]_vars
      => [\A h \in Hooks : [Contract(h)!Next]_(Contract(h)!vars)]_vars
  BY ContractSteps, Zenon DEF ContractStep
<1> QED  BY <1>1, <1>2, <1>3, <1>4, PTL DEF Spec, KeepsContract
=============================================================================
