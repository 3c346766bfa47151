------------------------- MODULE PvrSyncIoctlProofs -------------------------
(***************************************************************************)
(* Proofs about PvrSyncIoctl, for any finite set of threads.               *)
(*                                                                         *)
(* The argument: in_setup counts the threads between their increment and   *)
(* their decrement, so that a thread that saw 1 was alone there, and one   *)
(* that read 0 after announcing itself in in_use knows that no             *)
(* configuration is in progress and that none can pass the in_use test     *)
(* any more.                                                               *)
(***************************************************************************)
EXTENDS PvrSyncIoctl, FiniteSetTheorems, TLAPS

(* Between the increment and the decrement of in_setup.                    *)
Holders == {t \in Threads : pc[t] \in {"read_in_use", "dec_in_setup"} \cup ConfigBody}

(* Saw its own increment take in_setup to 1.                               *)
Won(t) == pc[t] \in {"read_in_use"} \cup ConfigBody

(* Wrote in_use, or found it written.                                      *)
Announced(t) == pc[t] \in {"read_in_setup", "set_in_use_2"} \cup UseBody

(* Read in_setup as 0 after that, or found in_use = 2.                     *)
Admitted(t) == pc[t] \in {"set_in_use_2"} \cup UseBody

Types ==
  /\ in_setup \in Nat
  /\ in_use \in 0 .. 2
  /\ is_sw \in BOOLEAN
  /\ timeline \in [is_sw : BOOLEAN, sw : BOOLEAN, hw : BOOLEAN, renamed : BOOLEAN]
  /\ hw_created \in 0 .. MaxHwContexts
  /\ op \in [Threads -> ConfigOps \cup UseOps \cup {"none"}]
  /\ pc \in [Threads -> {"idle"} \cup GatePcs \cup ConfigBody \cup UseBody]

InSetupCounts == in_setup = Cardinality(Holders)
OneWinner == \A t, u \in Threads : Won(t) /\ Won(u) => t = u
AnnouncedInUse == \A t \in Threads : Announced(t) => in_use # 0
ClosedToConfig ==
  in_use = 2 \/ (\E u \in Threads : Admitted(u)) => \A t \in Threads : ~Configuring(t)

(* The part of the invariant about the gate.                               *)
GateInv == Types /\ InSetupCounts /\ OneWinner /\ AnnouncedInUse /\ ClosedToConfig

(* The three records of a timeline's kind agree, except for a thread in    *)
(* the middle of force_sw_only.                                            *)
KindAgrees ==
  /\ \A t \in Threads : pc[t] = "force_is_sw" => timeline.sw
  /\ \A t \in Threads : pc[t] = "set_is_sw" => timeline.sw /\ timeline.is_sw
  /\ \/ is_sw = timeline.sw /\ timeline.is_sw = timeline.sw
     \/ \E t \in Threads : pc[t] \in {"force_is_sw", "set_is_sw"}
KickOnHw ==
  \A t \in Threads : pc[t] \in {"check_hw", "create_hw", "hw_fence"} => ~timeline.is_sw
HwIsUsed ==
  timeline.hw => in_use # 0 /\ ~timeline.sw /\ \A t \in Threads : ~Configuring(t)

IInv == GateInv /\ KindAgrees /\ KickOnHw /\ SwPointHasTimeline /\ HwIsUsed

-----------------------------------------------------------------------------
LEMMA HoldersFinite == IsFiniteSet(Holders) /\ Cardinality(Holders) \in Nat
<1>1. Holders \in SUBSET Threads
  BY DEF Holders
<1> QED
  BY <1>1, ThreadsFinite, FS_Subset, FS_CardinalityType

(* in_setup = 0 means that nobody is between increment and decrement.      *)
LEMMA NoHolder ==
  ASSUME InSetupCounts, in_setup = 0, NEW u \in Threads
  PROVE  ~Won(u) /\ ~Configuring(u)
<1>1. Holders = {}
  BY HoldersFinite, FS_EmptySet DEF InSetupCounts
<1> QED
  BY <1>1 DEF Holders, Won, Configuring

LEMMA ThreadsCount == Cardinality(Threads) \in Nat
  BY ThreadsFinite, FS_CardinalityType

(* The initial states satisfy the invariant.                               *)
LEMMA InitIInv == Init => IInv
<1> SUFFICES ASSUME Init PROVE IInv
  OBVIOUS
<1>1. Holders = {}
  BY DEF Init, Holders, ConfigBody
<1>2. InSetupCounts
  BY <1>1, FS_EmptySet DEF Init, InSetupCounts
<1>3. Types
  <2>1. hw_created \in 0 .. MaxHwContexts
    BY ThreadsCount DEF Init, MaxHwContexts
  <2>2. timeline \in [is_sw : BOOLEAN, sw : BOOLEAN, hw : BOOLEAN, renamed : BOOLEAN]
    <3>1. timeline = [is_sw |-> FALSE, sw |-> FALSE, hw |-> FALSE, renamed |-> FALSE]
      BY DEF Init
    <3> QED
      BY <3>1
  <2>3. in_setup \in Nat /\ in_use \in 0 .. 2
    <3>1. in_setup = 0 /\ in_use = 0
      BY DEF Init
    <3> QED
      BY <3>1
  <2>6. is_sw \in BOOLEAN
    BY DEF Init
  <2>4. op \in [Threads -> ConfigOps \cup UseOps \cup {"none"}]
    BY DEF Init
  <2>5. pc \in [Threads -> {"idle"} \cup GatePcs \cup ConfigBody \cup UseBody]
    BY DEF Init
  <2> QED
    BY <2>1, <2>2, <2>3, <2>4, <2>5, <2>6 DEF Types
<1> QED
  BY <1>2, <1>3 DEF Init, IInv, GateInv, OneWinner, AnnouncedInUse, ClosedToConfig,
     KindAgrees, KickOnHw, SwPointHasTimeline, HwIsUsed, Won, Announced, Admitted,
     Configuring, ConfigBody, UseBody

(* A step of one thread keeps the types.                                   *)
LEMMA NextTypes ==
  ASSUME Types, InSetupCounts, NEW t \in Threads, Call(t) \/ Gate(t) \/ Body(t)
  PROVE  Types'
<1> USE DEF Types, Goto, Return, GatePcs, ConfigBody, UseBody, ConfigOps, UseOps, MaxHwContexts
<1>1. CASE Call(t)
  BY <1>1 DEF Call
<1>2. CASE DecInSetup(t) \/ ResetInSetup(t)
  <2>1. t \in Holders
    BY <1>2 DEF DecInSetup, ResetInSetup, Holders
  <2>2. in_setup # 0
    BY <2>1, HoldersFinite, FS_EmptySet DEF InSetupCounts
  <2> QED
    BY <1>2, <2>2 DEF DecInSetup, ResetInSetup
<1>3. CASE IncInSetup(t) \/ ReadInUse(t) \/ TestInUse(t) \/ SetInUse1(t) \/ ReadInSetup(t) \/ SetInUse2(t)
  BY <1>3 DEF IncInSetup, ReadInUse, TestInUse, SetInUse1, ReadInSetup, SetInUse2
<1>4. CASE Config(t)
  BY <1>4 DEF Config
<1>7. CASE RenameHw(t)
  BY <1>7 DEF RenameHw
<1>8. CASE ForceSw(t)
  BY <1>8 DEF ForceSw
<1>9. CASE ForceIsSw(t) \/ SetIsSw(t)
  BY <1>9 DEF ForceIsSw, SetIsSw
<1>5. CASE Use(t) \/ SwPoint(t) \/ CheckHw(t) \/ HwFence(t)
  BY <1>5 DEF Use, SwPoint, CheckHw, HwFence
<1>6. CASE CreateHw(t)
  <2>1. timeline' \in [is_sw : BOOLEAN, sw : BOOLEAN, hw : BOOLEAN, renamed : BOOLEAN]
    BY <1>6 DEF CreateHw
  <2>2. hw_created' \in 0 .. MaxHwContexts
    BY <1>6, ThreadsCount DEF CreateHw
  <2>3. UNCHANGED <<in_setup, in_use, is_sw>>
    BY <1>6 DEF CreateHw
  <2>4. op' \in [Threads -> ConfigOps \cup UseOps \cup {"none"}]
    BY <1>6 DEF CreateHw
  <2>5. pc' \in [Threads -> {"idle"} \cup GatePcs \cup ConfigBody \cup UseBody]
    BY <1>6 DEF CreateHw
  <2> QED
    BY <2>1, <2>2, <2>3, <2>4, <2>5
<1> QED
  BY <1>1, <1>2, <1>3, <1>4, <1>5, <1>6, <1>7, <1>8, <1>9 DEF Gate, Body

(* in_setup goes on counting its holders.                                  *)
LEMMA NextInSetupCounts ==
  ASSUME Types, InSetupCounts, NEW t \in Threads, Call(t) \/ Gate(t) \/ Body(t)
  PROVE  InSetupCounts'
<1> USE DEF Types, Goto, Return, ConfigBody, UseBody, ConfigOps, UseOps, InSetupCounts
<1>1. CASE IncInSetup(t)
  <2>1. t \notin Holders /\ Holders' = Holders \cup {t}
    BY <1>1 DEF IncInSetup, Holders
  <2>2. Cardinality(Holders') = Cardinality(Holders) + 1
    BY <2>1, HoldersFinite, FS_AddElement
  <2> QED
    BY <1>1, <2>2 DEF IncInSetup
<1>2. CASE DecInSetup(t) \/ ResetInSetup(t)
  <2>1. t \in Holders /\ Holders' = Holders \ {t}
    BY <1>2 DEF DecInSetup, ResetInSetup, Holders
  <2>2. Cardinality(Holders') = Cardinality(Holders) - 1
    BY <2>1, HoldersFinite, FS_RemoveElement
  <2> QED
    BY <1>2, <2>2 DEF DecInSetup, ResetInSetup
<1>3. ASSUME Holders' = Holders, in_setup' = in_setup
      PROVE  InSetupCounts'
  BY <1>3
<1>4. CASE Call(t)
  BY <1>3, <1>4 DEF Call, Holders
<1>5. CASE ReadInUse(t) \/ TestInUse(t) \/ SetInUse1(t) \/ ReadInSetup(t) \/ SetInUse2(t)
  BY <1>3, <1>5 DEF ReadInUse, TestInUse, SetInUse1, ReadInSetup, SetInUse2, Holders
<1>6. CASE Config(t) \/ RenameHw(t) \/ ForceSw(t) \/ ForceIsSw(t) \/ SetIsSw(t)
  BY <1>3, <1>6 DEF Config, RenameHw, ForceSw, ForceIsSw, SetIsSw, Holders
<1>7. CASE Use(t) \/ SwPoint(t) \/ CheckHw(t) \/ CreateHw(t) \/ HwFence(t)
  BY <1>3, <1>7 DEF Use, SwPoint, CheckHw, CreateHw, HwFence, Holders
<1> QED
  BY <1>1, <1>2, <1>4, <1>5, <1>6, <1>7 DEF Gate, Body

(* The gate's invariant is kept by every step of a thread.                 *)
LEMMA NextGateInv ==
  ASSUME GateInv, NEW t \in Threads, Call(t) \/ Gate(t) \/ Body(t)
  PROVE  GateInv'
<1> USE DEF GateInv, Types, Goto, Return, ConfigBody, UseBody, ConfigOps, UseOps,
        OneWinner, AnnouncedInUse, ClosedToConfig, Won, Announced, Admitted, Configuring
<1>1. Types' /\ InSetupCounts'
  BY NextTypes, NextInSetupCounts
<1>2. CASE IncInSetup(t)
  (* A thread that takes in_setup to 1 found no holder, hence no winner.   *)
  <2>1. ASSUME in_setup = 0, NEW u \in Threads
        PROVE  ~Won(u)
    BY <2>1, NoHolder
  <2>2. OneWinner'
    <3>1. CASE in_setup = 0
      BY <1>2, <2>1, <3>1 DEF IncInSetup
    <3>2. CASE in_setup # 0
      BY <1>2, <3>2 DEF IncInSetup
    <3> QED
      BY <3>1, <3>2
  <2>3. AnnouncedInUse' /\ ClosedToConfig'
    BY <1>2 DEF IncInSetup
  <2> QED
    BY <1>1, <2>2, <2>3
<1>3. CASE ReadInSetup(t)
  (* A user that reads 0 found no holder, hence no configuration.          *)
  <2>1. ASSUME in_setup = 0, NEW u \in Threads
        PROVE  ~Configuring(u)
    BY <2>1, NoHolder
  <2>2. OneWinner' /\ AnnouncedInUse'
    BY <1>3 DEF ReadInSetup
  <2>3. ClosedToConfig'
    <3>1. CASE in_setup = 0
      BY <1>3, <2>1, <3>1 DEF ReadInSetup
    <3>2. CASE in_setup # 0
      BY <1>3, <3>2 DEF ReadInSetup
    <3> QED
      BY <3>1, <3>2
  <2> QED
    BY <1>1, <2>2, <2>3
<1>4. CASE ReadInUse(t)
  BY <1>1, <1>4 DEF ReadInUse
<1>5. CASE Call(t)
  BY <1>1, <1>5 DEF Call
<1>6. CASE DecInSetup(t) \/ ResetInSetup(t)
  BY <1>1, <1>6 DEF DecInSetup, ResetInSetup
<1>7. CASE TestInUse(t)
  BY <1>1, <1>7 DEF TestInUse
<1>8. CASE SetInUse1(t) \/ SetInUse2(t)
  BY <1>1, <1>8 DEF SetInUse1, SetInUse2
<1>9. CASE Config(t) \/ RenameHw(t) \/ ForceSw(t) \/ ForceIsSw(t) \/ SetIsSw(t)
  BY <1>1, <1>9 DEF Config, RenameHw, ForceSw, ForceIsSw, SetIsSw
<1>10. CASE Use(t) \/ SwPoint(t) \/ CheckHw(t) \/ CreateHw(t) \/ HwFence(t)
  BY <1>1, <1>10 DEF Use, SwPoint, CheckHw, CreateHw, HwFence
<1> QED
  BY <1>2, <1>3, <1>4, <1>5, <1>6, <1>7, <1>8, <1>9, <1>10 DEF Gate, Body

(* A user of the timeline shares it with no configuration, so that it      *)
(* finds the three records of its kind in agreement.                       *)
LEMMA UserSeesAgreement ==
  ASSUME IInv, NEW t \in Threads, Using(t)
  PROVE  /\ is_sw = timeline.sw /\ timeline.is_sw = timeline.sw
         /\ in_use # 0 /\ \A u \in Threads : ~Configuring(u)
<1>1. in_use # 0 /\ \A u \in Threads : ~Configuring(u)
  BY DEF IInv, GateInv, AnnouncedInUse, ClosedToConfig, Announced, Admitted, Using
<1> QED
  BY <1>1 DEF IInv, KindAgrees, Configuring, ConfigBody

(* ... and so is the invariant about the timeline's kind.                  *)
LEMMA NextIInv ==
  ASSUME IInv, NEW t \in Threads, Call(t) \/ Gate(t) \/ Body(t)
  PROVE  IInv'
<1> USE DEF IInv, GateInv, Types, Goto, Return, ConfigBody, UseBody, ConfigOps, UseOps,
        KindAgrees, KickOnHw, SwPointHasTimeline, HwIsUsed, Configuring
<1>1. GateInv'
  BY NextGateInv
<1>2. CASE Call(t)
  BY <1>1, <1>2 DEF Call
<1>3. CASE IncInSetup(t) \/ DecInSetup(t) \/ ResetInSetup(t)
  BY <1>1, <1>3 DEF IncInSetup, DecInSetup, ResetInSetup
<1>4. CASE ReadInUse(t)
  BY <1>1, <1>4 DEF ReadInUse
<1>5. CASE TestInUse(t) \/ ReadInSetup(t)
  BY <1>1, <1>5 DEF TestInUse, ReadInSetup
<1>6. CASE SetInUse1(t) \/ SetInUse2(t)
  BY <1>1, <1>6 DEF SetInUse1, SetInUse2
<1>7. CASE Config(t) \/ RenameHw(t)
  BY <1>1, <1>7 DEF Config, RenameHw
<1>8. CASE ForceSw(t)
  BY <1>1, <1>8 DEF ForceSw, OneWinner, Won, ClosedToConfig, Admitted
<1>9. CASE ForceIsSw(t)
  <2>1. KindAgrees'
    BY <1>1, <1>9 DEF ForceIsSw, OneWinner, Won
  <2>2. KickOnHw' /\ SwPointHasTimeline'
    BY <1>1, <1>9 DEF ForceIsSw, OneWinner, Won, ClosedToConfig, Admitted
  <2>3. HwIsUsed'
    BY <1>1, <1>9 DEF ForceIsSw
  <2> QED
    BY <1>1, <2>1, <2>2, <2>3
<1>10. CASE SetIsSw(t)
  BY <1>1, <1>10 DEF SetIsSw, OneWinner, Won, ClosedToConfig, Admitted
<1>11. CASE Use(t)
  BY <1>1, <1>11 DEF Use, ClosedToConfig, Admitted
<1>12. CASE SwPoint(t) \/ CheckHw(t) \/ HwFence(t)
  BY <1>1, <1>12 DEF SwPoint, CheckHw, HwFence
<1>13. CASE CreateHw(t)
  BY <1>1, <1>13 DEF CreateHw, ClosedToConfig, Admitted, AnnouncedInUse, Announced
<1> QED
  BY <1>2, <1>3, <1>4, <1>5, <1>6, <1>7, <1>8, <1>9, <1>10, <1>11, <1>12, <1>13 DEF Gate, Body

-----------------------------------------------------------------------------
(* The inductive invariant holds in every reachable state.                 *)
THEOREM Invariance == Spec => []IInv
<1>1. Init => IInv
  BY InitIInv
<1>2. IInv /\ [Next]_vars => IInv'
  <2> SUFFICES ASSUME IInv, [Next]_vars PROVE IInv'
    OBVIOUS
  <2>1. CASE Next
    BY <2>1, NextIInv DEF Next
  <2>2. CASE UNCHANGED vars
    BY <2>2 DEF vars, IInv, GateInv, Types, InSetupCounts, Holders, OneWinner,
       AnnouncedInUse, ClosedToConfig, Won, Announced, Admitted, Configuring,
       KindAgrees, KickOnHw, SwPointHasTimeline, HwIsUsed
  <2> QED
    BY <2>1, <2>2
<1> QED
  BY <1>1, <1>2, PTL DEF Spec

(* The variables keep their types; in_setup is bounded by the threads.     *)
THEOREM TypeCorrect == Spec => []TypeOK
<1>1. IInv => TypeOK
  <2> SUFFICES ASSUME IInv PROVE TypeOK
    OBVIOUS
  <2>1. Holders \in SUBSET Threads
    BY DEF Holders
  <2>2. Cardinality(Holders) <= Cardinality(Threads)
    BY <2>1, ThreadsFinite, FS_Subset
  <2>3. in_setup \in 0 .. Cardinality(Threads)
    BY <2>2, ThreadsCount DEF IInv, GateInv, Types, InSetupCounts
  <2> QED
    BY <2>3 DEF IInv, GateInv, Types, TypeOK
<1> QED
  BY <1>1, Invariance, PTL

(* The comment's claim: configurations exclude each other and every user.  *)
THEOREM MutualExclusion == Spec => []ConfigExclusive
<1>1. IInv => ConfigExclusive
  BY DEF IInv, GateInv, ConfigExclusive, OneWinner, Won, ClosedToConfig, Admitted,
     Using, Configuring
<1> QED
  BY <1>1, Invariance, PTL

(* A hardware timeline never becomes a software one, nor the other way.    *)
THEOREM KindsExclude == Spec => []HwOrSw
<1>1. IInv => HwOrSw
  BY DEF IInv, HwOrSw, HwIsUsed
<1> QED
  BY <1>1, Invariance, PTL

(* A rename has no hardware context's name to overwrite.                   *)
THEOREM RenameIsEarly == Spec => []RenameFindsNoContext
<1>1. IInv => RenameFindsNoContext
  BY DEF IInv, RenameFindsNoContext, HwIsUsed, Configuring, ConfigBody
<1> QED
  BY <1>1, Invariance, PTL

(* Software points are made on a timeline that is there.                   *)
THEOREM SwPointSafe == Spec => []SwPointHasTimeline
<1>1. IInv => SwPointHasTimeline
  BY DEF IInv
<1> QED
  BY <1>1, Invariance, PTL

(* Nobody sees the timeline's kind or name change while using it.          *)
LEMMA StepKeepsKind ==
  ASSUME IInv, NEW t \in Threads, Call(t) \/ Gate(t) \/ Body(t), \A u \in Threads : ~Configuring(u)
  PROVE  /\ is_sw' = is_sw
         /\ timeline'.is_sw = timeline.is_sw
         /\ timeline'.sw = timeline.sw
         /\ timeline'.renamed = timeline.renamed
<1> USE DEF IInv, GateInv, Types
<1>1. CASE CreateHw(t)
  BY <1>1 DEF CreateHw
<1>2. CASE Config(t) \/ RenameHw(t) \/ ForceSw(t) \/ ForceIsSw(t) \/ SetIsSw(t)
  BY <1>2 DEF Config, RenameHw, ForceSw, ForceIsSw, SetIsSw, Configuring, ConfigBody
<1>3. CASE Use(t) \/ SwPoint(t) \/ CheckHw(t) \/ HwFence(t)
  BY <1>3 DEF Use, SwPoint, CheckHw, HwFence
<1>4. CASE Call(t) \/ Gate(t)
  BY <1>4 DEF Call, Gate, IncInSetup, ReadInUse, DecInSetup, ResetInSetup, TestInUse,
     SetInUse1, ReadInSetup, SetInUse2
<1> QED
  BY <1>1, <1>2, <1>3, <1>4 DEF Body

THEOREM KindFixed == Spec => KindFixedInUse
<1>1. IInv /\ [Next]_vars =>
        [in_use = 2 \/ (\E t \in Threads : Using(t))
           => /\ is_sw' = is_sw
              /\ timeline'.is_sw = timeline.is_sw
              /\ timeline'.sw = timeline.sw
              /\ timeline'.renamed = timeline.renamed]_vars
  <2> SUFFICES ASSUME IInv, Next, in_use = 2 \/ \E t \in Threads : Using(t)
               PROVE  /\ is_sw' = is_sw
                      /\ timeline'.is_sw = timeline.is_sw
                      /\ timeline'.sw = timeline.sw
                      /\ timeline'.renamed = timeline.renamed
    OBVIOUS
  <2>1. \A u \in Threads : ~Configuring(u)
    BY DEF IInv, GateInv, ClosedToConfig, Admitted, Using
  <2> QED
    BY <2>1, StepKeepsKind DEF Next
<1> QED
  BY <1>1, Invariance, PTL DEF Spec, KindFixedInUse

-----------------------------------------------------------------------------
(* The abstract variables, and what moving one thread does to them.        *)
ConfigSet == {t \in Threads : Configuring(t)}
UserSet == {t \in Threads : Using(t)}

LEMMA Move ==
  ASSUME Types, NEW t \in Threads, NEW l, pc' = [pc EXCEPT ![t] = l]
  PROVE  /\ ConfigSet' = IF l \in ConfigBody THEN ConfigSet \cup {t} ELSE ConfigSet \ {t}
         /\ UserSet' = IF l \in UseBody THEN UserSet \cup {t} ELSE UserSet \ {t}
<1>1. \A u \in Threads : pc'[u] = IF u = t THEN l ELSE pc[u]
  BY DEF Types
<1>2. \A u : u \in ConfigSet' <=> u \in Threads /\ pc'[u] \in ConfigBody
  BY DEF ConfigSet, Configuring
<1>3. \A u : u \in ConfigSet <=> u \in Threads /\ pc[u] \in ConfigBody
  BY DEF ConfigSet, Configuring
<1>4. \A u : u \in UserSet' <=> u \in Threads /\ pc'[u] \in UseBody
  BY DEF UserSet, Using
<1>5. \A u : u \in UserSet <=> u \in Threads /\ pc[u] \in UseBody
  BY DEF UserSet, Using
<1> QED
  BY <1>1, <1>2, <1>3, <1>4, <1>5

(* A step of t within one region of the code is invisible.                 *)
LEMMA Invisible ==
  ASSUME Types, NEW t \in Threads, NEW l, pc' = [pc EXCEPT ![t] = l], in_use' = in_use,
         l \in ConfigBody <=> Configuring(t), l \in UseBody <=> Using(t)
  PROVE  UNCHANGED <<in_use # 0, ConfigSet, UserSet>>
<1>1. ConfigSet' = ConfigSet
  BY Move DEF ConfigSet
<1>2. UserSet' = UserSet
  BY Move DEF UserSet
<1> QED
  BY <1>1, <1>2

(* The gate implements the abstract phases: entering a body is the start   *)
(* of a configuration or of a use, the first write of in_use closes the    *)
(* timeline to configuration, and every other step is invisible.           *)
LEMMA StepRefines ==
  ASSUME IInv, NEW t \in Threads, Call(t) \/ Gate(t) \/ Body(t)
  PROVE  Phases!Next \/ UNCHANGED <<in_use # 0, ConfigSet, UserSet>>
<1> USE DEF Goto, Return
<1>0. Types /\ GateInv
  BY DEF IInv, GateInv
<1>1. \A u : u \in ConfigSet <=> u \in Threads /\ Configuring(u)
  BY DEF ConfigSet
<1>2. \A u : u \in UserSet <=> u \in Threads /\ Using(u)
  BY DEF UserSet
<1>3. ASSUME in_use # 0, in_use' # 0, Admitted(t) \/ in_use = 2, t \notin UserSet, t \notin ConfigSet,
             pc' = [pc EXCEPT ![t] = "use"]
      PROVE  Phases!Next
  <2>0. pc' = [pc EXCEPT ![t] = "use"]
    BY <1>3
  <2>3. ConfigSet' = ConfigSet \ {t} /\ UserSet' = UserSet \cup {t}
    BY <1>0, <2>0, Move DEF ConfigBody, UseBody
  <2>1. ConfigSet' = ConfigSet /\ UserSet' = UserSet \cup {t}
    BY <1>3, <2>3
  <2>2. ConfigSet = {}
    BY <1>0, <1>1, <1>3 DEF GateInv, ClosedToConfig
  <2> QED
    BY <1>3, <2>1, <2>2 DEF Phases!Next, Phases!StartUse, ConfigSet, UserSet
<1>4. ASSUME in_use' = in_use, t \in UserSet, pc' = [pc EXCEPT ![t] = "idle"]
      PROVE  Phases!Next
  <2>0. pc' = [pc EXCEPT ![t] = "idle"]
    BY <1>4
  <2>5. "idle" \notin ConfigBody /\ "idle" \notin UseBody
    BY DEF ConfigBody, UseBody
  <2>1. ConfigSet' = ConfigSet \ {t} /\ UserSet' = UserSet \ {t}
    BY <1>0, <2>0, <2>5, Move
  <2>4. Using(t)
    BY <1>2, <1>4
  <2>2. t \notin ConfigSet
    BY <1>1, <2>4 DEF Using, Configuring, UseBody, ConfigBody
  <2>3. ConfigSet' = ConfigSet
    BY <2>1, <2>2
  <2> QED
    BY <1>4, <2>1, <2>3 DEF Phases!Next, Phases!EndUse, ConfigSet, UserSet
<1>5. CASE ReadInUse(t)
  <2>1. CASE in_use # 0
    <3>1. pc' = [pc EXCEPT ![t] = "dec_in_setup"] /\ in_use' = in_use /\ pc[t] = "read_in_use"
      BY <1>5, <2>1 DEF ReadInUse
    <3> QED
      BY <1>0, <3>1, Invisible DEF Configuring, Using, ConfigBody, UseBody
  <2>2. CASE in_use = 0
    <3>1. pc' = [pc EXCEPT ![t] = "config"] /\ in_use' = in_use /\ pc[t] = "read_in_use"
      BY <1>5, <2>2 DEF ReadInUse
    <3>2. ConfigSet' = ConfigSet \cup {t} /\ UserSet' = UserSet \ {t}
      BY <1>0, <3>1, Move DEF ConfigBody, UseBody
    <3>3. ConfigSet = {}
      BY <1>0, <1>1, <3>1 DEF GateInv, OneWinner, Won, Configuring, ConfigBody
    <3>4. UserSet = {}
      BY <1>0, <1>2, <2>2 DEF GateInv, AnnouncedInUse, Announced, Using
    <3> QED
      BY <2>2, <3>1, <3>2, <3>3, <3>4 DEF Phases!Next, Phases!StartConfig, ConfigSet, UserSet
  <2> QED
    BY <2>1, <2>2
<1>6. CASE ResetInSetup(t)
  <2>1. pc' = [pc EXCEPT ![t] = "idle"] /\ in_use' = in_use /\ pc[t] = "reset_in_setup"
    BY <1>6 DEF ResetInSetup
  <2>2. ConfigSet' = ConfigSet \ {t} /\ UserSet' = UserSet \ {t}
    BY <1>0, <2>1, Move DEF ConfigBody, UseBody
  <2>3. t \in ConfigSet /\ t \notin UserSet
    BY <1>1, <1>2, <2>1 DEF Using, Configuring, UseBody, ConfigBody
  <2>4. UserSet' = UserSet
    BY <2>2, <2>3
  <2> QED
    BY <2>1, <2>2, <2>3, <2>4 DEF Phases!Next, Phases!EndConfig, ConfigSet, UserSet
<1>7. CASE SetInUse1(t)
  <2>1. pc' = [pc EXCEPT ![t] = "read_in_setup"] /\ in_use' = 1 /\ pc[t] = "set_in_use_1"
    BY <1>7 DEF SetInUse1
  <2>2. ConfigSet' = ConfigSet \ {t} /\ UserSet' = UserSet \ {t}
    BY <1>0, <2>1, Move DEF ConfigBody, UseBody
  <2>3. t \notin ConfigSet /\ t \notin UserSet
    BY <1>1, <1>2, <2>1 DEF Using, Configuring, UseBody, ConfigBody
  <2>4. ConfigSet' = ConfigSet /\ UserSet' = UserSet
    BY <2>2, <2>3
  <2> QED
    BY <2>1, <2>4 DEF Phases!Next, Phases!Close, ConfigSet, UserSet
<1>8. CASE SetInUse2(t)
  <2>1. pc' = [pc EXCEPT ![t] = "use"] /\ in_use' = 2 /\ pc[t] = "set_in_use_2"
    BY <1>8 DEF SetInUse2
  <2>2. Admitted(t) /\ t \notin ConfigSet /\ t \notin UserSet
    BY <1>1, <1>2, <2>1 DEF Admitted, Using, Configuring, UseBody, ConfigBody
  <2>3. in_use # 0
    BY <1>0, <2>1 DEF GateInv, AnnouncedInUse, Announced
  <2> QED
    BY <1>3, <2>1, <2>2, <2>3
<1>9. CASE TestInUse(t)
  <2>1. in_use' = in_use /\ pc[t] = "test_in_use"
    BY <1>9 DEF TestInUse
  <2>2. CASE in_use = 2
    <3>1. pc' = [pc EXCEPT ![t] = "use"]
      BY <1>9, <2>2 DEF TestInUse
    <3>2. t \notin ConfigSet /\ t \notin UserSet
      BY <1>1, <1>2, <2>1 DEF Using, Configuring, UseBody, ConfigBody
    <3> QED
      BY <1>3, <2>1, <2>2, <3>1, <3>2
  <2>3. CASE in_use # 2
    <3>2. in_use < 2
      BY <1>0, <2>3 DEF Types
    <3>1. pc' = [pc EXCEPT ![t] = "set_in_use_1"]
      BY <1>9, <3>2 DEF TestInUse
    <3> QED
      BY <1>0, <2>1, <3>1, Invisible DEF Configuring, Using, ConfigBody, UseBody
  <2> QED
    BY <2>2, <2>3
<1>10. CASE Call(t) \/ IncInSetup(t) \/ DecInSetup(t) \/ ReadInSetup(t)
  <2>1. /\ in_use' = in_use
        /\ pc[t] \in {"idle", "inc_in_setup", "dec_in_setup", "read_in_setup"}
    BY <1>10 DEF Call, IncInSetup, DecInSetup, ReadInSetup
  <2>2. PICK l \in {"idle", "inc_in_setup", "test_in_use", "dec_in_setup", "read_in_use", "set_in_use_2"} :
          pc' = [pc EXCEPT ![t] = l]
    BY <1>10 DEF Call, IncInSetup, DecInSetup, ReadInSetup
  <2> QED
    BY <1>0, <2>1, <2>2, Invisible DEF Configuring, Using, ConfigBody, UseBody
<1>11. CASE Config(t) \/ RenameHw(t) \/ ForceSw(t) \/ ForceIsSw(t) \/ SetIsSw(t)
  <2>1. /\ in_use' = in_use
        /\ pc[t] \in {"config", "rename_hw", "force_sw", "force_is_sw", "set_is_sw"}
    BY <1>11 DEF Config, RenameHw, ForceSw, ForceIsSw, SetIsSw
  <2>2. PICK l \in {"reset_in_setup", "rename_hw", "force_sw", "force_is_sw", "set_is_sw"} :
          pc' = [pc EXCEPT ![t] = l]
    BY <1>11 DEF Config, RenameHw, ForceSw, ForceIsSw, SetIsSw
  <2> QED
    BY <1>0, <2>1, <2>2, Invisible DEF Configuring, Using, ConfigBody, UseBody
<1>12. CASE Use(t) \/ SwPoint(t) \/ CheckHw(t) \/ CreateHw(t) \/ HwFence(t)
  <2>1. in_use' = in_use /\ pc[t] \in {"use", "sw_point", "check_hw", "create_hw", "hw_fence"}
    BY <1>12 DEF Use, SwPoint, CheckHw, CreateHw, HwFence
  <2>2. PICK l \in {"idle", "sw_point", "check_hw", "create_hw", "hw_fence"} :
          pc' = [pc EXCEPT ![t] = l]
    BY <1>12 DEF Use, SwPoint, CheckHw, CreateHw, HwFence
  <2>3. CASE l = "idle"
    BY <1>2, <1>4, <2>1, <2>2, <2>3 DEF Using, UseBody
  <2>4. CASE l # "idle"
    BY <1>0, <2>1, <2>2, <2>4, Invisible DEF Configuring, Using, ConfigBody, UseBody
  <2> QED
    BY <2>3, <2>4
<1> QED
  BY <1>5, <1>6, <1>7, <1>8, <1>9, <1>10, <1>11, <1>12 DEF Gate, Body

THEOREM Refinement == Spec => ImplementsPhases
<1>1. Init => Phases!Init
  BY DEF Init, Phases!Init, Configuring, Using, ConfigBody, UseBody
<1>2. IInv /\ [Next]_vars => [Phases!Next]_(Phases!vars)
  <2>1. ASSUME UNCHANGED vars PROVE UNCHANGED Phases!vars
    BY <2>1 DEF vars, Phases!vars, Configuring, Using
  <2>2. ASSUME UNCHANGED <<in_use # 0, ConfigSet, UserSet>> PROVE UNCHANGED Phases!vars
    BY <2>2 DEF Phases!vars, ConfigSet, UserSet
  <2> QED
    BY <2>1, <2>2, StepRefines DEF Next
<1> QED
  BY <1>1, <1>2, Invariance, PTL DEF Spec, ImplementsPhases, Phases!Spec
=============================================================================
