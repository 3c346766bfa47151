------------------------ MODULE DisplayCommitProofs ------------------------
(***************************************************************************)
(* Proofs about DisplayCommit, for any sets of crtcs, connectors, modes,   *)
(* workers and devices.                                                    *)
(*                                                                         *)
(* Commits that are carried out at a time have neither a crtc nor a        *)
(* connector in common, so what is true of a crtc follows from the phase   *)
(* of the one commit that has it: first the hardware is as the old state   *)
(* in the commit says, in between the crtcs or encoders of a modeset are   *)
(* off, and afterwards the new state is reached; in which phases is        *)
(* another matter for crtcs and for encoders, and for each device.         *)
(* Commits that are only checked hold locks, so that what they found stays *)
(* true until they are carried out, but for ctx.vm.                        *)
(***************************************************************************)
EXTENDS DisplayCommit, TLAPS

(* TypeOK, but for the bounds of owed, which follow from FlipsAccounted.   *)
Types ==
  /\ device \in Devices
  /\ route \in [Connectors -> Crtcs \cup {None}]
  /\ active \in [Crtcs -> BOOLEAN] /\ mode \in [Crtcs -> Modes \cup {Off}]
  /\ event \in [Crtcs -> BOOLEAN]
  /\ job \in [Workers -> Checks \cup Jobs \cup {NoJob}]
  /\ vm \in [Crtcs -> Modes \cup {Off}] /\ scan \in [Crtcs -> Modes \cup {Off}]
  /\ drives \in [Connectors -> Crtcs \cup {None}]
  /\ vblank \in [Crtcs -> BOOLEAN]
  /\ vsync \in [Crtcs -> BOOLEAN] /\ armed \in [Crtcs -> BOOLEAN]
  /\ irq \in [Crtcs -> BOOLEAN] /\ owed \in [Crtcs -> Int]
  /\ fixed_up \subseteq Crtcs /\ astray \subseteq Crtcs

(* The phases in which the crtcs (the encoders) of a modeset are as in the *)
(* old state, off, and as in the new one.                                  *)
CrtcsOld == IF device.sudi104 THEN {"wait", "encoders_off", "crtcs_off"}
                              ELSE {"wait", "crtcs_off"}
CrtcsOff == IF device.sudi104 THEN {"set_mode", "crtcs_on"}
            ELSE {"encoders_off", "set_mode", "encoders_on", "crtcs_on"}
CrtcsNew == IF device.sudi104 THEN {"encoders_on", "planes"} ELSE {"planes"}
RoutesOld == IF device.sudi104 THEN {"wait", "encoders_off"}
                               ELSE {"wait", "crtcs_off", "encoders_off"}
RoutesOff == IF device.sudi104 THEN {"crtcs_off", "set_mode", "crtcs_on", "encoders_on"}
                               ELSE {"set_mode", "encoders_on"}
RoutesNew == IF device.sudi104 THEN {"planes"} ELSE {"crtcs_on", "planes"}

(* The phases that use the old state, and those before the mode is set.    *)
Old == {"wait", "crtcs_off", "encoders_off"}
Unset == Old \cup {"set_mode"}

(* Commits that are carried out have nothing in common, nor have those     *)
(* that are checked.                                                       *)
Apart(v, w) ==
  /\ job[v].crtcs \cap job[w].crtcs = {}
  /\ job[v].conns \cap job[w].conns = {}
Disjoint ==
  \A v, w \in Workers : Busy(v) /\ Busy(w) /\ v # w => Apart(v, w)
ChecksApart ==
  \A v, w \in Workers : Checked(v) /\ Checked(w) /\ v # w => Apart(v, w)

(* What a check found is so until the commit is carried out.  Only a       *)
(* SetMode of a commit before it may have written ctx.vm since.            *)
CheckOK(w) ==
  LET j == job[w] IN
  /\ \A k \in Connectors :
       /\ k \in j.conns <=> route[k] \in j.crtcs \/ j.route[k] \in j.crtcs
       /\ j.route[k] # None => j.route[k] \in j.crtcs /\ route[k] \in j.crtcs \cup {None}
  /\ \A c \in j.active : c \in j.crtcs /\ Enabled(j.route, c)
  /\ \A c \in Crtcs : j.mode[c] # Off <=> Enabled(j.route, c)
  /\ \A c \in FixedUp(j) : j.mode[c] = mode[c] => vm[c] = mode[c]

(* A commit speaks of its own crtcs and connectors only, and what needs no *)
(* modeset is the same before and after.                                   *)
Shape(w) ==
  LET j == job[w] IN
  /\ j.modeset \subseteq j.crtcs /\ j.flush \subseteq j.crtcs
  /\ j.old_active \subseteq j.crtcs /\ j.mode_changed \subseteq j.modeset
  /\ \A k \in Connectors :
       /\ j.old_route[k] # None => j.old_route[k] \in j.crtcs /\ k \in j.conns
       /\ route[k] \in j.crtcs => k \in j.conns
  /\ j.phase \in Old => \A c \in j.crtcs :
       /\ c \in j.old_active => \E k \in Connectors : j.old_route[k] = c
       /\ c \notin j.modeset =>
            /\ c \in j.old_active <=> active[c]
            /\ \A k \in Connectors : j.old_route[k] = c <=> route[k] = c
  /\ j.phase \notin Unset => j.mode_changed = {}
  /\ j.phase # "planes" => \A c \in j.crtcs : c \in j.flush <=> active[c]
  /\ j.phase = "planes" => j.modeset = {}

(* Where the event of a crtc can be found before it is armed or sent.      *)
Events(w) ==
  LET j == job[w] IN
  \A c \in j.crtcs :
    /\ j.phase # "wait" => ~(event[c] /\ armed[c])
    /\ event[c] /\ j.phase \in CrtcsOld => active[c] \/ c \in j.modeset \cap j.old_active
    /\ event[c] /\ j.phase \notin CrtcsOld => c \in j.flush

(* A crtc has a mode when it is enabled.                                   *)
ModeOK(c) ==
  /\ mode[c] # Off <=> Enabled(route, c)
  /\ active[c] => Enabled(route, c)

(* What the core will program is the mode, or comes from a check.          *)
VmDone(c) ==
  Enabled(route, c) => vm[c] # Off /\ (c \notin fixed_up => vm[c] = mode[c])
VmIs(w, c) == c \notin job[w].mode_changed => VmDone(c)

(* The hardware of a crtc is as its state says.                            *)
ScanDone(c) ==
  /\ scan[c] # Off <=> active[c]
  /\ active[c] /\ c \notin astray => scan[c] = mode[c]
RouteDone(c) == \A k \in Connectors : drives[k] = c <=> route[k] = c /\ active[c]

ScanIs(w, c) ==
  LET j == job[w] IN
  /\ c \notin j.modeset \/ j.phase \in CrtcsNew => ScanDone(c)
  /\ c \in j.modeset /\ j.phase \in CrtcsOld => (scan[c] # Off <=> c \in j.old_active)
  /\ c \in j.modeset /\ j.phase \in CrtcsOff => scan[c] = Off
RouteIs(w, c) ==
  LET j == job[w] IN
  /\ j.phase \in RoutesOld =>
       \A k \in Connectors : drives[k] = c <=> j.old_route[k] = c /\ c \in j.old_active
  /\ j.phase \in RoutesOff =>
       IF c \in j.modeset THEN \A k \in Connectors : drives[k] # c ELSE RouteDone(c)
  /\ j.phase \in RoutesNew => RouteDone(c)

Vblanks == \A c \in Crtcs : vblank[c] => scan[c] # Off

ModesOK == \A c \in Crtcs : ModeOK(c)
ChecksOK == ChecksApart /\ \A w \in Workers : Checked(w) => CheckOK(w)

(* All that is true of a commit that is carried out ...                    *)
Own(w) ==
  /\ Shape(w) /\ Events(w)
  /\ \A c \in job[w].crtcs : ScanIs(w, c) /\ RouteIs(w, c) /\ VmIs(w, c)
(* ... and of a crtc without one.                                          *)
Done(c) == ScanDone(c) /\ RouteDone(c) /\ VmDone(c) /\ ~event[c]

CommitsOK ==
  /\ Disjoint /\ \A w \in Workers : Busy(w) => Own(w)
  /\ \A c \in Crtcs \ InFlight : Done(c)

IInv ==
  /\ Types /\ ModesOK /\ ChecksOK /\ CommitsOK
  /\ FlipsAccounted /\ Vblanks /\ ArmedGetsVblank

-----------------------------------------------------------------------------
(* The phases.                                                             *)
LEMMA SudiType ==
  ASSUME Types
  PROVE  device.sudi104 \in BOOLEAN
BY CommitAssumption DEF Types

LEMMA SameClasses ==
  ASSUME device' = device
  PROVE  /\ CrtcsOld' = CrtcsOld /\ CrtcsOff' = CrtcsOff /\ CrtcsNew' = CrtcsNew
         /\ RoutesOld' = RoutesOld /\ RoutesOff' = RoutesOff /\ RoutesNew' = RoutesNew
BY DEF CrtcsOld, CrtcsOff, CrtcsNew, RoutesOld, RoutesOff, RoutesNew

LEMMA Classes ==
  ASSUME Types, NEW p \in Phases
  PROVE  /\ p \in CrtcsOld \/ p \in CrtcsOff \/ p \in CrtcsNew
         /\ p \in CrtcsOld => p \notin CrtcsOff /\ p \notin CrtcsNew /\ p \in Old
         /\ p \in CrtcsOff => p \notin CrtcsNew
         /\ p \in RoutesOld \/ p \in RoutesOff \/ p \in RoutesNew
         /\ p \in RoutesOld => p \notin RoutesOff /\ p \notin RoutesNew /\ p \in Old
         /\ p \in RoutesOff => p \notin RoutesNew
         /\ p = "wait" => p \in CrtcsOld /\ p \in RoutesOld
         /\ p = "planes" => p \in CrtcsNew /\ p \in RoutesNew /\ p \notin Unset
         /\ ~device.sudi104 /\ p \in CrtcsNew => p = "planes"
         /\ device.sudi104 /\ p \in RoutesNew => p = "planes"
         /\ ~device.sudi104 /\ p \in CrtcsOld => p \in RoutesOld
         /\ device.sudi104 /\ p \in RoutesOld => p \in CrtcsOld
         /\ ~device.sudi104 /\ p \in RoutesOff => p \in CrtcsOff
         /\ device.sudi104 /\ p \in CrtcsOff => p \in RoutesOff
         /\ p \in Old => p \in Unset
BY SudiType DEF Phases, CrtcsOld, CrtcsOff, CrtcsNew, RoutesOld, RoutesOff, RoutesNew, Old, Unset

(* A step that leaves the crtcs (the encoders) where they are.             *)
CrtcsStay(p) ==
  /\ p \in CrtcsOld <=> After[p] \in CrtcsOld
  /\ p \in CrtcsOff <=> After[p] \in CrtcsOff
  /\ p \in CrtcsNew <=> After[p] \in CrtcsNew
RoutesStay(p) ==
  /\ p \in RoutesOld <=> After[p] \in RoutesOld
  /\ p \in RoutesOff <=> After[p] \in RoutesOff
  /\ p \in RoutesNew <=> After[p] \in RoutesNew

LEMMA Steps ==
  ASSUME Types
  PROVE  /\ After["wait"] \in Old /\ After["wait"] # "wait"
         /\ CrtcsStay("wait") /\ RoutesStay("wait")
         /\ "crtcs_off" \in CrtcsOld /\ "crtcs_off" \in Old
         /\ After["crtcs_off"] \in CrtcsOff /\ After["crtcs_off"] \in Unset \ {"wait"}
         /\ RoutesStay("crtcs_off")
         /\ "encoders_off" \in RoutesOld /\ "encoders_off" \in Old
         /\ After["encoders_off"] \in RoutesOff /\ After["encoders_off"] \in Unset \ {"wait"}
         /\ CrtcsStay("encoders_off")
         /\ "set_mode" \in CrtcsOff /\ "set_mode" \in RoutesOff
         /\ After["set_mode"] \in Phases \ (Unset \cup {"planes"})
         /\ CrtcsStay("set_mode") /\ RoutesStay("set_mode")
         /\ "encoders_on" \in RoutesOff /\ "encoders_on" \notin CrtcsOld
         /\ "encoders_on" \notin Unset
         /\ After["encoders_on"] \in RoutesNew /\ After["encoders_on"] \in Phases \ Unset
         /\ CrtcsStay("encoders_on")
         /\ "crtcs_on" \in CrtcsOff /\ "crtcs_on" \notin Unset
         /\ After["crtcs_on"] \in CrtcsNew /\ After["crtcs_on"] \in Phases \ Unset
         /\ RoutesStay("crtcs_on")
BY SudiType DEF After, CrtcsStay, RoutesStay, Phases, CrtcsOld, CrtcsOff, CrtcsNew,
   RoutesOld, RoutesOff, RoutesNew, Old, Unset

-----------------------------------------------------------------------------
LEMMA InFlightIs ==
  \A c : c \in InFlight <=> \E w \in Workers : Busy(w) /\ c \in job[w].crtcs
BY DEF InFlight

LEMMA InFlightNext ==
  \A c : c \in InFlight' <=> \E w \in Workers : Busy(w)' /\ c \in job'[w].crtcs
BY DEF InFlight, Busy

LEMMA ConnsInFlightIs ==
  \A k : k \in ConnsInFlight <=> \E w \in Workers : Busy(w) /\ k \in job[w].conns
BY DEF ConnsInFlight

LEMMA LockedIs ==
  /\ \A c : c \in Locked <=> \E w \in Workers : Checked(w) /\ c \in job[w].crtcs
  /\ \A k : k \in ConnsLocked <=> \E w \in Workers : Checked(w) /\ k \in job[w].conns
BY DEF Locked, ConnsLocked

(* What the phase says of a worker's job.                                  *)
LEMMA BusyIs ==
  ASSUME Types, NEW w \in Workers
  PROVE  /\ Busy(w) <=> job[w] \in Jobs
         /\ Checked(w) <=> job[w] \in Checks
         /\ Busy(w) => job[w].phase \in Phases /\ ~Checked(w)
<1>1. job[w] \in Checks \/ job[w] \in Jobs \/ job[w] = NoJob
  BY DEF Types
<1>2. job[w] \in Jobs => job[w].phase \in Phases
  BY DEF Jobs
<1>3. job[w] \in Checks => job[w].phase = "checked"
  BY DEF Checks
<1>4. NoJob.phase = "idle" /\ "idle" \notin Phases /\ "checked" \notin Phases
  BY DEF NoJob, Phases
<1> QED
  BY <1>1, <1>2, <1>3, <1>4 DEF Busy, Checked

LEMMA InitIInv == Init => IInv
<1> SUFFICES ASSUME Init PROVE IInv
  OBVIOUS
<1>1. \A w \in Workers : ~Busy(w) /\ ~Checked(w)
  BY DEF Init, Busy, Checked, NoJob
<1>2. Types
  BY DEF Init, Types
<1>4. \A c \in Crtcs : ~Enabled(route, c)
  BY CommitAssumption DEF Init, Enabled
<1>5. CommitsOK
  BY <1>1, <1>4, CommitAssumption
     DEF Init, CommitsOK, Disjoint, Done, ScanDone, RouteDone, VmDone
<1>6. ModesOK
  BY <1>4 DEF Init, ModesOK, ModeOK
<1>7. FlipsAccounted
  BY DEF Init, FlipsAccounted
<1>8. Vblanks /\ ArmedGetsVblank
  BY DEF Init, Vblanks, ArmedGetsVblank
<1>9. ChecksOK
  BY <1>1 DEF ChecksOK, ChecksApart
<1> QED
  BY <1>2, <1>5, <1>6, <1>7, <1>8, <1>9 DEF IInv

-----------------------------------------------------------------------------
(* What the swap of worker w finds and does: S are its crtcs, r, a and m   *)
(* the routes, activity and modes of all crtcs and connectors afterwards.  *)
Asked(S, r, a, m) ==
  /\ S \subseteq Crtcs
  /\ r \in [Connectors -> Crtcs \cup {None}]
  /\ a \in [Crtcs -> BOOLEAN] /\ m \in [Crtcs -> Modes \cup {Off}]
  /\ \A k \in Connectors : r[k] # route[k] =>
       r[k] \in S \cup {None} /\ route[k] \in S \cup {None}
  /\ \A c \in Crtcs \ S : a[c] = active[c] /\ m[c] = mode[c]
  /\ \A c \in S : /\ a[c] => Enabled(r, c)
                  /\ m[c] # Off <=> Enabled(r, c)

Carried(w, S, r, a, m) ==
  /\ \A v \in Workers : Busy(v) =>
       /\ S \cap job[v].crtcs = {}
       /\ \A k \in Connectors : route[k] \in S \/ r[k] \in S => k \notin job[v].conns
  /\ route' = r /\ active' = a /\ mode' = m
  /\ \A c \in Crtcs :
       /\ IF c \in S THEN event'[c] <=> active[c] \/ a[c] ELSE event'[c] = event[c]
       /\ owed'[c] = IF c \in S /\ (active[c] \/ a[c]) THEN owed[c] + 1 ELSE owed[c]
  /\ \A v \in Workers \ {w} : job'[v] = job[v]
  /\ job'[w] \in Jobs /\ job'[w].phase = "wait" /\ job'[w].crtcs = S
  /\ \A k \in Connectors :
       /\ k \in job'[w].conns <=> route[k] \in S \/ r[k] \in S
       /\ job'[w].old_route[k] = IF route[k] \in S THEN route[k] ELSE None
  /\ \A c \in Crtcs :
       /\ c \in job'[w].modeset <=>
            /\ c \in S
            /\ \/ a[c] # active[c] \/ m[c] # mode[c]
               \/ \E k \in Connectors : ~(r[k] = c <=> route[k] = c)
       /\ c \in job'[w].mode_changed <=> c \in S /\ m[c] # mode[c]
       /\ c \in job'[w].old_active <=> c \in S /\ active[c]
       /\ c \in job'[w].flush <=> c \in S /\ a[c]
  /\ \A c \in Crtcs : c \in fixed_up /\ c \notin fixed_up' =>
       c \in S /\ (m[c] = mode[c] => vm[c] = mode[c])
  /\ fixed_up' \subseteq fixed_up
  /\ UNCHANGED <<device, armed, vm, hardVars, drives>>

LEMMA SwapDoes ==
  ASSUME Types, ModesOK, ChecksOK, NEW w \in Workers, SwapState(w)
  PROVE  /\ Checked(w) /\ ~Busy(w) /\ job[w] \in Checks
         /\ Asked(job[w].crtcs, route', active', mode')
         /\ Carried(w, job[w].crtcs, route', active', mode')
         /\ \A k \in Connectors : route'[k] # route[k] => k \in job[w].conns
<1>1. Checked(w) /\ ~Busy(w) /\ job[w] \in Checks /\ CheckOK(w)
  BY BusyIs DEF SwapState, ChecksOK
<1> DEFINE j == job[w]
           S == job[w].crtcs
<1>2. /\ S \subseteq Crtcs /\ j.conns \subseteq Connectors /\ j.active \subseteq Crtcs
      /\ j.route \in [Connectors -> Crtcs \cup {None}] /\ j.mode \in [Crtcs -> Modes \cup {Off}]
  BY <1>1 DEF Checks
<1>3. /\ \A k \in Connectors :
           /\ k \in j.conns <=> route[k] \in S \/ j.route[k] \in S
           /\ j.route[k] # None => j.route[k] \in S /\ route[k] \in S \cup {None}
      /\ \A c \in j.active : c \in S /\ Enabled(j.route, c)
      /\ \A c \in Crtcs : j.mode[c] # Off <=> Enabled(j.route, c)
      /\ \A c \in FixedUp(j) : j.mode[c] = mode[c] => vm[c] = mode[c]
  BY <1>1 DEF CheckOK
<1>4. /\ route' = [k \in Connectors |-> IF k \in j.conns THEN j.route[k] ELSE route[k]]
      /\ active' = [c \in Crtcs |-> IF c \in S THEN c \in j.active ELSE active[c]]
      /\ mode' = [c \in Crtcs |-> IF c \in S THEN j.mode[c] ELSE mode[c]]
  BY DEF SwapState
<1>5. \A c \in Crtcs :
          /\ event'[c] = IF c \in S THEN c \in Signals(j) ELSE event[c]
          /\ owed'[c] = IF c \in Signals(j) THEN owed[c] + 1 ELSE owed[c]
  BY DEF SwapState
<1>6. job'[w] = [phase |-> "wait", crtcs |-> S, conns |-> j.conns,
        modeset |-> Modeset(j), mode_changed |-> ModeChanged(j),
        flush |-> j.active, old_active |-> {c \in S : active[c]},
        old_route |-> [k \in Connectors |-> IF route[k] \in S THEN route[k] ELSE None]]
  BY DEF SwapState, Types
<1>7. /\ S \cap InFlight = {} /\ j.conns \cap ConnsInFlight = {}
      /\ fixed_up' = fixed_up \ FixedUp(j)
      /\ UNCHANGED <<device, armed, vm, hardVars, drives>>
  BY DEF SwapState
<1>8. \A v \in Workers \ {w} : job'[v] = job[v]
  BY DEF SwapState, Types
<1>9. S = j.crtcs /\ S = job[w].crtcs /\ j.conns = job[w].conns
  OBVIOUS
<1> HIDE DEF j, S
<1>10. \A k \in Connectors :
         /\ route'[k] = IF k \in j.conns THEN j.route[k] ELSE route[k]
         /\ j.route[k] \in Crtcs \cup {None} /\ route[k] \in Crtcs \cup {None}
  BY <1>2, <1>4 DEF Types
<1>11. \A c \in Crtcs :
         /\ active'[c] = IF c \in S THEN c \in j.active ELSE active[c]
         /\ mode'[c] = IF c \in S THEN j.mode[c] ELSE mode[c]
         /\ j.mode[c] \in Modes \cup {Off} /\ mode[c] \in Modes \cup {Off}
         /\ active[c] \in BOOLEAN /\ (c \in j.active) \in BOOLEAN
  BY <1>2, <1>4 DEF Types
<1>12. \A c \in Crtcs : active'[c] \in BOOLEAN /\ mode'[c] \in Modes \cup {Off}
  BY <1>11
<1>13. \A k \in Connectors : route'[k] # route[k] =>
        k \in j.conns /\ route'[k] \in S \cup {None} /\ route[k] \in S \cup {None}
  <2> SUFFICES ASSUME NEW k \in Connectors, route'[k] # route[k]
               PROVE  k \in j.conns /\ route'[k] \in S \cup {None} /\ route[k] \in S \cup {None}
    OBVIOUS
  <2>1. k \in j.conns /\ route'[k] = j.route[k]
    BY <1>10
  <2>2. CASE j.route[k] # None
    BY <1>3, <2>1, <2>2
  <2>3. CASE j.route[k] = None
    <3>1. route[k] \in S \/ j.route[k] \in S
      BY <1>3, <2>1
    <3>2. None \notin S
      BY <1>2, CommitAssumption
    <3> QED
      BY <2>1, <2>3, <3>1, <3>2
  <2> QED
    BY <2>2, <2>3
<1>14. \A k \in Connectors : \A c \in S : route'[k] = c <=> j.route[k] = c
  BY <1>3, <1>10
<1>15. \A c \in S : Enabled(route', c) <=> Enabled(j.route, c)
  BY <1>14 DEF Enabled
<1>16. \A c \in S : /\ active'[c] => Enabled(route', c)
                    /\ mode'[c] # Off <=> Enabled(route', c)
  BY <1>2, <1>3, <1>11, <1>15
<1>17. Asked(S, route', active', mode')
  <2>1. route' \in [Connectors -> Crtcs \cup {None}]
    BY <1>2, <1>4, <1>10
  <2>2. active' \in [Crtcs -> BOOLEAN]
    BY <1>4, <1>11, <1>12
  <2>3. mode' \in [Crtcs -> Modes \cup {Off}]
    BY <1>4, <1>11, <1>12
  <2>4. \A c \in Crtcs \ S : active'[c] = active[c] /\ mode'[c] = mode[c]
    BY <1>11
  <2>5. \A k \in Connectors : route'[k] # route[k] =>
          route'[k] \in S \cup {None} /\ route[k] \in S \cup {None}
    BY <1>13
  <2> QED
    BY <1>2, <1>16, <2>1, <2>2, <2>3, <2>4, <2>5 DEF Asked
<1>18. \A v \in Workers : Busy(v) =>
          /\ S \cap job[v].crtcs = {}
          /\ \A k \in Connectors : route[k] \in S \/ route'[k] \in S => k \notin job[v].conns
  <2>1. \A k \in Connectors : route[k] \in S \/ route'[k] \in S => k \in j.conns
    BY <1>3, <1>10
  <2> QED
    BY <1>7, <2>1, InFlightIs, ConnsInFlightIs
<1>19. \A c \in Crtcs :
       /\ IF c \in S THEN event'[c] <=> active[c] \/ active'[c] ELSE event'[c] = event[c]
       /\ owed'[c] = IF c \in S /\ (active[c] \/ active'[c]) THEN owed[c] + 1 ELSE owed[c]
  <2>1. \A c \in Crtcs : c \in Signals(j) <=> c \in S /\ (active[c] \/ c \in j.active)
    BY <1>9 DEF Signals
  <2>2. \A c \in Crtcs : c \in Signals(j) <=> c \in S /\ (active[c] \/ active'[c])
    BY <1>11, <2>1
  <2> QED
    BY <1>2, <1>5, <2>2
<1>20. Modeset(j) \subseteq Crtcs /\ ModeChanged(j) \subseteq Crtcs
  BY <1>2, <1>9 DEF Modeset, ConnectorsChanged, ModeChanged, ActiveChanged
<1>21. job'[w] \in Jobs
  <2>1. [k \in Connectors |-> IF route[k] \in S THEN route[k] ELSE None]
          \in [Connectors -> Crtcs \cup {None}]
    BY <1>10
  <2> QED
    BY <1>2, <1>6, <1>20, <2>1 DEF Jobs, Phases
<1>22. \A k \in Connectors :
       /\ k \in job'[w].conns <=> route[k] \in S \/ route'[k] \in S
       /\ job'[w].old_route[k] = IF route[k] \in S THEN route[k] ELSE None
  <2>1. \A k \in Connectors : k \in j.conns <=> route[k] \in S \/ route'[k] \in S
    BY <1>3, <1>10
  <2> QED
    BY <1>6, <2>1
<1>23. \A c \in Crtcs : c \in job'[w].mode_changed <=> c \in S /\ mode'[c] # mode[c]
  BY <1>6, <1>9, <1>11 DEF ModeChanged
<1>24. \A c \in Crtcs :
       /\ c \in job'[w].old_active <=> c \in S /\ active[c]
       /\ c \in job'[w].flush <=> c \in S /\ active'[c]
  <2>1. \A c \in Crtcs : c \in j.active <=> c \in S /\ active'[c]
    BY <1>3, <1>11
  <2>2. job'[w].flush = j.active /\ job'[w].old_active = {c \in S : active[c]}
    BY <1>6
  <2> QED
    BY <2>1, <2>2
<1>25. \A c \in Crtcs : c \in job'[w].modeset <=>
            /\ c \in S
            /\ \/ active'[c] # active[c] \/ mode'[c] # mode[c]
               \/ \E k \in Connectors : ~(route'[k] = c <=> route[k] = c)
  <2>1. ASSUME NEW c \in Crtcs, c \in S
        PROVE  /\ c \in ConnectorsChanged(j) <=>
                    \E k \in Connectors : ~(route'[k] = c <=> route[k] = c)
               /\ c \in ModeChanged(j) <=> mode'[c] # mode[c]
               /\ c \in ActiveChanged(j) <=> active'[c] # active[c]
    <3>1. c \in ConnectorsChanged(j) <=> \E k \in Connectors : ~(j.route[k] = c <=> route[k] = c)
      BY <1>9, <2>1 DEF ConnectorsChanged
    <3>2. \A k \in Connectors : route'[k] = c <=> j.route[k] = c
      BY <1>14, <2>1
    <3>3. c \in ModeChanged(j) <=> mode'[c] # mode[c]
      BY <1>9, <1>11, <2>1 DEF ModeChanged
    <3>4. c \in ActiveChanged(j) <=> ~(c \in j.active <=> active[c])
      BY <1>9, <2>1 DEF ActiveChanged
    <3>5. c \in ActiveChanged(j) <=> active'[c] # active[c]
      BY <1>11, <2>1, <3>4
    <3> QED
      BY <3>1, <3>2, <3>3, <3>5
  <2>2. \A c \in Modeset(j) : c \in S
    BY <1>9 DEF Modeset, ConnectorsChanged, ModeChanged, ActiveChanged
  <2>3. /\ job'[w].modeset = Modeset(j)
        /\ Modeset(j) = ConnectorsChanged(j) \cup ModeChanged(j) \cup ActiveChanged(j)
    BY <1>6 DEF Modeset
  <2> QED
    BY <2>1, <2>2, <2>3
<1>26. \A c \in Crtcs : c \in fixed_up /\ c \notin fixed_up' =>
         c \in S /\ (mode'[c] = mode[c] => vm[c] = mode[c])
  <2>1. \A c \in FixedUp(j) : c \in S
    BY <1>9 DEF FixedUp, ConnectorsChanged, ModeChanged
  <2> QED
    BY <1>3, <1>7, <1>11, <2>1
<1>27. Carried(w, S, route', active', mode')
  <2>1. job'[w].phase = "wait" /\ job'[w].crtcs = S
    BY <1>6
  <2>2. fixed_up' \subseteq fixed_up
    BY <1>7
  <2> QED
    BY <1>7, <1>8, <1>18, <1>19, <1>21, <1>22, <1>23, <1>24, <1>25, <1>26, <2>1, <2>2
       DEF Carried
<1> QED
  BY <1>1, <1>9, <1>13, <1>17, <1>27

(* What a check leaves.                                                    *)
LEMMA CheckDoes ==
  ASSUME Types, NEW w \in Workers, Check(w)
  PROVE  /\ ~Busy(w) /\ ~Checked(w)
         /\ UNCHANGED <<device, stateVars, eventVars, hardVars, drives>>
         /\ job'[w] \in Checks /\ \A v \in Workers \ {w} : job'[v] = job[v]
         /\ job' \in [Workers -> Checks \cup Jobs \cup {NoJob}]
         /\ \A v \in Workers : Checked(v) =>
              /\ job'[w].crtcs \cap job[v].crtcs = {} /\ job'[w].conns \cap job[v].conns = {}
         /\ \A k \in Connectors :
              /\ k \in job'[w].conns <=> route[k] \in job'[w].crtcs \/ job'[w].route[k] \in job'[w].crtcs
              /\ job'[w].route[k] # None =>
                   job'[w].route[k] \in job'[w].crtcs /\ route[k] \in job'[w].crtcs \cup {None}
         /\ \A c \in job'[w].active : c \in job'[w].crtcs /\ Enabled(job'[w].route, c)
         /\ \A c \in Crtcs : job'[w].mode[c] # Off <=> Enabled(job'[w].route, c)
         /\ mtgpu_crtc_mode_fixup(job'[w])
<1>1. ~Busy(w) /\ ~Checked(w)
  BY DEF Check, Busy, Checked, NoJob
<1>2. PICK S \in (SUBSET (Crtcs \ Locked)) \ {{}} : \E r \in NewRoutes(S) :
       /\ Conns(S, r) \cap ConnsLocked = {}
       /\ \E a \in NewActives(S, r), m \in NewModes(r) :
            LET j == [phase |-> "checked", crtcs |-> S, conns |-> Conns(S, r),
                      route |-> r, active |-> a, mode |-> m]
            IN  job' = [job EXCEPT ![w] = j] /\ mtgpu_crtc_mode_fixup(j)
  BY DEF Check
<1>3. PICK r \in NewRoutes(S) :
       /\ Conns(S, r) \cap ConnsLocked = {}
       /\ \E a \in NewActives(S, r), m \in NewModes(r) :
            LET j == [phase |-> "checked", crtcs |-> S, conns |-> Conns(S, r),
                      route |-> r, active |-> a, mode |-> m]
            IN  job' = [job EXCEPT ![w] = j] /\ mtgpu_crtc_mode_fixup(j)
  BY <1>2
<1>4. PICK a \in NewActives(S, r), m \in NewModes(r) :
            LET j == [phase |-> "checked", crtcs |-> S, conns |-> Conns(S, r),
                      route |-> r, active |-> a, mode |-> m]
            IN  job' = [job EXCEPT ![w] = j] /\ mtgpu_crtc_mode_fixup(j)
  BY <1>3
<1> DEFINE j == [phase |-> "checked", crtcs |-> S, conns |-> Conns(S, r),
                 route |-> r, active |-> a, mode |-> m]
<1>5. job' = [job EXCEPT ![w] = j] /\ mtgpu_crtc_mode_fixup(j)
  BY <1>4
<1>6. job'[w] = j /\ \A v \in Workers \ {w} : job'[v] = job[v]
  BY <1>5 DEF Types
<1>7. /\ j.crtcs = S /\ j.conns = Conns(S, r) /\ j.route = r /\ j.active = a /\ j.mode = m
      /\ j.phase = "checked"
  OBVIOUS
<1>8. /\ S \subseteq Crtcs /\ r \in [Connectors -> Crtcs \cup {None}]
      /\ a \subseteq Crtcs /\ m \in [Crtcs -> Modes \cup {Off}]
      /\ Conns(S, r) \subseteq Connectors
  BY DEF NewRoutes, NewActives, NewModes, Conns
<1>9. j \in Checks
  BY <1>8 DEF Checks
<1>10. job' \in [Workers -> Checks \cup Jobs \cup {NoJob}]
  BY <1>5, <1>9 DEF Types
<1>11. \A v \in Workers : Checked(v) =>
         S \cap job[v].crtcs = {} /\ Conns(S, r) \cap job[v].conns = {}
  BY <1>2, <1>3, LockedIs
<1>12. \A k \in Connectors :
         /\ k \in Conns(S, r) <=> route[k] \in S \/ r[k] \in S
         /\ r[k] # None => r[k] \in S /\ route[k] \in S \cup {None}
  BY DEF Conns, NewRoutes
<1>13. \A c \in a : c \in S /\ Enabled(r, c)
  BY DEF NewActives
<1>14. \A c \in Crtcs : m[c] # Off <=> Enabled(r, c)
  <2>1. \A c \in Crtcs : IF Enabled(r, c) THEN m[c] \in device.mode_valid[c] ELSE m[c] = Off
    BY DEF NewModes
  <2>2. \A c \in Crtcs : device.mode_valid[c] \subseteq Modes
    BY CommitAssumption DEF Types
  <2> QED
    BY <2>1, <2>2, CommitAssumption
<1>15. UNCHANGED <<device, stateVars, eventVars, hardVars, drives>>
  BY DEF Check
<1> HIDE DEF j
<1> QED
  BY <1>1, <1>5, <1>6, <1>7, <1>9, <1>10, <1>11, <1>12, <1>13, <1>14, <1>15

-----------------------------------------------------------------------------
(* The steps that go on to the next phase, and what they do to their job.  *)
Goer(w) ==
  \/ Start(w) \/ DisableCrtcs(w) \/ DisableEncoders(w) \/ SetMode(w)
  \/ EnableEncoders(w) \/ EnableCrtcs(w)

Goes(w) ==
  LET j == job[w]
      i == job'[w]
  IN  /\ j \in Jobs /\ i \in Jobs /\ j.phase # "planes" /\ i.phase = After[j.phase]
      /\ i.crtcs = j.crtcs /\ i.conns = j.conns /\ i.flush = j.flush
      /\ IF i.phase = "planes" THEN i.modeset = {} ELSE i.modeset = j.modeset
      /\ IF j.phase = "set_mode"
         THEN i.mode_changed = {} /\ i.old_active = {} /\ \A k \in Connectors : i.old_route[k] = None
         ELSE /\ i.mode_changed = j.mode_changed /\ i.old_active = j.old_active
              /\ i.old_route = j.old_route
      /\ \A v \in Workers \ {w} : job'[v] = job[v]
      /\ job' \in [Workers -> Checks \cup Jobs \cup {NoJob}]

(* The phases that a phase goes on to.                                     *)
LEMMA AfterIs ==
  ASSUME Types, NEW p \in Phases \ {"planes"}
  PROVE  /\ After[p] \in Phases /\ After[p] # "wait"
         /\ After[p] \in Old => p \in Old
         /\ After[p] \notin Unset => p \notin Unset \/ p = "set_mode"
         /\ After[p] = "planes" => p \in {"encoders_on", "crtcs_on"}
BY SudiType DEF Phases, After, Old, Unset

LEMMA GoerGoes ==
  ASSUME Types, NEW w \in Workers, Goer(w)
  PROVE  Goes(w)
<1>1. job[w] \in Jobs /\ job[w].phase \in Phases \ {"planes"}
  BY BusyIs DEF Goer, Busy, Start, DisableCrtcs, DisableEncoders, SetMode,
     EnableEncoders, EnableCrtcs
<1>2. After[job[w].phase] \in Phases
  BY <1>1, AfterIs
<1>3. CASE Start(w) \/ DisableCrtcs(w) \/ DisableEncoders(w)
  <2>1. job' = [job EXCEPT ![w].phase = After[@]] /\ job[w].phase \in Old
    BY <1>3 DEF Start, DisableCrtcs, DisableEncoders, GoOn, Old
  <2>2. job'[w] = [job[w] EXCEPT !.phase = After[job[w].phase]]
    BY <2>1 DEF Types
  <2>3. After[job[w].phase] # "planes" /\ job[w].phase # "set_mode"
    BY <1>1, <2>1, AfterIs DEF Old
  <2>4. /\ job'[w].phase = After[job[w].phase] /\ job'[w].crtcs = job[w].crtcs
        /\ job'[w].conns = job[w].conns /\ job'[w].flush = job[w].flush
        /\ job'[w].modeset = job[w].modeset /\ job'[w].mode_changed = job[w].mode_changed
        /\ job'[w].old_active = job[w].old_active /\ job'[w].old_route = job[w].old_route
        /\ job'[w] \in Jobs
    BY <1>1, <1>2, <2>2 DEF Jobs
  <2>5. /\ \A v \in Workers \ {w} : job'[v] = job[v]
        /\ job' \in [Workers -> Checks \cup Jobs \cup {NoJob}]
    BY <2>1, <2>4 DEF Types
  <2> QED
    BY <1>1, <2>3, <2>4, <2>5 DEF Goes
<1>4. CASE SetMode(w)
  <2>1. /\ job' = [job EXCEPT ![w].phase = After[@], ![w].mode_changed = {},
             ![w].old_active = {}, ![w].old_route = [k \in Connectors |-> None]]
        /\ job[w].phase = "set_mode"
    BY <1>4 DEF SetMode
  <2>2. PICK none \in [Connectors -> Crtcs \cup {None}] :
          /\ \A k \in Connectors : none[k] = None
          /\ job'[w] = [job[w] EXCEPT !.phase = After[job[w].phase], !.mode_changed = {},
                         !.old_active = {}, !.old_route = none]
    <3>1. job'[w] = [job[w] EXCEPT !.phase = After[job[w].phase], !.mode_changed = {},
                       !.old_active = {}, !.old_route = [k \in Connectors |-> None]]
      BY <2>1 DEF Types
    <3>2. \E f \in [Connectors -> Crtcs \cup {None}] : f = [k \in Connectors |-> None]
      OBVIOUS
    <3> QED
      BY <3>1, <3>2
  <2>3. After["set_mode"] # "planes"
    BY Steps
  <2>4. /\ job'[w].phase = After[job[w].phase] /\ job'[w].crtcs = job[w].crtcs
        /\ job'[w].conns = job[w].conns /\ job'[w].flush = job[w].flush
        /\ job'[w].modeset = job[w].modeset /\ job'[w].mode_changed = {}
        /\ job'[w].old_active = {} /\ \A k \in Connectors : job'[w].old_route[k] = None
    BY <1>1, <2>2 DEF Jobs
  <2>6. job'[w] \in Jobs
    BY <1>1, <1>2, <2>2 DEF Jobs
  <2>5. /\ \A v \in Workers \ {w} : job'[v] = job[v]
        /\ job' \in [Workers -> Checks \cup Jobs \cup {NoJob}]
    BY <2>1, <2>6 DEF Types
  <2> QED
    BY <1>1, <2>1, <2>3, <2>4, <2>5, <2>6 DEF Goes
<1>5. CASE EnableEncoders(w) \/ EnableCrtcs(w)
  <2>1. /\ job' = [job EXCEPT ![w].phase = After[@],
                     ![w].modeset = IF After[job[w].phase] = "planes" THEN {} ELSE @]
        /\ job[w].phase # "set_mode"
    BY <1>5 DEF EnableEncoders, EnableCrtcs, EnablesNext
  <2>2. job'[w] = [job[w] EXCEPT !.phase = After[job[w].phase],
             !.modeset = IF After[job[w].phase] = "planes" THEN {} ELSE job[w].modeset]
    BY <2>1 DEF Types
  <2>4. /\ job'[w].phase = After[job[w].phase] /\ job'[w].crtcs = job[w].crtcs
        /\ job'[w].conns = job[w].conns /\ job'[w].flush = job[w].flush
        /\ job'[w].modeset = IF After[job[w].phase] = "planes" THEN {} ELSE job[w].modeset
        /\ job'[w].mode_changed = job[w].mode_changed
        /\ job'[w].old_active = job[w].old_active /\ job'[w].old_route = job[w].old_route
        /\ job'[w] \in Jobs
    BY <1>1, <1>2, <2>2 DEF Jobs
  <2>5. /\ \A v \in Workers \ {w} : job'[v] = job[v]
        /\ job' \in [Workers -> Checks \cup Jobs \cup {NoJob}]
    BY <2>1, <2>4 DEF Types
  <2> QED
    BY <1>1, <2>1, <2>4, <2>5 DEF Goes
<1> QED
  BY <1>3, <1>4, <1>5 DEF Goer

(* A flush takes a crtc off the job.                                       *)
LEMMA FlushDoes ==
  ASSUME Types, NEW w \in Workers, NEW c \in Crtcs, mtgpu_crtc_atomic_flush(w, c)
  PROVE  /\ job[w] \in Jobs /\ job[w].phase = "planes" /\ c \in job[w].flush
         /\ job'[w] \in Jobs /\ job'[w].phase = "planes" /\ job'[w].crtcs = job[w].crtcs
         /\ job'[w].conns = job[w].conns /\ job'[w].modeset = job[w].modeset
         /\ job'[w].flush = job[w].flush \ {c} /\ job'[w].mode_changed = job[w].mode_changed
         /\ job'[w].old_active = job[w].old_active /\ job'[w].old_route = job[w].old_route
         /\ \A v \in Workers \ {w} : job'[v] = job[v]
         /\ job' \in [Workers -> Checks \cup Jobs \cup {NoJob}]
<1>1. job[w] \in Jobs /\ job[w].phase = "planes" /\ c \in job[w].flush
  BY BusyIs DEF mtgpu_crtc_atomic_flush, Busy
<1>2. job' = [job EXCEPT ![w].flush = @ \ {c}]
  BY DEF mtgpu_crtc_atomic_flush
<1>3. job'[w] = [job[w] EXCEPT !.flush = job[w].flush \ {c}]
  BY <1>2 DEF Types
<1>4. job'[w] \in Jobs
  BY <1>1, <1>3 DEF Jobs
<1> QED
  BY <1>1, <1>2, <1>3, <1>4 DEF Jobs, Types

LEMMA TypeStep ==
  ASSUME Types, ModesOK, ChecksOK, [Next]_vars
  PROVE  Types'
<1>1. ASSUME NEW w \in Workers, Check(w) PROVE Types'
  <2>1. /\ job'[w] \in Checks /\ mtgpu_crtc_mode_fixup(job'[w])
        /\ job' \in [Workers -> Checks \cup Jobs \cup {NoJob}]
        /\ UNCHANGED <<device, stateVars, eventVars, hardVars, drives>>
    BY <1>1, CheckDoes
  <2>2. PICK j \in Checks : mtgpu_crtc_mode_fixup(j)
    BY <2>1
  <2>3. vm' \in [Crtcs -> Modes \cup {Off}] /\ fixed_up' \subseteq Crtcs
    <3>1. FixedUp(j) \subseteq Crtcs /\ j.mode \in [Crtcs -> Modes \cup {Off}]
      BY DEF FixedUp, ConnectorsChanged, ModeChanged, Checks
    <3> QED
      BY <2>2, <3>1 DEF mtgpu_crtc_mode_fixup, Types
  <2> QED
    BY <2>1, <2>3 DEF Types, stateVars, eventVars, hardVars
<1>2. ASSUME NEW w \in Workers, Drop(w) PROVE Types'
  BY <1>2 DEF Types, Drop, stateVars, eventVars, modeVars, hardVars
<1>3. ASSUME NEW w \in Workers, SwapState(w) PROVE Types'
  <2>1. PICK j : /\ event' = [c \in Crtcs |-> IF c \in j.crtcs THEN c \in Signals(j) ELSE event[c]]
                 /\ owed' = [c \in Crtcs |-> IF c \in Signals(j) THEN owed[c] + 1 ELSE owed[c]]
                 /\ route' = [k \in Connectors |-> IF k \in j.conns THEN j.route[k] ELSE route[k]]
                 /\ active' = [c \in Crtcs |-> IF c \in j.crtcs THEN c \in j.active ELSE active[c]]
                 /\ mode' = [c \in Crtcs |-> IF c \in j.crtcs THEN j.mode[c] ELSE mode[c]]
                 /\ fixed_up' = fixed_up \ FixedUp(j) /\ j = job[w] /\ j \in Checks
    BY <1>3, BusyIs DEF SwapState
  <2>2. event' \in [Crtcs -> BOOLEAN] /\ owed' \in [Crtcs -> Int]
    <3>1. \A c \in Crtcs : event[c] \in BOOLEAN /\ owed[c] \in Int
      BY DEF Types
    <3>2. event' \in [Crtcs -> BOOLEAN]
      <4>1. \E S, G : event' = [c \in Crtcs |-> IF c \in S THEN c \in G ELSE event[c]]
        BY <2>1
      <4>2. \A c \in Crtcs : event'[c] \in BOOLEAN
        <5> SUFFICES ASSUME NEW c \in Crtcs PROVE event'[c] \in BOOLEAN
          OBVIOUS
        <5>1. CASE c \in job[w].crtcs
          <6>1. event'[c] = (c \in Signals(j))
            BY <2>1, <5>1
          <6>2. (c \in Signals(j)) \in BOOLEAN
            OBVIOUS
          <6> QED
            BY <6>1, <6>2
        <5>2. CASE c \notin job[w].crtcs
          BY <2>1, <3>1, <5>2
        <5> QED
          BY <5>1, <5>2
      <4> QED
        BY <4>1, <4>2
    <3>3. owed' \in [Crtcs -> Int]
      BY <2>1, <3>1
    <3> QED
      BY <3>2, <3>3
  <2>3. /\ route' \in [Connectors -> Crtcs \cup {None}]
        /\ active' \in [Crtcs -> BOOLEAN] /\ mode' \in [Crtcs -> Modes \cup {Off}]
    <3>1. Asked(job[w].crtcs, route', active', mode')
      BY <1>3, SwapDoes
    <3> QED
      BY <3>1 DEF Asked
  <2>4. fixed_up' \subseteq Crtcs
    BY <2>1 DEF Types
  <2>5. \E i : job' = [job EXCEPT ![w] = i]
    BY <1>3 DEF SwapState
  <2>6. job' \in [Workers -> Checks \cup Jobs \cup {NoJob}]
    <3>1. Carried(w, job[w].crtcs, route', active', mode')
      BY <1>3, SwapDoes
    <3> QED
      BY <2>5, <3>1 DEF Carried, Types
  <2> QED
    BY <1>3, <2>2, <2>3, <2>4, <2>6 DEF Types, SwapState, hardVars
<1>4. ASSUME NEW w \in Workers, Tail(w) PROVE Types'
  <2>1. CASE Goer(w)
    <3>1. job' \in [Workers -> Checks \cup Jobs \cup {NoJob}]
      BY <2>1, GoerGoes DEF Goes
    <3>2. CASE Start(w)
      BY <3>1, <3>2 DEF Types, Start, stateVars, eventVars, modeVars, hardVars
    <3>3. CASE DisableCrtcs(w)
      <4>1. PICK C : mtgpu_crtc_atomic_disable(C)
        BY <3>3 DEF DisableCrtcs
      <4> QED
        BY <3>1, <3>3, <4>1 DEF Types, DisableCrtcs, mtgpu_crtc_atomic_disable, Cleared, Sent,
           stateVars, modeVars
    <3>4. CASE DisableEncoders(w)
      BY <3>1, <3>4 DEF Types, DisableEncoders, stateVars, eventVars, modeVars, hardVars
    <3>5. CASE SetMode(w)
      <4>1. vm' \in [Crtcs -> Modes \cup {Off}] /\ fixed_up' \subseteq Crtcs
        BY <3>5 DEF Types, SetMode
      <4> QED
        BY <3>1, <3>5, <4>1 DEF Types, SetMode, stateVars, eventVars, hardVars
    <3>6. CASE EnableEncoders(w)
      <4>1. drives' \in [Connectors -> Crtcs \cup {None}]
        BY <3>6 DEF Types, EnableEncoders
      <4> QED
        BY <3>1, <3>6, <4>1 DEF Types, EnableEncoders, stateVars, eventVars, modeVars, hardVars
    <3>7. CASE EnableCrtcs(w)
      BY <3>1, <3>7 DEF Types, EnableCrtcs, mtgpu_crtc_atomic_enable, stateVars, eventVars, modeVars
    <3> QED
      BY <2>1, <3>2, <3>3, <3>4, <3>5, <3>6, <3>7 DEF Goer
  <2>2. ASSUME NEW c \in Crtcs, mtgpu_crtc_atomic_flush(w, c) PROVE Types'
    <3>1. job' \in [Workers -> Checks \cup Jobs \cup {NoJob}]
      BY <2>2, FlushDoes
    <3> QED
      BY <2>2, <3>1 DEF Types, mtgpu_crtc_atomic_flush, Sent, stateVars, modeVars
  <2>3. CASE HwDone(w)
    BY <2>3 DEF Types, HwDone, stateVars, eventVars, modeVars, hardVars
  <2> QED
    BY <1>4, <2>1, <2>2, <2>3 DEF Tail, Goer
<1>5. ASSUME NEW c \in Crtcs, Vsync(c) PROVE Types'
  BY <1>5 DEF Types, Vsync, stateVars, eventVars, modeVars
<1>6. ASSUME NEW c \in Crtcs, mtgpu_dispc_isr(c) PROVE Types'
  BY <1>6 DEF Types, mtgpu_dispc_isr, Sent, stateVars, modeVars
<1>7. ASSUME NEW c \in Crtcs, mtgpu_crtc_disable_vblank(c) PROVE Types'
  BY <1>7 DEF Types, mtgpu_crtc_disable_vblank, stateVars, eventVars, modeVars
<1>8. CASE UNCHANGED vars
  BY <1>8 DEF Types, vars, stateVars, eventVars, modeVars, hardVars
<1> QED
  BY <1>1, <1>2, <1>3, <1>4, <1>5, <1>6, <1>7, <1>8 DEF Next

-----------------------------------------------------------------------------
(* What is unchanged stays as it was.                                      *)
LEMMA ModesKept ==
  ASSUME ModesOK, UNCHANGED <<route, active, mode>>
  PROVE  ModesOK'
BY DEF ModesOK, ModeOK, Enabled

(* Checks see no step but that ctx.vm is set to the mode a crtc has.       *)
LEMMA ChecksKept ==
  ASSUME Types, ChecksOK, UNCHANGED <<route, mode>>,
         \A v \in Workers : Checked(v)' => Checked(v) /\ job'[v] = job[v],
         \A c \in Crtcs : vm'[c] = vm[c] \/ vm'[c] = mode[c]
  PROVE  ChecksOK'
<1>1. ChecksApart'
  BY DEF ChecksOK, ChecksApart, Apart
<1>2. ASSUME NEW v \in Workers, Checked(v)' PROVE CheckOK(v)'
  <2>1. CheckOK(v) /\ job'[v] = job[v] /\ job[v] \in Checks
    BY <1>2, BusyIs DEF ChecksOK
  <2>2. FixedUp(job[v]) \subseteq Crtcs
    BY <2>1 DEF FixedUp, ConnectorsChanged, ModeChanged, Checks
  <2>3. FixedUp(job[v])' = FixedUp(job[v])
    BY <2>1 DEF FixedUp, ConnectorsChanged, ModeChanged, Enabled
  <2>4. \A c \in FixedUp(job[v]) : job[v].mode[c] = mode[c] => vm'[c] = mode[c]
    BY <2>1, <2>2 DEF CheckOK
  <2> QED
    BY <2>1, <2>3, <2>4 DEF CheckOK, Enabled
<1> QED
  BY <1>1, <1>2 DEF ChecksOK

(* A step that is no commit's, but may have sent events and, in a check,   *)
(* written ctx.vm.                                                         *)
LEMMA CommitsKept ==
  ASSUME Types, CommitsOK,
         UNCHANGED <<device, route, active, mode, event, scan, astray, drives>>,
         \A v \in Workers : Busy(v)' <=> Busy(v),
         \A v \in Workers : Busy(v) => job'[v] = job[v],
         \A c \in Crtcs : armed'[c] => armed[c],
         \A c \in Crtcs : VmDone(c) => VmDone(c)'
  PROVE  CommitsOK'
<1>1. \A c : c \in InFlight' <=> c \in InFlight
  BY InFlightIs, InFlightNext
<1>2. Disjoint'
  BY DEF CommitsOK, Disjoint, Apart
<1>3. ASSUME NEW v \in Workers, Busy(v)' PROVE Own(v)'
  <2>1. Own(v) /\ job'[v] = job[v] /\ job[v].crtcs \subseteq Crtcs
    BY <1>3, BusyIs DEF CommitsOK, Jobs
  <2>2. Shape(v)'
    BY <2>1 DEF Own, Shape
  <2>3. Events(v)'
    BY <2>1, SameClasses DEF Own, Events
  <2>4. \A c \in job'[v].crtcs : ScanIs(v, c)'
    BY <2>1, SameClasses DEF Own, ScanIs, ScanDone
  <2>5. \A c \in job'[v].crtcs : RouteIs(v, c)'
    BY <2>1, SameClasses DEF Own, RouteIs, RouteDone
  <2>6. \A c \in job'[v].crtcs : VmIs(v, c)'
    BY <2>1 DEF Own, VmIs
  <2> QED
    BY <2>2, <2>3, <2>4, <2>5, <2>6 DEF Own
<1>4. \A c \in Crtcs \ InFlight' : Done(c)'
  BY <1>1 DEF CommitsOK, Done, ScanDone, RouteDone
<1> QED
  BY <1>2, <1>3, <1>4 DEF CommitsOK

(* A step of a commit touches its own crtcs.                               *)
Local(w) ==
  /\ UNCHANGED <<device, route, active, mode>>
  /\ \A v \in Workers \ {w} : job'[v] = job[v]
  /\ \A c \in Crtcs \ job[w].crtcs :
       /\ event'[c] = event[c] /\ armed'[c] = armed[c] /\ scan'[c] = scan[c]
       /\ vm'[c] = vm[c]
       /\ c \in fixed_up' <=> c \in fixed_up
       /\ c \in astray' <=> c \in astray
       /\ \A k \in Connectors : drives'[k] = c <=> drives[k] = c

LEMMA OthersStep ==
  ASSUME Types, CommitsOK, NEW w \in Workers, Busy(w), Local(w)
  PROVE  /\ \A v \in Workers \ {w} : Busy(v)' => Busy(v) /\ Own(v)'
         /\ \A c \in Crtcs \ (InFlight \cup job[w].crtcs) : Done(c)'
<1>1. ASSUME NEW v \in Workers, Busy(v), v # w
      PROVE  /\ job'[v] = job[v] /\ job[v] \in Jobs
             /\ \A c \in job[v].crtcs : c \in Crtcs \ job[w].crtcs
  BY <1>1, BusyIs DEF Local, CommitsOK, Disjoint, Apart, Jobs
<1>2. ASSUME NEW v \in Workers, Busy(v), v # w PROVE Own(v)'
  <2>1. Own(v)
    BY <1>2 DEF CommitsOK
  <2>2. Shape(v)'
    BY <1>1, <1>2, <2>1 DEF Own, Shape, Local
  <2>3. Events(v)'
    BY <1>1, <1>2, <2>1, SameClasses DEF Own, Events, Local
  <2>4. \A c \in job'[v].crtcs : ScanIs(v, c)'
    BY <1>1, <1>2, <2>1, SameClasses DEF Own, ScanIs, ScanDone, Local
  <2>5. \A c \in job'[v].crtcs : RouteIs(v, c)'
    BY <1>1, <1>2, <2>1, SameClasses DEF Own, RouteIs, RouteDone, Local
  <2>6. \A c \in job'[v].crtcs : VmIs(v, c)'
    BY <1>1, <1>2, <2>1 DEF Own, VmIs, VmDone, Enabled, Local
  <2> QED
    BY <2>2, <2>3, <2>4, <2>5, <2>6 DEF Own
<1>3. ASSUME NEW c \in Crtcs \ (InFlight \cup job[w].crtcs) PROVE Done(c)'
  <2>1. Done(c)
    BY DEF CommitsOK
  <2> QED
    BY <2>1 DEF Done, ScanDone, RouteDone, VmDone, Enabled, Local
<1>4. \A v \in Workers \ {w} : Busy(v)' <=> Busy(v)
  BY DEF Local, Busy
<1> QED
  BY <1>2, <1>3, <1>4

LEMMA LocalStep ==
  ASSUME Types, Types', CommitsOK, NEW w \in Workers, Busy(w), Local(w),
         Busy(w)', job'[w].crtcs = job[w].crtcs, job'[w].conns = job[w].conns, Own(w)'
  PROVE  CommitsOK'
<1>0. \A v \in Workers : /\ Busy(v)' <=> Busy(v)
                         /\ job'[v].crtcs = job[v].crtcs /\ job'[v].conns = job[v].conns
  BY DEF Local, Busy
<1>1. \A c : c \in InFlight' <=> c \in InFlight
  BY <1>0, InFlightIs, InFlightNext
<1>2. Disjoint'
  BY <1>0 DEF CommitsOK, Disjoint, Apart
<1>3. \A v \in Workers : Busy(v)' => Own(v)'
  BY OthersStep
<1>4. \A c \in Crtcs \ InFlight' : Done(c)'
  BY <1>1, OthersStep, InFlightIs
<1> QED
  BY <1>2, <1>3, <1>4 DEF CommitsOK

-----------------------------------------------------------------------------
(* What a step of a commit to its next phase leaves true of it.            *)
LEMMA GoesShape ==
  ASSUME Types, NEW w \in Workers, Goes(w), UNCHANGED <<route, active>>, Shape(w)
  PROVE  Shape(w)'
<1>1. /\ job[w].phase \in Phases \ {"planes"} /\ job'[w].phase = After[job[w].phase]
      /\ job'[w].crtcs = job[w].crtcs /\ job'[w].conns = job[w].conns
      /\ job'[w].flush = job[w].flush
      /\ job'[w].modeset = IF job'[w].phase = "planes" THEN {} ELSE job[w].modeset
      /\ IF job[w].phase = "set_mode"
         THEN /\ job'[w].mode_changed = {} /\ job'[w].old_active = {}
              /\ \A k \in Connectors : job'[w].old_route[k] = None
         ELSE /\ job'[w].mode_changed = job[w].mode_changed
              /\ job'[w].old_active = job[w].old_active /\ job'[w].old_route = job[w].old_route
  BY DEF Goes, Jobs
<1>2. /\ job'[w].phase \in Old => job[w].phase \in Old /\ job[w].phase # "set_mode"
                                  /\ job'[w].phase # "planes"
      /\ job'[w].phase \notin Unset => job[w].phase \notin Unset \/ job[w].phase = "set_mode"
      /\ job'[w].phase = "planes" => job[w].phase \in {"encoders_on", "crtcs_on"}
  BY <1>1, AfterIs DEF Old
<1>3. /\ job'[w].modeset \subseteq job'[w].crtcs /\ job'[w].flush \subseteq job'[w].crtcs
      /\ job'[w].old_active \subseteq job'[w].crtcs
  BY <1>1 DEF Shape
<1>4. job'[w].mode_changed \subseteq job'[w].modeset
  <2>1. CASE job'[w].phase = "planes"
    BY <1>1, <1>2, <2>1 DEF Shape, Unset, Old
  <2>2. CASE job'[w].phase # "planes"
    BY <1>1, <2>2 DEF Shape
  <2> QED
    BY <2>1, <2>2
<1>5. \A k \in Connectors :
       /\ job'[w].old_route[k] # None => job'[w].old_route[k] \in job'[w].crtcs /\ k \in job'[w].conns
       /\ route[k] \in job'[w].crtcs => k \in job'[w].conns
  BY <1>1 DEF Shape
<1>6. job'[w].phase \in Old => \A c \in job'[w].crtcs :
       /\ c \in job'[w].old_active => \E k \in Connectors : job'[w].old_route[k] = c
       /\ c \notin job'[w].modeset =>
            /\ c \in job'[w].old_active <=> active[c]
            /\ \A k \in Connectors : job'[w].old_route[k] = c <=> route[k] = c
  BY <1>1, <1>2 DEF Shape
<1>7. job'[w].phase \notin Unset => job'[w].mode_changed = {}
  BY <1>1, <1>2 DEF Shape
<1>8. \A c \in job'[w].crtcs : c \in job'[w].flush <=> active[c]
  BY <1>1 DEF Shape
<1> QED
  BY <1>1, <1>3, <1>4, <1>5, <1>6, <1>7, <1>8 DEF Shape

LEMMA ScanKept ==
  ASSUME Types, NEW w \in Workers, Goes(w), UNCHANGED <<device, active, mode>>,
         CrtcsStay(job[w].phase), NEW c \in job[w].crtcs, Shape(w),
         scan'[c] = scan[c], c \in astray' <=> c \in astray, ScanIs(w, c)
  PROVE  ScanIs(w, c)'
<1>1. /\ job[w].phase \in Phases \ {"planes"} /\ job'[w].phase = After[job[w].phase]
      /\ job'[w].phase \in Phases
      /\ job'[w].modeset = IF job'[w].phase = "planes" THEN {} ELSE job[w].modeset
      /\ job[w].phase = "set_mode" \/ job'[w].old_active = job[w].old_active
  BY DEF Goes, Jobs
<1>2. /\ job'[w].phase \in CrtcsOld <=> job[w].phase \in CrtcsOld
      /\ job'[w].phase \in CrtcsOff <=> job[w].phase \in CrtcsOff
      /\ job'[w].phase \in CrtcsNew <=> job[w].phase \in CrtcsNew
      /\ job[w].phase = "set_mode" => job[w].phase \notin CrtcsOld
      /\ job'[w].phase = "planes" => job'[w].phase \in CrtcsNew
      /\ job'[w].phase \in CrtcsNew => job'[w].phase \notin CrtcsOld \cup CrtcsOff
  BY <1>1, Steps, Classes DEF CrtcsStay
<1>3. ScanDone(c) => ScanDone(c)'
  BY DEF ScanDone
<1> QED
  BY <1>1, <1>2, <1>3, SameClasses DEF ScanIs

LEMMA RouteKept ==
  ASSUME Types, NEW w \in Workers, Goes(w), UNCHANGED <<device, route, active>>,
         RoutesStay(job[w].phase), NEW c \in job[w].crtcs, Shape(w),
         \A k \in Connectors : drives'[k] = c <=> drives[k] = c, RouteIs(w, c)
  PROVE  RouteIs(w, c)'
<1>1. /\ job[w].phase \in Phases \ {"planes"} /\ job'[w].phase = After[job[w].phase]
      /\ job'[w].phase \in Phases
      /\ job'[w].modeset = IF job'[w].phase = "planes" THEN {} ELSE job[w].modeset
      /\ \/ job[w].phase = "set_mode"
         \/ job'[w].old_active = job[w].old_active /\ job'[w].old_route = job[w].old_route
  BY DEF Goes, Jobs
<1>2. /\ job'[w].phase \in RoutesOld <=> job[w].phase \in RoutesOld
      /\ job'[w].phase \in RoutesOff <=> job[w].phase \in RoutesOff
      /\ job'[w].phase \in RoutesNew <=> job[w].phase \in RoutesNew
      /\ job[w].phase = "set_mode" => job[w].phase \notin RoutesOld
      /\ job'[w].phase = "planes" => job'[w].phase \in RoutesNew
      /\ job'[w].phase \in RoutesNew => job'[w].phase \notin RoutesOld \cup RoutesOff
  BY <1>1, Steps, Classes DEF RoutesStay
<1>3. RouteDone(c) => RouteDone(c)'
  BY DEF RouteDone
<1> QED
  BY <1>1, <1>2, <1>3, SameClasses DEF RouteIs

LEMMA EventsKept ==
  ASSUME Types, NEW w \in Workers, Goes(w), UNCHANGED <<device, active>>,
         CrtcsStay(job[w].phase), Events(w),
         \A c \in job[w].crtcs : event'[c] = event[c] /\ armed'[c] = armed[c],
         job[w].phase = "wait" => \A c \in job[w].crtcs : ~armed[c]
  PROVE  Events(w)'
<1>1. /\ job[w].phase \in Phases \ {"planes"} /\ job'[w].phase = After[job[w].phase]
      /\ job'[w].phase \in Phases /\ job'[w].crtcs = job[w].crtcs
      /\ job'[w].flush = job[w].flush
      /\ job'[w].modeset = IF job'[w].phase = "planes" THEN {} ELSE job[w].modeset
      /\ job[w].phase = "set_mode" \/ job'[w].old_active = job[w].old_active
  BY DEF Goes, Jobs
<1>2. /\ job'[w].phase \in CrtcsOld <=> job[w].phase \in CrtcsOld
      /\ job[w].phase = "set_mode" => job[w].phase \notin CrtcsOld
      /\ job'[w].phase = "planes" => job'[w].phase \notin CrtcsOld
  BY <1>1, Steps, Classes DEF CrtcsStay
<1> QED
  BY <1>1, <1>2, SameClasses DEF Events

LEMMA VmKept ==
  ASSUME NEW w \in Workers, Goes(w), job[w].phase # "set_mode",
         UNCHANGED <<route, mode, vm, fixed_up>>, NEW c, VmIs(w, c)
  PROVE  VmIs(w, c)'
BY DEF VmIs, VmDone, Goes, Enabled

LEMMA GoesStep ==
  ASSUME Types, Types', CommitsOK, NEW w \in Workers, Goes(w), Local(w), Events(w)',
         \A c \in job[w].crtcs : ScanIs(w, c)' /\ RouteIs(w, c)' /\ VmIs(w, c)'
  PROVE  CommitsOK'
<1>1. Busy(w) /\ Busy(w)' /\ job'[w].crtcs = job[w].crtcs /\ job'[w].conns = job[w].conns
  <2>1. job[w].phase \in Phases /\ job'[w].phase \in Phases
    BY DEF Goes, Jobs
  <2> QED
    BY <2>1 DEF Busy, Phases, Goes
<1>2. Own(w)
  BY <1>1 DEF CommitsOK
<1>3. Shape(w)'
  BY <1>2, GoesShape DEF Own, Local
<1> QED
  BY <1>1, <1>3, LocalStep DEF Own

-----------------------------------------------------------------------------
(* The steps of a commit, one after the other.                             *)
LEMMA StartStep ==
  ASSUME Types, Types', CommitsOK, NEW w \in Workers, Start(w)
  PROVE  CommitsOK'
<1>1. Goes(w) /\ Busy(w) /\ job[w].phase = "wait"
  BY GoerGoes DEF Goer, Start, Busy
<1>2. Own(w)
  BY <1>1 DEF CommitsOK
<1>3. /\ UNCHANGED <<device, route, active, mode, event, armed, scan, drives, vm, fixed_up, astray>>
      /\ \A c \in job[w].crtcs : ~armed[c]
  BY DEF Start, stateVars, eventVars, modeVars, hardVars
<1>4. Local(w)
  BY <1>1, <1>3 DEF Local, Goes
<1>5. CrtcsStay(job[w].phase) /\ RoutesStay(job[w].phase)
  BY <1>1, Steps
<1>6. Events(w)'
  BY <1>1, <1>2, <1>3, <1>5, EventsKept DEF Own
<1>7. ASSUME NEW c \in job[w].crtcs PROVE ScanIs(w, c)' /\ RouteIs(w, c)' /\ VmIs(w, c)'
  BY <1>1, <1>2, <1>3, <1>5, ScanKept, RouteKept, VmKept DEF Own
<1> QED
  BY <1>1, <1>4, <1>6, <1>7, GoesStep

LEMMA DisableCrtcsStep ==
  ASSUME Types, Types', CommitsOK, NEW w \in Workers, DisableCrtcs(w)
  PROVE  CommitsOK'
<1>1. Goes(w) /\ Busy(w) /\ job[w].phase = "crtcs_off"
  BY GoerGoes DEF Goer, DisableCrtcs, Busy
<1>2. Own(w) /\ job[w].crtcs \subseteq Crtcs
  BY <1>1 DEF CommitsOK, Goes, Jobs
<1>3. UNCHANGED <<device, route, active, mode, drives, vm, fixed_up>>
  BY DEF DisableCrtcs, stateVars, modeVars
<1>4. \A c \in Crtcs :
        IF c \in job[w].modeset /\ c \in job[w].old_active
        THEN ~event'[c] /\ ~armed'[c] /\ scan'[c] = Off
        ELSE /\ event'[c] = event[c] /\ armed'[c] = armed[c] /\ scan'[c] = scan[c]
             /\ c \in astray' <=> c \in astray
  BY DEF DisableCrtcs, mtgpu_crtc_atomic_disable, mtgpu_crtc_needs_disable, Cleared, Types
<1>5. Local(w)
  BY <1>1, <1>2, <1>3, <1>4 DEF Local, Goes, Own, Shape
<1>6. /\ job[w].phase \in CrtcsOld /\ job[w].phase \in Old /\ RoutesStay(job[w].phase)
      /\ job'[w].phase \in CrtcsOff /\ job'[w].phase # "wait" /\ job[w].phase # "set_mode"
      /\ job'[w].phase \notin CrtcsOld /\ job'[w].phase \notin CrtcsNew
      /\ job'[w].phase # "planes"
      /\ job'[w].modeset = job[w].modeset /\ job'[w].crtcs = job[w].crtcs
      /\ job'[w].flush = job[w].flush
  BY <1>1, Steps, Classes DEF Goes, Unset, Old, Jobs
<1>7. \A c \in job[w].crtcs :
        /\ ~(event[c] /\ armed[c])
        /\ event[c] => active[c] \/ c \in job[w].modeset \cap job[w].old_active
        /\ c \in job[w].flush <=> active[c]
  BY <1>1, <1>2, <1>6 DEF Own, Events, Shape
<1>8. Events(w)'
  BY <1>2, <1>4, <1>6, <1>7, SameClasses, <1>3 DEF Events
<1>9. ASSUME NEW c \in job[w].crtcs PROVE ScanIs(w, c)'
  <2>1. ScanIs(w, c) /\ c \in Crtcs
    BY <1>2 DEF Own
  <2>2. CASE c \in job[w].modeset
    <3>1. scan'[c] = Off
      BY <1>4, <1>6, <2>1, <2>2 DEF ScanIs
    <3> QED
      BY <1>3, <1>6, <2>2, <3>1, SameClasses DEF ScanIs
  <2>3. CASE c \notin job[w].modeset
    <3>1. ScanDone(c)'
      BY <1>3, <1>4, <2>1, <2>3 DEF ScanIs, ScanDone
    <3> QED
      BY <1>6, <2>3, <3>1 DEF ScanIs
  <2> QED
    BY <2>2, <2>3
<1>10. ASSUME NEW c \in job[w].crtcs PROVE RouteIs(w, c)' /\ VmIs(w, c)'
  BY <1>1, <1>2, <1>3, <1>6, RouteKept, VmKept DEF Own
<1> QED
  BY <1>1, <1>5, <1>8, <1>9, <1>10, GoesStep

LEMMA DisableEncodersStep ==
  ASSUME Types, Types', CommitsOK, NEW w \in Workers, DisableEncoders(w)
  PROVE  CommitsOK'
<1>1. Goes(w) /\ Busy(w) /\ job[w].phase = "encoders_off"
  BY GoerGoes DEF Goer, DisableEncoders, Busy
<1>2. Own(w) /\ job[w].crtcs \subseteq Crtcs
  BY <1>1 DEF CommitsOK, Goes, Jobs
<1>3. UNCHANGED <<device, route, active, mode, event, armed, scan, vm, fixed_up, astray>>
  BY DEF DisableEncoders, stateVars, eventVars, modeVars, hardVars
<1>4. \A k \in Connectors :
        drives'[k] = IF EncoderOff(w, k) THEN None ELSE drives[k]
  BY DEF DisableEncoders
<1>5. /\ job[w].phase \in RoutesOld /\ job[w].phase \in Old /\ CrtcsStay(job[w].phase)
      /\ job'[w].phase \in RoutesOff /\ job[w].phase # "set_mode" /\ job[w].phase # "wait"
      /\ job'[w].phase \notin RoutesOld /\ job'[w].phase \notin RoutesNew
      /\ job'[w].modeset = job[w].modeset
  BY <1>1, Steps, Classes DEF Goes, Unset, Old, Jobs
<1>6. \A k \in Connectors : EncoderOff(w, k) => drives[k] \in job[w].modeset
  BY <1>2, <1>5 DEF EncoderOff, mtgpu_crtc_needs_disable, Own, Shape, RouteIs
<1>7. \A k \in Connectors : drives[k] \in job[w].modeset => EncoderOff(w, k)
  BY <1>2, <1>5, CommitAssumption
     DEF EncoderOff, mtgpu_crtc_needs_disable, Own, Shape, RouteIs
<1>8. \A k \in Connectors : \A c \in Crtcs : c \notin job[w].modeset =>
        (drives'[k] = c <=> drives[k] = c)
  BY <1>4, <1>6, CommitAssumption
<1>9. Local(w)
  BY <1>1, <1>2, <1>3, <1>8 DEF Local, Goes, Own, Shape
<1>10. Events(w)'
  BY <1>1, <1>2, <1>3, <1>5, EventsKept DEF Own
<1>11. ASSUME NEW c \in job[w].crtcs PROVE ScanIs(w, c)' /\ VmIs(w, c)'
  BY <1>1, <1>2, <1>3, <1>5, ScanKept, VmKept DEF Own
<1>12. ASSUME NEW c \in job[w].crtcs PROVE RouteIs(w, c)'
  <2>1. CASE c \in job[w].modeset
    <3>1. \A k \in Connectors : drives'[k] # c
      BY <1>2, <1>4, <1>7, <2>1, CommitAssumption
    <3> QED
      BY <1>3, <1>5, <2>1, <3>1, SameClasses DEF RouteIs
  <2>2. CASE c \notin job[w].modeset
    <3>1. \A k \in Connectors : drives'[k] = c <=> drives[k] = c
      BY <1>2, <1>8, <2>2
    <3>2. \A k \in Connectors : drives[k] = c <=> route[k] = c /\ active[c]
      BY <1>2, <1>5, <2>2 DEF Own, Shape, RouteIs
    <3>3. RouteDone(c)'
      BY <1>3, <3>1, <3>2 DEF RouteDone
    <3> QED
      BY <1>3, <1>5, <2>2, <3>3, SameClasses DEF RouteIs
  <2> QED
    BY <2>1, <2>2
<1> QED
  BY <1>1, <1>9, <1>10, <1>11, <1>12, GoesStep

LEMMA SetModeStep ==
  ASSUME Types, Types', CommitsOK, ModesOK, NEW w \in Workers, SetMode(w)
  PROVE  CommitsOK'
<1>1. Goes(w) /\ Busy(w) /\ job[w].phase = "set_mode"
  BY GoerGoes DEF Goer, SetMode, Busy
<1>2. Own(w) /\ job[w].crtcs \subseteq Crtcs
  BY <1>1 DEF CommitsOK, Goes, Jobs
<1>3. UNCHANGED <<device, route, active, mode, event, armed, scan, drives, astray>>
  BY DEF SetMode, stateVars, eventVars, hardVars
<1>4. \A c \in Crtcs :
        IF c \in job[w].mode_changed /\ Enabled(route, c)
        THEN vm'[c] = mode[c] /\ c \notin fixed_up'
        ELSE vm'[c] = vm[c] /\ (c \in fixed_up' <=> c \in fixed_up)
  BY DEF SetMode, ModesSet, Types
<1>5. job[w].mode_changed \subseteq job[w].crtcs
  BY <1>2 DEF Own, Shape
<1>6. Local(w)
  BY <1>1, <1>3, <1>4, <1>5 DEF Local, Goes
<1>7. CrtcsStay(job[w].phase) /\ RoutesStay(job[w].phase)
  BY <1>1, Steps
<1>8. Events(w)'
  BY <1>1, <1>2, <1>3, <1>7, EventsKept DEF Own
<1>9. ASSUME NEW c \in job[w].crtcs PROVE ScanIs(w, c)' /\ RouteIs(w, c)'
  BY <1>1, <1>2, <1>3, <1>7, ScanKept, RouteKept DEF Own
<1>10. ASSUME NEW c \in job[w].crtcs PROVE VmIs(w, c)'
  <2>1. VmIs(w, c) /\ c \in Crtcs /\ ModeOK(c)
    BY <1>2 DEF Own, ModesOK
  <2>2. Enabled(route', c) <=> Enabled(route, c)
    BY <1>3
  <2>3. CASE c \in job[w].mode_changed
    BY <1>3, <1>4, <2>1, <2>2, <2>3 DEF VmIs, VmDone, ModeOK
  <2>4. CASE c \notin job[w].mode_changed
    BY <1>3, <1>4, <2>1, <2>2, <2>4 DEF VmIs, VmDone
  <2> QED
    BY <2>3, <2>4
<1> QED
  BY <1>1, <1>6, <1>8, <1>9, <1>10, GoesStep

LEMMA EnableEncodersStep ==
  ASSUME Types, Types', CommitsOK, NEW w \in Workers, EnableEncoders(w)
  PROVE  CommitsOK'
<1>1. Goes(w) /\ Busy(w) /\ job[w].phase = "encoders_on"
  BY GoerGoes DEF Goer, EnableEncoders, Busy
<1>2. Own(w) /\ job[w].crtcs \subseteq Crtcs
  BY <1>1 DEF CommitsOK, Goes, Jobs
<1>3. UNCHANGED <<device, route, active, mode, event, armed, scan, vm, fixed_up, astray>>
  BY DEF EnableEncoders, stateVars, eventVars, modeVars, hardVars
<1>4. \A k \in Connectors : drives'[k] = IF EncoderOn(w, k) THEN route[k] ELSE drives[k]
  BY DEF EnableEncoders
<1>5. /\ job[w].phase \in RoutesOff /\ CrtcsStay(job[w].phase)
      /\ job[w].phase # "set_mode" /\ job[w].phase # "wait"
      /\ job'[w].phase \in RoutesNew
      /\ job'[w].phase \notin RoutesOld /\ job'[w].phase \notin RoutesOff
  BY <1>1, Steps, Classes DEF Goes
<1>6. ASSUME NEW k \in Connectors, EncoderOn(w, k), NEW c \in Crtcs, drives[k] = c
      PROVE  c \in job[w].crtcs
  <2>1. route[k] \in job[w].crtcs /\ k \in job[w].conns
    BY <1>2, <1>6 DEF EncoderOn, Own, Shape
  <2>2. CASE c \notin InFlight
    <3>1. route[k] = c
      BY <1>6, <2>2 DEF CommitsOK, Done, RouteDone
    <3> QED
      BY <2>1, <3>1
  <2>3. CASE c \in InFlight
    <3>1. PICK v \in Workers : Busy(v) /\ c \in job[v].crtcs
      BY <2>3, InFlightIs
    <3>2. Shape(v) /\ RouteIs(v, c) /\ job[v].phase \in Phases
      BY <3>1, BusyIs DEF CommitsOK, Own
    <3>3. job[v].old_route[k] = c \/ route[k] = c
      BY <1>6, <3>2, Classes DEF RouteIs, RouteDone
    <3>4. k \in job[v].conns
      BY <3>1, <3>2, <3>3, CommitAssumption DEF Shape
    <3>5. v = w
      BY <1>1, <2>1, <3>1, <3>4 DEF CommitsOK, Disjoint, Apart
    <3> QED
      BY <3>1, <3>5
  <2> QED
    BY <2>2, <2>3
<1>7. Local(w)
  <2>1. \A k \in Connectors : EncoderOn(w, k) => route[k] \in job[w].crtcs
    BY <1>2 DEF EncoderOn, Own, Shape
  <2>2. ASSUME NEW c \in Crtcs \ job[w].crtcs, NEW k \in Connectors
        PROVE  drives'[k] = c <=> drives[k] = c
    BY <1>4, <1>6, <2>1
  <2> QED
    BY <1>1, <1>3, <2>2 DEF Local, Goes
<1>8. Events(w)'
  BY <1>1, <1>2, <1>3, <1>5, EventsKept DEF Own
<1>9. ASSUME NEW c \in job[w].crtcs PROVE ScanIs(w, c)' /\ VmIs(w, c)'
  BY <1>1, <1>2, <1>3, <1>5, ScanKept, VmKept DEF Own
<1>10. ASSUME NEW c \in job[w].crtcs PROVE RouteIs(w, c)'
  <2>1. RouteIs(w, c) /\ c \in Crtcs
    BY <1>2 DEF Own
  <2>2. CASE c \in job[w].modeset
    <3>1. ASSUME NEW k \in Connectors PROVE drives'[k] = c <=> route[k] = c /\ active[c]
      <4>1. drives[k] # c
        BY <1>5, <2>1, <2>2 DEF RouteIs
      <4>2. route[k] = c /\ active[c] => EncoderOn(w, k)
        BY <2>1, <2>2, CommitAssumption DEF EncoderOn
      <4> QED
        BY <1>4, <4>1, <4>2 DEF EncoderOn
    <3>2. RouteDone(c)'
      BY <1>3, <3>1 DEF RouteDone
    <3> QED
      BY <1>3, <1>5, <3>2, SameClasses DEF RouteIs
  <2>3. CASE c \notin job[w].modeset
    <3>1. RouteDone(c)
      BY <1>5, <2>1, <2>3 DEF RouteIs
    <3>2. \A k \in Connectors : drives'[k] = c <=> drives[k] = c
      BY <1>4, <2>3, <3>1 DEF EncoderOn, RouteDone
    <3>3. RouteDone(c)'
      BY <1>3, <3>1, <3>2 DEF RouteDone
    <3> QED
      BY <1>3, <1>5, <3>3, SameClasses DEF RouteIs
  <2> QED
    BY <2>2, <2>3
<1> QED
  BY <1>1, <1>7, <1>8, <1>9, <1>10, GoesStep

LEMMA EnableCrtcsStep ==
  ASSUME Types, Types', CommitsOK, ModesOK, NEW w \in Workers, EnableCrtcs(w)
  PROVE  CommitsOK'
<1>1. Goes(w) /\ Busy(w) /\ job[w].phase = "crtcs_on"
  BY GoerGoes DEF Goer, EnableCrtcs, Busy
<1>2. Own(w) /\ job[w].crtcs \subseteq Crtcs
  BY <1>1 DEF CommitsOK, Goes, Jobs
<1>3. UNCHANGED <<device, route, active, mode, event, armed, drives, vm, fixed_up>>
  BY DEF EnableCrtcs, stateVars, eventVars, modeVars
<1>4. \A c \in Crtcs :
        IF c \in job[w].modeset /\ active[c]
        THEN scan'[c] = vm[c] /\ (c \in astray' <=> c \in fixed_up)
        ELSE scan'[c] = scan[c] /\ (c \in astray' <=> c \in astray)
  BY DEF EnableCrtcs, mtgpu_crtc_atomic_enable, Types
<1>5. /\ job[w].phase \in CrtcsOff /\ job[w].phase \notin CrtcsOld /\ RoutesStay(job[w].phase)
      /\ job[w].phase \notin Unset /\ job[w].phase # "set_mode"
      /\ job'[w].phase \in CrtcsNew /\ job'[w].phase # "wait"
      /\ job'[w].phase \notin CrtcsOld /\ job'[w].phase \notin CrtcsOff
      /\ job'[w].crtcs = job[w].crtcs /\ job'[w].flush = job[w].flush
  <2>1. job[w].phase \in CrtcsOff /\ job'[w].phase \in CrtcsNew
    BY <1>1, Steps DEF Goes
  <2>2. job[w].phase \in Phases /\ job'[w].phase \in Phases \ Unset
    BY <1>1, Steps DEF Goes, Jobs
  <2> QED
    BY <1>1, <2>1, <2>2, Steps, Classes DEF Goes, Unset, Old
<1>6. Local(w)
  BY <1>1, <1>2, <1>3, <1>4 DEF Local, Goes, Own, Shape
<1>7. Events(w)'
  BY <1>1, <1>2, <1>3, <1>5, SameClasses DEF Own, Events
<1>8. ASSUME NEW c \in job[w].crtcs PROVE ScanIs(w, c)'
  <2>1. ModeOK(c) /\ ScanIs(w, c) /\ VmIs(w, c) /\ c \notin job[w].mode_changed
    BY <1>2, <1>5 DEF ModesOK, Own, Shape
  <2>2. VmDone(c) /\ c \in Crtcs
    BY <1>2, <2>1 DEF VmIs
  <2>3. CASE c \in job[w].modeset
    <3>1. scan[c] = Off
      BY <1>5, <2>1, <2>3 DEF ScanIs
    <3>2. scan'[c] # Off <=> active[c]
      BY <1>4, <2>1, <2>2, <2>3, <3>1 DEF ModeOK, VmDone
    <3>3. active[c] /\ c \notin astray' => scan'[c] = mode[c]
      BY <1>4, <2>1, <2>2, <2>3 DEF ModeOK, VmDone
    <3> QED
      BY <1>3, <1>5, <3>2, <3>3, SameClasses DEF ScanIs, ScanDone
  <2>4. CASE c \notin job[w].modeset
    <3>1. ScanDone(c)'
      BY <1>3, <1>4, <2>1, <2>2, <2>4 DEF ScanIs, ScanDone
    <3> QED
      BY <1>3, <1>5, <3>1, SameClasses DEF ScanIs
  <2> QED
    BY <2>3, <2>4
<1>9. ASSUME NEW c \in job[w].crtcs PROVE RouteIs(w, c)' /\ VmIs(w, c)'
  BY <1>1, <1>2, <1>3, <1>5, RouteKept, VmKept DEF Own
<1> QED
  BY <1>1, <1>6, <1>7, <1>8, <1>9, GoesStep

LEMMA FlushStep ==
  ASSUME Types, Types', CommitsOK, NEW w \in Workers, NEW d \in Crtcs,
         mtgpu_crtc_atomic_flush(w, d)
  PROVE  CommitsOK'
<1>1. /\ job[w] \in Jobs /\ job[w].phase = "planes" /\ d \in job[w].flush
      /\ job'[w] \in Jobs /\ job'[w].phase = "planes" /\ job'[w].crtcs = job[w].crtcs
      /\ job'[w].conns = job[w].conns /\ job'[w].modeset = job[w].modeset
      /\ job'[w].flush = job[w].flush \ {d} /\ job'[w].mode_changed = job[w].mode_changed
      /\ job'[w].old_active = job[w].old_active /\ job'[w].old_route = job[w].old_route
      /\ \A v \in Workers \ {w} : job'[v] = job[v]
  BY FlushDoes
<1>2. Busy(w) /\ Busy(w)'
  BY <1>1 DEF Busy
<1>3. Own(w)
  BY <1>2 DEF CommitsOK
<1>4. UNCHANGED <<device, route, active, mode, vm, fixed_up, scan, astray, drives>>
  BY DEF mtgpu_crtc_atomic_flush, stateVars, modeVars
<1>5. /\ ~event'[d]
      /\ \A c \in Crtcs \ {d} : event'[c] = event[c] /\ armed'[c] = armed[c]
  BY DEF mtgpu_crtc_atomic_flush, Types
<1>6. d \in job[w].crtcs /\ job[w].crtcs \subseteq Crtcs
  BY <1>1, <1>3 DEF Own, Shape, Jobs
<1>7. Local(w)
  BY <1>1, <1>4, <1>5, <1>6 DEF Local
<1>8. Shape(w)'
  BY <1>1, <1>3, <1>4 DEF Own, Shape, Old
<1>9. "planes" \notin CrtcsOld
  BY SudiType DEF CrtcsOld
<1>10. Events(w)'
  <2>1. ASSUME NEW c \in job[w].crtcs
        PROVE  ~(event'[c] /\ armed'[c]) /\ (event'[c] => c \in job'[w].flush)
    <3>1. CASE c = d
      BY <1>5, <3>1
    <3>2. CASE c # d
      BY <1>1, <1>3, <1>5, <1>6, <1>9, <2>1, <3>2 DEF Own, Events
    <3> QED
      BY <3>1, <3>2
  <2> QED
    BY <1>1, <1>4, <1>9, <2>1, SameClasses DEF Events
<1>11. \A c \in job'[w].crtcs : ScanIs(w, c)'
  BY <1>1, <1>3, <1>4, SameClasses DEF Own, ScanIs, ScanDone
<1>12. \A c \in job'[w].crtcs : RouteIs(w, c)'
  BY <1>1, <1>3, <1>4, SameClasses DEF Own, RouteIs, RouteDone
<1>13. \A c \in job'[w].crtcs : VmIs(w, c)'
  BY <1>1, <1>3, <1>4 DEF Own, VmIs, VmDone, Enabled
<1> QED
  BY <1>1, <1>2, <1>7, <1>8, <1>10, <1>11, <1>12, <1>13, LocalStep DEF Own

(* The end of a commit: its crtcs are as their states say.                 *)
LEMMA HwDoneStep ==
  ASSUME Types, Types', CommitsOK, NEW w \in Workers, HwDone(w)
  PROVE  CommitsOK'
<1>1. /\ Busy(w) /\ job[w].phase = "planes" /\ job[w].flush = {}
      /\ job[w].phase \in CrtcsNew /\ job[w].phase \in RoutesNew
      /\ job[w].phase \notin CrtcsOld /\ job[w].phase \notin Unset
  <2>1. Busy(w) /\ job[w].phase = "planes" /\ job[w].flush = {}
    BY DEF HwDone, Busy
  <2>2. "planes" \in Phases
    BY DEF Phases
  <2> QED
    BY <2>1, <2>2, Classes
<1>2. ~Busy(w)' /\ \A v \in Workers \ {w} : job'[v] = job[v] /\ (Busy(v)' <=> Busy(v))
  BY DEF HwDone, Types, Busy, NoJob
<1>3. UNCHANGED <<device, route, active, mode, event, armed, scan, drives, vm, fixed_up, astray>>
  BY DEF HwDone, stateVars, eventVars, modeVars, hardVars
<1>4. Local(w)
  BY <1>2, <1>3 DEF Local
<1>5. Own(w)
  BY <1>1 DEF CommitsOK
<1>6. ASSUME NEW c \in job[w].crtcs PROVE Done(c)'
  <2>1. ~event[c] /\ ScanDone(c) /\ RouteDone(c) /\ VmDone(c)
    BY <1>1, <1>5 DEF Own, Shape, Events, ScanIs, RouteIs, VmIs
  <2> QED
    BY <1>3, <2>1 DEF Done, ScanDone, RouteDone, VmDone, Enabled
<1>7. \A c : c \in InFlight => c \in InFlight' \/ c \in job[w].crtcs
  BY <1>2, InFlightIs, InFlightNext
<1>8. Disjoint'
  BY <1>2 DEF CommitsOK, Disjoint, Apart
<1>9. \A v \in Workers : Busy(v)' => Own(v)'
  BY <1>1, <1>2, <1>4, OthersStep
<1>10. \A c \in Crtcs \ InFlight' : Done(c)'
  BY <1>1, <1>4, <1>6, <1>7, OthersStep
<1> QED
  BY <1>8, <1>9, <1>10 DEF CommitsOK

-----------------------------------------------------------------------------
(* A commit begins with its crtcs as their old states say.                 *)
LEMMA SwapModes ==
  ASSUME Types, ModesOK, NEW w \in Workers, NEW S, NEW r, NEW a, NEW m,
         Asked(S, r, a, m), Carried(w, S, r, a, m)
  PROVE  ModesOK'
<1> SUFFICES ASSUME NEW c \in Crtcs PROVE ModeOK(c)'
  BY DEF ModesOK
<1>1. route' = r /\ active' = a /\ mode' = m
  BY DEF Carried
<1>2. Enabled(route', c) <=> Enabled(r, c)
  BY <1>1
<1>3. CASE c \in S
  BY <1>1, <1>2, <1>3 DEF Asked, ModeOK
<1>4. CASE c \notin S
  <2>1. Enabled(r, c) <=> Enabled(route, c)
    BY <1>4, CommitAssumption DEF Enabled, Asked
  <2>2. a[c] = active[c] /\ m[c] = mode[c]
    BY <1>4 DEF Asked
  <2> QED
    BY <1>1, <1>2, <2>1, <2>2 DEF ModesOK, ModeOK
<1> QED
  BY <1>3, <1>4

LEMMA SwapCommits ==
  ASSUME Types, Types', CommitsOK, ModesOK, NEW w \in Workers, ~Busy(w),
         NEW S, NEW r, NEW a, NEW m, Asked(S, r, a, m), Carried(w, S, r, a, m)
  PROVE  CommitsOK'
<1>1. UNCHANGED <<device, armed, scan, drives, vm, astray>>
  BY DEF Carried, hardVars
<1>2. /\ route' = r /\ active' = a /\ mode' = m
      /\ \A v \in Workers \ {w} : job'[v] = job[v] /\ (Busy(v)' <=> Busy(v))
      /\ job'[w] \in Jobs /\ job'[w].phase = "wait" /\ job'[w].crtcs = S
      /\ fixed_up' \subseteq fixed_up
  BY DEF Carried, Busy
<1>3. Busy(w)'
  BY <1>2 DEF Busy
<1>4. \A c : c \in InFlight' <=> c \in InFlight \/ c \in S
  BY <1>2, <1>3, InFlightIs, InFlightNext
<1>5. ASSUME NEW v \in Workers, Busy(v) PROVE Apart(v, w)' /\ Apart(w, v)'
  <2>1. v # w /\ job'[v] = job[v] /\ job[v] \in Jobs
    BY <1>2, <1>5, BusyIs
  <2>2. S \cap job[v].crtcs = {}
    BY <1>5 DEF Carried
  <2>3. \A k \in Connectors : k \in job'[w].conns => k \notin job[v].conns
    BY <1>5 DEF Carried
  <2>4. job'[w].conns \subseteq Connectors
    BY <1>2 DEF Jobs
  <2> QED
    BY <1>2, <2>1, <2>2, <2>3, <2>4 DEF Apart
<1>6. Disjoint'
  <2>1. ASSUME NEW u \in Workers, NEW v \in Workers, Busy(u)', Busy(v)', u # v
        PROVE  Apart(u, v)'
    <3>1. CASE u # w /\ v # w
      BY <1>2, <2>1, <3>1 DEF CommitsOK, Disjoint, Apart
    <3> QED
      BY <1>2, <1>5, <2>1, <3>1
  <2> QED
    BY <2>1 DEF Disjoint
<1>7. ASSUME NEW c \in Crtcs, c \notin S
      PROVE  /\ active'[c] = active[c] /\ mode'[c] = mode[c] /\ event'[c] = event[c]
             /\ \A k \in Connectors : route'[k] = c <=> route[k] = c
             /\ c \in fixed_up' <=> c \in fixed_up
             /\ Enabled(route', c) <=> Enabled(route, c)
  <2>1. active'[c] = active[c] /\ mode'[c] = mode[c] /\ event'[c] = event[c]
    BY <1>2, <1>7 DEF Asked, Carried
  <2>2. \A k \in Connectors : route'[k] = c <=> route[k] = c
    BY <1>2, <1>7, CommitAssumption DEF Asked
  <2>3. c \in fixed_up' <=> c \in fixed_up
    BY <1>2, <1>7 DEF Carried
  <2> QED
    BY <2>1, <2>2, <2>3 DEF Enabled
<1>8. ASSUME NEW v \in Workers, v # w, Busy(v)
      PROVE  Own(v)'
  <2>1. Own(v) /\ job'[v] = job[v] /\ job[v] \in Jobs
    BY <1>2, <1>8, BusyIs DEF CommitsOK
  <2>2. \A c \in job[v].crtcs : c \in Crtcs /\ c \notin S
    BY <1>8, <2>1 DEF Carried, Jobs
  <2>3. Shape(v)'
    BY <1>7, <2>1, <2>2 DEF Own, Shape
  <2>4. Events(v)'
    BY <1>1, <1>7, <2>1, <2>2, SameClasses DEF Own, Events
  <2>5. \A c \in job'[v].crtcs : ScanIs(v, c)'
    BY <1>1, <1>7, <2>1, <2>2, SameClasses DEF Own, ScanIs, ScanDone
  <2>6. \A c \in job'[v].crtcs : RouteIs(v, c)'
    BY <1>1, <1>7, <2>1, <2>2, SameClasses DEF Own, RouteIs, RouteDone
  <2>7. \A c \in job'[v].crtcs : VmIs(v, c)'
    BY <1>1, <1>7, <2>1, <2>2 DEF Own, VmIs, VmDone
  <2> QED
    BY <2>3, <2>4, <2>5, <2>6, <2>7 DEF Own
<1>9. S \subseteq Crtcs /\ \A c \in S : Done(c)
  <2>1. S \subseteq Crtcs
    BY DEF Asked
  <2>2. \A c \in S : c \notin InFlight
    BY InFlightIs DEF Carried
  <2> QED
    BY <2>1, <2>2 DEF CommitsOK
<1>10. /\ \A c \in Crtcs : /\ c \in job'[w].old_active <=> c \in S /\ active[c]
                           /\ c \in job'[w].flush <=> c \in S /\ a[c]
                           /\ c \in job'[w].mode_changed <=> c \in S /\ m[c] # mode[c]
       /\ \A k \in Connectors :
            job'[w].old_route[k] = IF route[k] \in S THEN route[k] ELSE None
       /\ \A c \in Crtcs : c \in job'[w].modeset => c \in S
       /\ \A c \in Crtcs : c \in S /\ m[c] # mode[c] => c \in job'[w].modeset
       /\ job'[w].old_active \subseteq Crtcs /\ job'[w].modeset \subseteq Crtcs
       /\ job'[w].flush \subseteq Crtcs /\ job'[w].mode_changed \subseteq Crtcs
  BY <1>2 DEF Carried, Jobs
<1>11. ASSUME NEW c \in S, c \notin job'[w].modeset
       PROVE  /\ a[c] = active[c] /\ m[c] = mode[c]
              /\ \A k \in Connectors : r[k] = c <=> route[k] = c
  BY <1>9, <1>11 DEF Carried
<1>12. \A k \in Connectors : \A c \in S : job'[w].old_route[k] = c <=> route[k] = c
  BY <1>9, <1>10, CommitAssumption
<1>13. /\ "wait" \in CrtcsOld /\ "wait" \notin CrtcsOff /\ "wait" \notin CrtcsNew
       /\ "wait" \in RoutesOld /\ "wait" \notin RoutesOff /\ "wait" \notin RoutesNew
       /\ "wait" \in Old
  <2>1. "wait" \in Phases
    BY DEF Phases
  <2> QED
    BY <2>1, Classes
<1>14. Shape(w)'
  <2>1. \A k \in Connectors :
          /\ job'[w].old_route[k] # None =>
               job'[w].old_route[k] \in S /\ k \in job'[w].conns
          /\ r[k] \in S => k \in job'[w].conns
    BY <1>10 DEF Carried
  <2>2. ASSUME NEW c \in S, c \in job'[w].old_active
        PROVE  \E k \in Connectors : job'[w].old_route[k] = c
    BY <1>9, <1>10, <1>12, <2>2 DEF ModesOK, ModeOK, Enabled
  <2>3. ASSUME NEW c \in S, c \notin job'[w].modeset
        PROVE  /\ c \in job'[w].old_active <=> a[c]
               /\ \A k \in Connectors : job'[w].old_route[k] = c <=> r[k] = c
    BY <1>9, <1>10, <1>11, <1>12, <2>3
  <2>4. /\ job'[w].modeset \subseteq S /\ job'[w].flush \subseteq S
        /\ job'[w].old_active \subseteq S /\ job'[w].mode_changed \subseteq job'[w].modeset
        /\ \A c \in S : c \in job'[w].flush <=> a[c]
    BY <1>9, <1>10
  <2> QED
    BY <1>2, <2>1, <2>2, <2>3, <2>4 DEF Shape, Unset, Old
<1>15. Events(w)'
  <2>1. ASSUME NEW c \in S, event'[c]
        PROVE  a[c] \/ c \in job'[w].modeset \cap job'[w].old_active
    <3>1. active[c] \/ a[c]
      BY <1>9, <2>1 DEF Carried
    <3>2. CASE a[c]
      BY <3>2
    <3>3. CASE ~a[c] /\ active[c]
      BY <1>9, <1>10, <1>11, <3>3
    <3> QED
      BY <3>1, <3>2, <3>3
  <2> QED
    BY <1>1, <1>2, <1>13, <2>1, SameClasses DEF Events
<1>16. ASSUME NEW c \in S PROVE ScanIs(w, c)'
  <2>1. ScanDone(c)
    BY <1>9 DEF Done
  <2>2. CASE c \in job'[w].modeset
    BY <1>1, <1>2, <1>9, <1>10, <1>13, <2>1, <2>2, SameClasses DEF ScanIs, ScanDone
  <2>3. CASE c \notin job'[w].modeset
    BY <1>1, <1>2, <1>11, <1>13, <2>1, <2>3, SameClasses DEF ScanIs, ScanDone
  <2> QED
    BY <2>2, <2>3
<1>17. ASSUME NEW c \in S PROVE RouteIs(w, c)'
  BY <1>1, <1>2, <1>9, <1>10, <1>12, <1>13, SameClasses DEF RouteIs, RouteDone, Done
<1>18. ASSUME NEW c \in S PROVE VmIs(w, c)'
  <2>1. SUFFICES ASSUME m[c] = mode[c], Enabled(r, c)
                 PROVE  vm[c] # Off /\ (c \notin fixed_up' => vm[c] = mode[c])
    BY <1>1, <1>2, <1>9, <1>10 DEF VmIs, VmDone
  <2>2. VmDone(c) /\ Enabled(route, c)
    BY <1>9, <2>1 DEF Done, Asked, ModesOK, ModeOK
  <2>3. c \in fixed_up /\ c \notin fixed_up' => vm[c] = mode[c]
    BY <1>9, <2>1 DEF Carried
  <2> QED
    BY <2>2, <2>3 DEF VmDone
<1>19. Own(w)'
  BY <1>2, <1>14, <1>15, <1>16, <1>17, <1>18 DEF Own
<1>20. \A c \in Crtcs \ InFlight' : Done(c)'
  <2>1. ASSUME NEW c \in Crtcs \ InFlight' PROVE Done(c)'
    <3>1. Done(c) /\ c \notin S
      BY <1>4 DEF CommitsOK
    <3> QED
      BY <1>1, <1>7, <3>1 DEF Done, ScanDone, RouteDone, VmDone
  <2> QED
    BY <2>1
<1>21. \A v \in Workers : Busy(v)' => Own(v)'
  BY <1>2, <1>8, <1>19
<1> QED
  BY <1>6, <1>20, <1>21 DEF CommitsOK

(* Other checks hold their own locks.                                      *)
LEMMA SwapChecks ==
  ASSUME Types, ModesOK, ChecksOK, NEW w \in Workers, SwapState(w)
  PROVE  ChecksOK'
<1>1. /\ Checked(w) /\ job[w] \in Checks
      /\ Asked(job[w].crtcs, route', active', mode')
      /\ Carried(w, job[w].crtcs, route', active', mode')
      /\ \A k \in Connectors : route'[k] # route[k] => k \in job[w].conns
  BY SwapDoes
<1>2. \A v \in Workers : Checked(v)' => v # w /\ Checked(v) /\ job'[v] = job[v]
  BY <1>1 DEF Carried, Checked
<1>3. UNCHANGED vm
  BY <1>1 DEF Carried
<1>4. ChecksApart'
  BY <1>2 DEF ChecksOK, ChecksApart, Apart
<1>5. ASSUME NEW v \in Workers, Checked(v)' PROVE CheckOK(v)'
  <2>1. /\ v # w /\ Checked(v) /\ job'[v] = job[v] /\ job[v] \in Checks
        /\ CheckOK(v) /\ Apart(v, w)
    BY <1>1, <1>2, <1>5, BusyIs DEF ChecksOK, ChecksApart
  <2>2. job[v].crtcs \subseteq Crtcs /\ \A c \in job[v].crtcs : c \in Crtcs \ job[w].crtcs
    BY <2>1 DEF Apart, Checks
  <2>3. \A c \in job[v].crtcs : mode'[c] = mode[c]
    BY <1>1, <2>2 DEF Asked
  <2>4. \A k \in Connectors : \A c \in job[v].crtcs : route'[k] = c <=> route[k] = c
    BY <1>1, <2>2, CommitAssumption DEF Asked
  <2>5. \A k \in Connectors : k \in job[v].conns => route'[k] = route[k]
    BY <1>1, <2>1 DEF Apart
  <2>6. ASSUME NEW k \in Connectors
        PROVE  /\ k \in job[v].conns <=> route'[k] \in job[v].crtcs \/ job[v].route[k] \in job[v].crtcs
               /\ job[v].route[k] # None =>
                    job[v].route[k] \in job[v].crtcs /\ route'[k] \in job[v].crtcs \cup {None}
    <3>1. /\ k \in job[v].conns <=> route[k] \in job[v].crtcs \/ job[v].route[k] \in job[v].crtcs
          /\ job[v].route[k] # None =>
               job[v].route[k] \in job[v].crtcs /\ route[k] \in job[v].crtcs \cup {None}
      BY <2>1 DEF CheckOK
    <3>2. route'[k] \in job[v].crtcs <=> route[k] \in job[v].crtcs
      BY <2>4
    <3> QED
      BY <2>5, <3>1, <3>2
  <2>7. FixedUp(job[v])' = FixedUp(job[v])
    BY <2>1, <2>3, <2>4 DEF FixedUp, ConnectorsChanged, ModeChanged, Enabled
  <2>8. \A c \in FixedUp(job[v]) : c \in job[v].crtcs
    BY DEF FixedUp, ConnectorsChanged, ModeChanged
  <2>9. \A c \in FixedUp(job[v])' : job[v].mode[c] = mode'[c] => vm'[c] = mode'[c]
    BY <1>3, <2>1, <2>3, <2>7, <2>8 DEF CheckOK
  <2>10. /\ \A c \in job[v].active : c \in job[v].crtcs /\ Enabled(job[v].route, c)
         /\ \A c \in Crtcs : job[v].mode[c] # Off <=> Enabled(job[v].route, c)
    BY <2>1 DEF CheckOK
  <2> QED
    BY <2>1, <2>6, <2>9, <2>10 DEF CheckOK
<1> QED
  BY <1>4, <1>5 DEF ChecksOK

LEMMA SwapStep ==
  ASSUME Types, Types', CommitsOK, ModesOK, ChecksOK, NEW w \in Workers, SwapState(w)
  PROVE  ModesOK' /\ ChecksOK' /\ CommitsOK'
<1>1. PICK S, r, a, m : ~Busy(w) /\ Asked(S, r, a, m) /\ Carried(w, S, r, a, m)
  BY SwapDoes
<1>2. ModesOK'
  BY <1>1, SwapModes
<1>3. CommitsOK'
  BY <1>1, SwapCommits
<1> QED
  BY <1>2, <1>3, SwapChecks

-----------------------------------------------------------------------------
(* A check leaves ctx.vm with modes of its own, and says so.               *)
LEMMA FixupDoes ==
  ASSUME Types, NEW j \in Checks, mtgpu_crtc_mode_fixup(j), NEW c \in Crtcs
  PROVE  /\ vm'[c] = IF c \in FixedUp(j) THEN j.mode[c] ELSE vm[c]
         /\ c \in fixed_up => c \in fixed_up'
         /\ c \in FixedUp(j) => /\ Enabled(j.route, c) /\ c \in j.crtcs
                                /\ Enabled(route, c) => c \in fixed_up'
BY DEF mtgpu_crtc_mode_fixup, FixedUp, ConnectorsChanged, ModeChanged

LEMMA CheckStep ==
  ASSUME Types, CommitsOK, ModesOK, ChecksOK, NEW w \in Workers, Check(w)
  PROVE  ModesOK' /\ ChecksOK' /\ CommitsOK'
<1>1. PICK j \in Checks :
         /\ job'[w] = j /\ mtgpu_crtc_mode_fixup(j)
         /\ \A v \in Workers : Checked(v) =>
              j.crtcs \cap job[v].crtcs = {} /\ j.conns \cap job[v].conns = {}
         /\ \A k \in Connectors :
              /\ k \in j.conns <=> route[k] \in j.crtcs \/ j.route[k] \in j.crtcs
              /\ j.route[k] # None => j.route[k] \in j.crtcs /\ route[k] \in j.crtcs \cup {None}
         /\ \A c \in j.active : c \in j.crtcs /\ Enabled(j.route, c)
         /\ \A c \in Crtcs : j.mode[c] # Off <=> Enabled(j.route, c)
  BY CheckDoes
<1>2. /\ ~Busy(w) /\ ~Checked(w)
      /\ \A v \in Workers \ {w} : job'[v] = job[v]
      /\ UNCHANGED <<device, route, active, mode, event, armed, scan, astray, drives>>
  BY CheckDoes DEF stateVars, eventVars, hardVars
<1>3. ~Busy(w)' /\ Checked(w)'
  BY <1>1 DEF Busy, Checked, Checks
<1>4. \A v \in Workers : Busy(v)' <=> Busy(v)
  BY <1>2, <1>3 DEF Busy
<1>5. \A v \in Workers : Checked(v)' <=> Checked(v) \/ v = w
  BY <1>2, <1>3 DEF Checked
<1>6. ASSUME NEW c \in Crtcs, VmDone(c) PROVE VmDone(c)'
  <2>1. Enabled(route', c) <=> Enabled(route, c)
    BY <1>2
  <2>2. CASE c \in FixedUp(j)
    <3>1. vm'[c] # Off /\ (Enabled(route, c) => c \in fixed_up')
      BY <1>1, <2>2, FixupDoes
    <3> QED
      BY <2>1, <3>1 DEF VmDone
  <2>3. CASE c \notin FixedUp(j)
    <3>1. vm'[c] = vm[c] /\ (c \in fixed_up => c \in fixed_up')
      BY <1>1, <2>3, FixupDoes
    <3> QED
      BY <1>2, <1>6, <2>1, <3>1 DEF VmDone
  <2> QED
    BY <2>2, <2>3
<1>7. CommitsOK'
  BY <1>2, <1>4, <1>6, CommitsKept
<1>8. ModesOK'
  BY <1>2, ModesKept
<1>9. ChecksApart'
  <2>1. ASSUME NEW u \in Workers, NEW v \in Workers, Checked(u)', Checked(v)', u # v
        PROVE  Apart(u, v)'
    <3>1. CASE u # w /\ v # w
      BY <1>2, <1>5, <2>1, <3>1 DEF ChecksOK, ChecksApart, Apart
    <3>2. CASE u = w
      BY <1>1, <1>2, <1>5, <2>1, <3>2 DEF Apart
    <3>3. CASE v = w
      BY <1>1, <1>2, <1>5, <2>1, <3>3 DEF Apart
    <3> QED
      BY <3>1, <3>2, <3>3
  <2> QED
    BY <2>1 DEF ChecksApart
<1>10. ASSUME NEW v \in Workers, Checked(v)' PROVE CheckOK(v)'
  <2>1. CASE v = w
    <3>1. FixedUp(j)' = FixedUp(j)
      BY <1>2 DEF FixedUp, ConnectorsChanged, ModeChanged, Enabled
    <3>2. FixedUp(j) \subseteq Crtcs
      BY DEF FixedUp, ConnectorsChanged, ModeChanged, Checks
    <3>3. \A c \in FixedUp(j) : j.mode[c] = mode[c] => vm'[c] = mode[c]
      BY <1>1, <3>2, FixupDoes
    <3> QED
      BY <1>1, <1>2, <2>1, <3>1, <3>3 DEF CheckOK, Enabled
  <2>2. CASE v # w
    <3>1. /\ Checked(v) /\ CheckOK(v) /\ job'[v] = job[v] /\ job[v] \in Checks
          /\ j.crtcs \cap job[v].crtcs = {}
      BY <1>1, <1>2, <1>5, <1>10, <2>2, BusyIs DEF ChecksOK
    <3>2. FixedUp(job[v])' = FixedUp(job[v])
      BY <1>2, <3>1 DEF FixedUp, ConnectorsChanged, ModeChanged, Enabled
    <3>3. \A c \in FixedUp(job[v]) : c \in job[v].crtcs /\ c \in Crtcs
      BY <3>1 DEF FixedUp, ConnectorsChanged, ModeChanged, Checks
    <3>4. \A c \in FixedUp(job[v]) : vm'[c] = vm[c]
      BY <1>1, <3>1, <3>3, FixupDoes
    <3> QED
      BY <1>2, <3>1, <3>2, <3>4 DEF CheckOK, Enabled
  <2> QED
    BY <2>1, <2>2
<1> QED
  BY <1>7, <1>8, <1>9, <1>10 DEF ChecksOK

(* Steps that are no commit's own.                                         *)
LEMMA QuietStep ==
  ASSUME Types, CommitsOK, ModesOK, ChecksOK,
         \/ \E w \in Workers : Drop(w)
         \/ \E c \in Crtcs : Vsync(c) \/ mtgpu_dispc_isr(c) \/ mtgpu_crtc_disable_vblank(c)
         \/ UNCHANGED vars
  PROVE  ModesOK' /\ ChecksOK' /\ CommitsOK'
<1>1. /\ UNCHANGED <<device, route, active, mode, event, scan, astray, drives, vm, fixed_up>>
      /\ \A c \in Crtcs : armed'[c] => armed[c]
  <2>1. ASSUME NEW w \in Workers, Drop(w)
        PROVE  UNCHANGED <<device, stateVars, eventVars, modeVars, hardVars, drives>>
    BY <2>1 DEF Drop
  <2>2. ASSUME NEW c \in Crtcs, Vsync(c) \/ mtgpu_crtc_disable_vblank(c)
        PROVE  UNCHANGED <<device, stateVars, eventVars, modeVars, scan, astray, drives>>
    BY <2>2 DEF Vsync, mtgpu_crtc_disable_vblank
  <2>3. ASSUME NEW c \in Crtcs, mtgpu_dispc_isr(c)
        PROVE  /\ UNCHANGED <<device, stateVars, event, modeVars, scan, astray, drives>>
               /\ \A d \in Crtcs : armed'[d] => armed[d]
    BY <2>3 DEF mtgpu_dispc_isr, Types
  <2>4. CASE UNCHANGED vars
    BY <2>4 DEF vars, stateVars, eventVars, modeVars, hardVars
  <2> QED
    BY <2>1, <2>2, <2>3, <2>4 DEF stateVars, eventVars, modeVars, hardVars
<1>2. \A v \in Workers : job'[v] = job[v] \/ (Checked(v) /\ job'[v] = NoJob)
  BY DEF Drop, Vsync, mtgpu_dispc_isr, mtgpu_crtc_disable_vblank, vars, Types
<1>3. NoJob.phase = "idle"
  BY DEF NoJob
<1>4. \A v \in Workers : Busy(v) => ~Checked(v)
  BY BusyIs
<1>5. /\ \A v \in Workers : Busy(v)' <=> Busy(v)
      /\ \A v \in Workers : Busy(v) => job'[v] = job[v]
      /\ \A v \in Workers : Checked(v)' => Checked(v) /\ job'[v] = job[v]
  BY <1>2, <1>3, <1>4 DEF Busy, Checked
<1>6. \A c \in Crtcs : VmDone(c) => VmDone(c)'
  BY <1>1 DEF VmDone, Enabled
<1>7. CommitsOK'
  BY <1>1, <1>5, <1>6, CommitsKept
<1>8. ChecksOK'
  BY <1>1, <1>5, ChecksKept
<1> QED
  BY <1>1, <1>7, <1>8, ModesKept

LEMMA TailStep ==
  ASSUME Types, Types', CommitsOK, ModesOK, ChecksOK, NEW w \in Workers, Tail(w)
  PROVE  ModesOK' /\ ChecksOK' /\ CommitsOK'
<1>1. CommitsOK'
  BY StartStep, DisableCrtcsStep, DisableEncodersStep, SetModeStep, EnableEncodersStep,
     EnableCrtcsStep, FlushStep, HwDoneStep DEF Tail
<1>2. UNCHANGED <<route, active, mode>>
  BY DEF Tail, Start, DisableCrtcs, DisableEncoders, SetMode, EnableEncoders, EnableCrtcs,
     mtgpu_crtc_atomic_flush, HwDone, stateVars
<1>3. \A c \in Crtcs : vm'[c] = vm[c] \/ vm'[c] = mode[c]
  <2>1. CASE SetMode(w)
    BY <2>1 DEF SetMode
  <2>2. CASE ~SetMode(w)
    <3>1. UNCHANGED vm
      BY <2>2 DEF Tail, Start, DisableCrtcs, DisableEncoders, EnableEncoders, EnableCrtcs,
         mtgpu_crtc_atomic_flush, HwDone, modeVars
    <3> QED
      BY <3>1
  <2> QED
    BY <2>1, <2>2
<1>4. \A v \in Workers : Checked(v)' => Checked(v) /\ job'[v] = job[v]
  <2>1. \A v \in Workers \ {w} : job'[v] = job[v]
    <3>1. CASE Goer(w)
      BY <3>1, GoerGoes DEF Goes
    <3>2. CASE \E c \in Crtcs : mtgpu_crtc_atomic_flush(w, c)
      BY <3>2, FlushDoes
    <3>3. CASE HwDone(w)
      BY <3>3 DEF HwDone, Types
    <3> QED
      BY <3>1, <3>2, <3>3 DEF Tail, Goer
  <2>2. job'[w] \in Jobs \cup {NoJob}
    <3>1. CASE Goer(w)
      BY <3>1, GoerGoes DEF Goes
    <3>2. CASE \E c \in Crtcs : mtgpu_crtc_atomic_flush(w, c)
      BY <3>2, FlushDoes
    <3>3. CASE HwDone(w)
      BY <3>3 DEF HwDone, Types
    <3> QED
      BY <3>1, <3>2, <3>3 DEF Tail, Goer
  <2>3. ~Checked(w)'
    BY <2>2 DEF Checked, Jobs, Phases, NoJob
  <2> QED
    BY <2>1, <2>3 DEF Checked
<1>5. ModesOK'
  BY <1>2, ModesKept
<1>6. ChecksOK'
  BY <1>2, <1>3, <1>4, ChecksKept
<1> QED
  BY <1>1, <1>5, <1>6

LEMMA CommitsStep ==
  ASSUME Types, Types', CommitsOK, ModesOK, ChecksOK, [Next]_vars
  PROVE  ModesOK' /\ ChecksOK' /\ CommitsOK'
<1>1. ASSUME NEW w \in Workers, Check(w) \/ SwapState(w) \/ Tail(w)
      PROVE  ModesOK' /\ ChecksOK' /\ CommitsOK'
  BY <1>1, CheckStep, SwapStep, TailStep
<1> QED
  BY <1>1, QuietStep DEF Next

-----------------------------------------------------------------------------
(* Events and vblanks, crtc by crtc.                                       *)
Flips(c) == owed[c] = (IF event[c] THEN 1 ELSE 0) + (IF armed[c] THEN 1 ELSE 0)
Armable(c) == armed[c] => scan[c] # Off /\ vblank[c] /\ vsync[c]
Vblanking(c) == vblank[c] => scan[c] # Off

LEMMA VblankStep ==
  ASSUME Types, Types', CommitsOK, ModesOK, ChecksOK, [Next]_vars, NEW c \in Crtcs,
         Flips(c), Armable(c), Vblanking(c)
  PROVE  Flips(c)' /\ Armable(c)' /\ Vblanking(c)'
<1>1. ASSUME NEW w \in Workers, SwapState(w) PROVE Flips(c)' /\ Armable(c)' /\ Vblanking(c)'
  <2>1. PICK S, r, a, m : Asked(S, r, a, m) /\ Carried(w, S, r, a, m)
    BY <1>1, SwapDoes
  <2>2. UNCHANGED <<armed, scan, vblank, vsync>>
    BY <2>1 DEF Carried, hardVars
  <2>3. c \in S => ~event[c]
    BY <2>1, InFlightIs DEF Carried, CommitsOK, Done
  <2>4. /\ IF c \in S THEN event'[c] <=> active[c] \/ a[c] ELSE event'[c] = event[c]
        /\ owed'[c] = IF c \in S /\ (active[c] \/ a[c]) THEN owed[c] + 1 ELSE owed[c]
    BY <2>1 DEF Carried
  <2>5. Flips(c)'
    <3>1. CASE c \in S /\ (active[c] \/ a[c])
      <4>1. event'[c] /\ ~event[c] /\ armed'[c] = armed[c] /\ owed'[c] = owed[c] + 1
        BY <2>2, <2>3, <2>4, <3>1
      <4> QED
        BY <4>1 DEF Flips, Types
    <3>2. CASE c \in S /\ ~(active[c] \/ a[c])
      BY <2>2, <2>3, <2>4, <3>2 DEF Flips
    <3>3. CASE c \notin S
      BY <2>2, <2>4, <3>3 DEF Flips
    <3> QED
      BY <3>1, <3>2, <3>3
  <2> QED
    BY <2>2, <2>5 DEF Armable, Vblanking
<1>2. ASSUME NEW w \in Workers, DisableCrtcs(w) PROVE Flips(c)' /\ Armable(c)' /\ Vblanking(c)'
  <2>1. Busy(w) /\ Own(w) /\ job[w].phase = "crtcs_off"
    BY <1>2 DEF DisableCrtcs, Busy, CommitsOK
  <2> DEFINE C == {d \in job[w].modeset : mtgpu_crtc_needs_disable(w, d)}
  <2>2. mtgpu_crtc_atomic_disable(C)
    BY <1>2 DEF DisableCrtcs
  <2>3. CASE c \in C
    <3>1. c \in job[w].crtcs
      BY <2>1, <2>3 DEF Own, Shape
    <3>2. ~(event[c] /\ armed[c])
      BY <2>1, <3>1 DEF Own, Events
    <3>3. ~event'[c] /\ ~armed'[c] /\ ~vblank'[c]
      BY <2>2, <2>3 DEF mtgpu_crtc_atomic_disable, Cleared
    <3>4. owed'[c] = IF event[c] \/ armed[c] THEN owed[c] - 1 ELSE owed[c]
      BY <2>2, <2>3 DEF mtgpu_crtc_atomic_disable, Sent
    <3>5. owed'[c] = 0
      BY <3>2, <3>4 DEF Flips, Types
    <3> QED
      BY <3>3, <3>5 DEF Flips, Armable, Vblanking
  <2>4. CASE c \notin C
    <3>1. /\ event'[c] = event[c] /\ armed'[c] = armed[c] /\ vblank'[c] = vblank[c]
          /\ vsync'[c] = vsync[c] /\ scan'[c] = scan[c] /\ owed'[c] = owed[c]
      BY <2>2, <2>4 DEF mtgpu_crtc_atomic_disable, Cleared, Sent, Types
    <3> QED
      BY <3>1 DEF Flips, Armable, Vblanking
  <2> QED
    BY <2>3, <2>4
<1>3. ASSUME NEW w \in Workers, EnableCrtcs(w) PROVE Flips(c)' /\ Armable(c)' /\ Vblanking(c)'
  <2>1. ModeOK(c) /\ UNCHANGED <<event, armed, owed, vsync>>
    BY <1>3 DEF ModesOK, EnableCrtcs, mtgpu_crtc_atomic_enable, eventVars
  <2> DEFINE C == {d \in job[w].modeset : active[d]}
  <2>2. /\ scan'[c] = IF c \in C THEN vm[c] ELSE scan[c]
        /\ vblank'[c] = (vblank[c] \/ c \in C)
    BY <1>3 DEF EnableCrtcs, mtgpu_crtc_atomic_enable
  <2>3. ASSUME c \in C PROVE vm[c] # Off
    <3>1. Busy(w) /\ Own(w) /\ job[w].phase \notin Unset
      BY <1>3 DEF EnableCrtcs, Busy, CommitsOK, Unset, Old
    <3>2. c \in job[w].crtcs /\ c \notin job[w].mode_changed
      BY <2>3, <3>1 DEF Own, Shape
    <3>3. VmDone(c) /\ active[c]
      BY <2>3, <3>1, <3>2 DEF Own, VmIs
    <3> QED
      BY <2>1, <3>3 DEF VmDone, ModeOK
  <2>4. Flips(c)'
    BY <2>1 DEF Flips
  <2> HIDE DEF C
  <2>5. scan[c] # Off => scan'[c] # Off
    BY <2>2, <2>3
  <2>6. Vblanking(c)'
    BY <2>2, <2>3, <2>5 DEF Vblanking
  <2>7. armed'[c] => armed[c] /\ vsync'[c] = vsync[c] /\ (vblank[c] => vblank'[c])
    BY <2>1, <2>2
  <2>8. Armable(c)'
    BY <2>5, <2>7 DEF Armable
  <2> QED
    BY <2>4, <2>6, <2>8
<1>4. ASSUME NEW w \in Workers, NEW d \in Crtcs, mtgpu_crtc_atomic_flush(w, d)
      PROVE  Flips(c)' /\ Armable(c)' /\ Vblanking(c)'
  <2>1. Busy(w) /\ Own(w) /\ job[w].phase = "planes" /\ d \in job[w].crtcs
    <3>1. Busy(w) /\ job[w].phase = "planes" /\ d \in job[w].flush
      BY <1>4 DEF mtgpu_crtc_atomic_flush, Busy
    <3> QED
      BY <3>1 DEF CommitsOK, Own, Shape
  <2>2. ~(event[d] /\ armed[d])
    BY <2>1 DEF Own, Events
  <2>3. UNCHANGED <<scan, vblank>>
    BY <1>4 DEF mtgpu_crtc_atomic_flush
  <2>4. CASE c # d
    <3>1. /\ event'[c] = event[c] /\ armed'[c] = armed[c] /\ owed'[c] = owed[c]
          /\ vsync'[c] = vsync[c]
      BY <1>4, <2>4 DEF mtgpu_crtc_atomic_flush, Sent, Types
    <3> QED
      BY <2>3, <3>1 DEF Flips, Armable, Vblanking
  <2>5. CASE c = d
    <3>1. /\ ~event'[c] /\ armed'[c] = (armed[c] \/ (event[c] /\ vblank[c]))
          /\ vsync'[c] = (vsync[c] \/ (event[c] /\ vblank[c]))
          /\ owed'[c] = IF event[c] /\ ~vblank[c] THEN owed[c] - 1 ELSE owed[c]
      BY <1>4, <2>5 DEF mtgpu_crtc_atomic_flush, Sent, Types
    <3>2. Armable(c)' /\ Vblanking(c)'
      BY <2>3, <3>1 DEF Armable, Vblanking
    <3>3. Flips(c)'
      <4>1. CASE event[c] /\ vblank[c]
        <5>1. ~event'[c] /\ armed'[c] /\ ~armed[c] /\ owed'[c] = owed[c]
          BY <2>2, <2>5, <3>1, <4>1
        <5> QED
          BY <4>1, <5>1 DEF Flips
      <4>2. CASE event[c] /\ ~vblank[c]
        <5>1. ~event'[c] /\ ~armed'[c] /\ ~armed[c] /\ owed'[c] = owed[c] - 1
          BY <2>2, <2>5, <3>1, <4>2
        <5> QED
          BY <4>2, <5>1 DEF Flips
      <4>3. CASE ~event[c]
        <5>1. ~event'[c] /\ armed'[c] = armed[c] /\ owed'[c] = owed[c]
          BY <3>1, <4>3 DEF Types
        <5> QED
          BY <4>3, <5>1 DEF Flips
      <4> QED
        BY <4>1, <4>2, <4>3
    <3> QED
      BY <3>2, <3>3
  <2> QED
    BY <2>4, <2>5
<1>5. ASSUME NEW d \in Crtcs, mtgpu_dispc_isr(d) PROVE Flips(c)' /\ Armable(c)' /\ Vblanking(c)'
  <2>1. /\ UNCHANGED <<event, scan, vblank, vsync>>
        /\ armed'[c] = IF c = d THEN armed[c] /\ ~vsync[c] ELSE armed[c]
        /\ owed'[c] = IF c = d /\ armed[c] /\ vsync[c] THEN owed[c] - 1 ELSE owed[c]
    BY <1>5 DEF mtgpu_dispc_isr, Sent, Types
  <2>2. Flips(c)'
    <3>1. CASE c = d /\ armed[c] /\ vsync[c]
      BY <2>1, <3>1 DEF Flips, Types
    <3>2. CASE ~(c = d /\ armed[c] /\ vsync[c])
      BY <2>1, <3>2 DEF Flips, Types
    <3> QED
      BY <3>1, <3>2
  <2> QED
    BY <2>1, <2>2 DEF Armable, Vblanking
<1>6. ASSUME NEW d \in Crtcs, mtgpu_crtc_disable_vblank(d)
      PROVE  Flips(c)' /\ Armable(c)' /\ Vblanking(c)'
  <2>1. UNCHANGED <<event, armed, owed, scan, vblank>> /\ (vsync'[c] = vsync[c] \/ ~armed[c])
    BY <1>6 DEF mtgpu_crtc_disable_vblank, eventVars, Types
  <2> QED
    BY <2>1 DEF Flips, Armable, Vblanking
<1>7. ASSUME UNCHANGED <<event, armed, owed, scan, vblank, vsync>>
      PROVE  Flips(c)' /\ Armable(c)' /\ Vblanking(c)'
  BY <1>7 DEF Flips, Armable, Vblanking
<1>8. ASSUME NEW w \in Workers,
             \/ Start(w) \/ DisableEncoders(w) \/ SetMode(w) \/ EnableEncoders(w)
             \/ HwDone(w) \/ Check(w) \/ Drop(w)
      PROVE  UNCHANGED <<event, armed, owed, scan, vblank, vsync>>
  BY <1>8 DEF Start, DisableEncoders, SetMode, EnableEncoders, HwDone, Check, Drop,
     eventVars, hardVars
<1>9. ASSUME NEW d \in Crtcs, Vsync(d)
      PROVE  UNCHANGED <<event, armed, owed, scan, vblank, vsync>>
  BY <1>9 DEF Vsync, eventVars
<1>10. CASE UNCHANGED vars
  BY <1>7, <1>10 DEF vars, eventVars, hardVars
<1> QED
  BY <1>1, <1>2, <1>3, <1>4, <1>5, <1>6, <1>7, <1>8, <1>9, <1>10 DEF Next, Tail

-----------------------------------------------------------------------------
(* The invariant is inductive ...                                          *)
LEMMA IInvStep == IInv /\ [Next]_vars => IInv'
<1> SUFFICES ASSUME IInv, [Next]_vars PROVE IInv'
  OBVIOUS
<1>1. Types /\ CommitsOK /\ ModesOK /\ ChecksOK
  BY DEF IInv
<1>2. Types'
  BY <1>1, TypeStep
<1>3. ModesOK' /\ ChecksOK' /\ CommitsOK'
  BY <1>1, <1>2, CommitsStep
<1>4. ASSUME NEW c \in Crtcs PROVE Flips(c)' /\ Armable(c)' /\ Vblanking(c)'
  <2>1. Flips(c) /\ Armable(c) /\ Vblanking(c)
    BY DEF IInv, FlipsAccounted, ArmedGetsVblank, Vblanks, Flips, Armable, Vblanking
  <2> QED
    BY <1>1, <1>2, <2>1, VblankStep
<1>5. FlipsAccounted' /\ Vblanks' /\ ArmedGetsVblank'
  BY <1>4 DEF FlipsAccounted, ArmedGetsVblank, Vblanks, Flips, Armable, Vblanking
<1> QED
  BY <1>2, <1>3, <1>5 DEF IInv

(* ... and so holds of every reachable state.                              *)
LEMMA Invariance == Spec => []IInv
BY InitIInv, IInvStep, PTL DEF Spec

LEMMA IInvTypes == IInv => TypeOK
<1> SUFFICES ASSUME IInv PROVE TypeOK
  OBVIOUS
<1>1. Types
  BY DEF IInv
<1>2. \A c \in Crtcs : owed[c] \in -1 .. 2
  BY DEF IInv, FlipsAccounted
<1>3. owed \in [Crtcs -> -1 .. 2]
  BY <1>1, <1>2 DEF Types
<1> QED
  BY <1>1, <1>3 DEF Types, TypeOK

(* Between commits the hardware is as the states say, mode and all.        *)
LEMMA IInvReached == IInv => StateReached
BY DEF IInv, CommitsOK, Done, ScanDone, RouteDone, StateReached

(* A crtc of no commit, or of one that has reached both its crtcs and its  *)
(* encoders, has just the encoders of its connectors.                      *)
LEMMA DoneScans ==
  ASSUME IInv, NEW c \in Crtcs, ScanDone(c), RouteDone(c)
  PROVE  scan[c] # Off <=> \E k \in Connectors : drives[k] = c
<1>1. ASSUME scan[c] # Off PROVE \E k \in Connectors : drives[k] = c
  <2>1. active[c]
    BY <1>1 DEF ScanDone
  <2>2. PICK k \in Connectors : route[k] = c
    BY <2>1 DEF IInv, ModesOK, ModeOK, Enabled
  <2> QED
    BY <2>1, <2>2 DEF RouteDone
<1>2. ASSUME NEW k \in Connectors, drives[k] = c PROVE scan[c] # Off
  BY <1>2 DEF ScanDone, RouteDone
<1> QED
  BY <1>1, <1>2

(* Wherever the commit of a crtc is, the one that is switched off last and *)
(* on first is on whenever the other is.                                   *)
LEMMA IInvScans == IInv => ScansIntoEncoder
<1> SUFFICES ASSUME IInv PROVE ScansIntoEncoder
  OBVIOUS
<1>0. Types
  BY DEF IInv
<1> SUFFICES ASSUME NEW c \in Crtcs
             PROVE  /\ ~device.sudi104 /\ scan[c] # Off => \E k \in Connectors : drives[k] = c
                    /\ device.sudi104 => \A k \in Connectors : drives[k] = c => scan[c] # Off
  <2>1. \A k \in Connectors : drives[k] \in Crtcs \cup {None}
    BY <1>0 DEF Types
  <2> QED
    BY <2>1 DEF ScansIntoEncoder
<1>1. CASE c \notin InFlight
  BY <1>1, DoneScans DEF IInv, CommitsOK, Done
<1>2. CASE c \in InFlight
  <2>1. PICK w \in Workers : Busy(w) /\ c \in job[w].crtcs
    BY <1>2, InFlightIs
  <2>2. /\ Shape(w) /\ ScanIs(w, c) /\ RouteIs(w, c)
        /\ job[w].phase \in Phases /\ Types
    BY <1>0, <2>1, BusyIs DEF IInv, CommitsOK, Own
  <2>3. CASE ScanDone(c) /\ RouteDone(c)
    BY <2>3, DoneScans
  <2>4. CASE job[w].phase \in CrtcsOld /\ job[w].phase \in RoutesOld
    <3>1. scan[c] # Off <=> c \in job[w].old_active
      <4>1. job[w].phase \in Old
        BY <2>2, <2>4, Classes
      <4> QED
        BY <2>1, <2>2, <2>4, <4>1 DEF ScanIs, ScanDone, Shape
    <3>2. c \in job[w].old_active => \E k \in Connectors : job[w].old_route[k] = c
      BY <2>1, <2>2, <2>4, Classes DEF Shape
    <3>3. \A k \in Connectors : drives[k] = c <=> job[w].old_route[k] = c /\ c \in job[w].old_active
      BY <2>2, <2>4 DEF RouteIs
    <3> QED
      BY <3>1, <3>2, <3>3
  <2>5. CASE c \notin job[w].modeset /\ ~(job[w].phase \in CrtcsOld /\ job[w].phase \in RoutesOld)
    <3>1. ScanDone(c)
      BY <2>2, <2>5 DEF ScanIs
    <3>2. CASE job[w].phase \in RoutesOld
      <4>1. job[w].phase \in Old
        BY <2>2, <3>2, Classes
      <4>2. RouteDone(c)
        BY <2>1, <2>2, <2>5, <3>2, <4>1 DEF RouteIs, RouteDone, Shape
      <4> QED
        BY <2>3, <3>1, <4>2
    <3>3. CASE job[w].phase \notin RoutesOld
      <4>1. RouteDone(c)
        BY <2>2, <2>5, <3>3, Classes DEF RouteIs
      <4> QED
        BY <2>3, <3>1, <4>1
    <3> QED
      BY <3>2, <3>3
  <2>6. CASE c \in job[w].modeset /\ ~(job[w].phase \in CrtcsOld /\ job[w].phase \in RoutesOld)
    <3>1. CASE job[w].phase = "planes"
      BY <2>2, <2>6, <3>1 DEF Shape
    <3>2. CASE job[w].phase # "planes" /\ ~device.sudi104
      <4>1. job[w].phase \in CrtcsOff
        BY <2>2, <2>6, <3>2, Classes
      <4> QED
        BY <2>2, <2>6, <3>2, <4>1 DEF ScanIs
    <3>3. CASE job[w].phase # "planes" /\ device.sudi104
      <4>1. job[w].phase \in RoutesOff
        BY <2>2, <2>6, <3>3, Classes
      <4> QED
        BY <2>2, <2>6, <3>3, <4>1 DEF RouteIs
    <3> QED
      BY <2>2, <3>1, <3>2, <3>3, SudiType
  <2> QED
    BY <2>4, <2>5, <2>6
<1> QED
  BY <1>1, <1>2

-----------------------------------------------------------------------------
(* The variables have their types, the history of owed events included.    *)
THEOREM CommitTypes == Spec => []TypeOK
BY Invariance, IInvTypes, PTL

(* The event of every commit is sent once, whichever of atomic_disable,    *)
(* atomic_flush, vblank_off and the interrupt comes first.                 *)
THEOREM EventSentOnce == Spec => []FlipsAccounted
<1>1. IInv => FlipsAccounted
  BY DEF IInv
<1> QED
  BY <1>1, Invariance, PTL

(* An armed event belongs to a crtc that scans with its interrupt enabled. *)
THEOREM ArmedIsServed == Spec => []ArmedGetsVblank
<1>1. IInv => ArmedGetsVblank
  BY DEF IInv
<1> QED
  BY <1>1, Invariance, PTL

(* With the driver's helpers no crtc scans without an encoder; with those  *)
(* of Linux, on a SUDI104, no encoder is enabled for a crtc that does not  *)
(* scan.                                                                   *)
THEOREM ScanHasEncoder == Spec => []ScansIntoEncoder
BY Invariance, IInvScans, PTL

(* A crtc without a commit under way is as its state says, whatever checks *)
(* were dropped or wait; only its mode may be that of another commit, and  *)
(* only when that commit's check came before the enable (ctx.vm).          *)
THEOREM CommitsReachState == Spec => []StateReached
BY Invariance, IInvReached, PTL
=============================================================================
