------------------------ MODULE MoltNetIdentityProofs ------------------------
(***************************************************************************)
(* Theorems about MoltNetIdentity, for every number of profiles, network   *)
(* contexts, calls and windows.                                            *)
(***************************************************************************)
EXTENDS MoltNetIdentity, TLAPS

\* What EndIdentity() changes, typed.
EndTyped ==
  /\ ended \subseteq Ids /\ holds \subseteq Pairs
  /\ net_end \in [Ids -> {"none", "waiting", "reached", "timed_out"}]
  /\ current \in Ids \cup {NoId}

\* MoltNetRouting::EndIdentity() keeps the types, whoever calls it.
LEMMA EndIdentityTyped ==
  ASSUME TypeOK, NEW S \in SUBSET Ids, EndIdentity(S)
  PROVE  EndTyped'
BY DEF TypeOK, EndIdentity, EndTyped

\* Every reachable state is typed, and a call past the start of its routing
\* check has a profile (molt_net_window.cc, molt_net_routing.cc).
THEOREM TypeCorrect == Spec => [](TypeOK /\ CallHasProfile)
<1> USE DEF endVars, chainVars, windowVars, callVars, netVars, envVars
<1>1. Init => TypeOK /\ CallHasProfile
  <2>1. 0 \in 0..ForceRounds
    BY IdentityAssumption
  <2>2. ASSUME Init
        PROVE  /\ chain \in [Ids \X Enders -> {"idle", "posted", "waiting",
                                    "confirming", "closing", "done"}]
               /\ force_left \in [Ids \X Enders -> 0..ForceRounds]
               /\ ctx \in [Pairs -> {"none", "running", "ended"}]
    BY <2>1, <2>2 DEF Init
  <2>3. ASSUME Init
        PROVE  /\ window \in [Windows -> Ids \cup {NoId}]
               /\ phase \in [Requests -> {"unused", "retiring", "signalling",
                    "parental", "tor", "verifying", "verified", "unrouted",
                    "ok", "failed"}]
               /\ open_id \in [Requests -> Ids \cup {NoId}]
               /\ retiring \in [NewCalls -> SUBSET Ids]
               /\ signal_from \in [NewCalls -> Nat]
               /\ sent \in [Ids -> SUBSET Nat]
               /\ profile \in [Ids -> {"none", "live", "destroying", "gone"}]
               /\ net_end \in [Ids -> {"none", "waiting", "reached", "timed_out"}]
    BY <2>3 DEF Init
  <2>4. ASSUME Init
        PROVE  /\ ended = {} /\ watched = {} /\ holds = {} /\ confirmed = {}
               /\ destroy_posted = {} /\ pages = {} /\ queued = {}
               /\ current = NoId /\ epoch = 0
    BY <2>4 DEF Init
  <2>5. ASSUME Init
        PROVE  /\ switching \in BOOLEAN
               /\ settings_ok \in BOOLEAN /\ tor_running \in BOOLEAN
    BY <2>5 DEF Init
  <2>6. Init => TypeOK
    BY <2>2, <2>3, <2>4, <2>5 DEF TypeOK
  <2>7. ASSUME Init, NEW r \in Requests PROVE phase[r] = "unused"
    BY <2>7 DEF Init
  <2> QED BY <2>6, <2>7 DEF CallHasProfile
<1>2. TypeOK /\ CallHasProfile /\ [Next]_vars => TypeOK'
  <2> SUFFICES ASSUME TypeOK, CallHasProfile, [Next]_vars PROVE TypeOK'
    OBVIOUS
  <2>1. CASE OnSettingChanged
    <3>1. PICK S \in SUBSET Ids : EndForChangedSettings(S, "guard")
      BY <2>1 DEF OnSettingChanged, TypeOK
    <3>2. EndTyped'
      BY <3>1, EndIdentityTyped DEF EndForChangedSettings
    <3> QED BY <2>1, <3>1, <3>2 DEF OnSettingChanged, EndForChangedSettings,
            TypeOK, EndTyped
  <2>2. CASE TurnOff
    BY <2>2 DEF TurnOff, TypeOK
  <2>3. CASE NetworkServiceCrashes
    BY <2>3 DEF NetworkServiceCrashes, TypeOK
  <2>4. CASE TorStarts
    BY <2>4 DEF TorStarts, TypeOK
  <2>5. CASE TorAppliesNewnym
    BY <2>5 DEF TorAppliesNewnym, TypeOK
  <2>6. ASSUME NEW i \in Ids, EndMoltNetIdentityForMemory(i) PROVE TypeOK'
    <3>1. EndTyped'
      BY <2>6, EndIdentityTyped DEF EndMoltNetIdentityForMemory,
         EndForChangedSettings
    <3> QED BY <2>6, <3>1 DEF EndMoltNetIdentityForMemory,
            EndForChangedSettings, TypeOK,
            EndTyped
  <2>7. ASSUME NEW i \in Ids, NetworkEndDeadline(i) PROVE TypeOK'
    BY <2>7 DEF NetworkEndDeadline, TypeOK
  <2>8. ASSUME NEW i \in Ids, DestroyIfUnused(i) PROVE TypeOK'
    BY <2>8 DEF DestroyIfUnused, Destroy, TypeOK
  <2>9. ASSUME NEW i \in Ids, ProfileDestroyed(i) PROVE TypeOK'
    BY <2>9 DEF ProfileDestroyed, TypeOK
  <2>10. ASSUME NEW w \in Popups, NEW i \in Ids, OpensPopup(w, i)
         PROVE  TypeOK'
    BY <2>10 DEF OpensPopup, TypeOK
  <2>11. ASSUME NEW i \in Ids, NEW k \in Enders, CloseEndedIdentity(i, k)
         PROVE  TypeOK'
    <3>1. EndTyped'
      BY <2>11, EndIdentityTyped DEF CloseEndedIdentity, endVars, EndTyped,
         TypeOK
    <3> QED BY <2>11, <3>1 DEF CloseEndedIdentity, TypeOK, EndTyped
  <2>12. ASSUME NEW i \in Ids, NEW k \in Enders, StopPagesThenConfirmRefusal(i, k)
         PROVE  TypeOK'
    BY <2>12 DEF StopPagesThenConfirmRefusal, TypeOK
  <2>13. ASSUME NEW i \in Ids, NEW k \in Enders, RefusalConfirmed(i, k)
         PROVE  TypeOK'
    BY <2>13, IdentityAssumption DEF RefusalConfirmed, CloseEndedWindows,
       TypeOK
  <2>14. ASSUME NEW i \in Ids, NEW k \in Enders, RefusalGivesUp(i, k)
         PROVE  TypeOK'
    BY <2>14, IdentityAssumption DEF RefusalGivesUp, CloseEndedWindows, TypeOK
  <2>15. ASSUME NEW i \in Ids, NEW k \in Enders, ForceCloseRemainingWindows(i, k)
         PROVE  TypeOK'
    <3>1. CASE chain' = [chain EXCEPT ![<<i, k>>] = "done"] /\ UNCHANGED force_left
      BY <2>15, <3>1 DEF ForceCloseRemainingWindows, TypeOK
    <3>2. CASE /\ UNCHANGED chain /\ force_left[<<i, k>>] > 0
               /\ force_left' = [force_left EXCEPT ![<<i, k>>] = @ - 1]
      <4>1. force_left[<<i, k>>] \in 0..ForceRounds
        BY DEF TypeOK
      <4>2. force_left[<<i, k>>] - 1 \in 0..ForceRounds
        BY <3>2, <4>1, IdentityAssumption
      <4>3. force_left' \in [Ids \X Enders -> 0..ForceRounds]
        BY <3>2, <4>2 DEF TypeOK
      <4> QED BY <2>15, <3>2, <4>3 DEF ForceCloseRemainingWindows, TypeOK
    <3> QED BY <2>15, <3>1, <3>2 DEF ForceCloseRemainingWindows
  <2>16. ASSUME NEW i \in Ids, NEW c \in Contexts, Answered(i, c)
         PROVE  TypeOK'
    BY <2>16 DEF Answered, TypeOK
  <2>17. ASSUME NEW i \in Ids, NEW c \in Contexts, ContextStarts(i, c)
         PROVE  TypeOK'
    BY <2>17 DEF ContextStarts, TypeOK
  <2>18. ASSUME NEW i \in Ids, NEW c \in Contexts, ContextEnds(i, c)
         PROVE  TypeOK'
    BY <2>18 DEF ContextEnds, TypeOK
  <2>19. ASSUME NEW i \in Ids, NEW c \in Contexts, ContextCloses(i, c)
         PROVE  TypeOK'
    BY <2>19 DEF ContextCloses, TypeOK
  <2>20. ASSUME NEW i \in Ids, NEW c \in Contexts, RequestQueued(i, c)
         PROVE  TypeOK'
    <3>1. queued' \subseteq Pairs
      BY <2>20 DEF RequestQueued, TypeOK, Pairs
    <3> QED BY <2>20, <3>1 DEF RequestQueued, TypeOK
  <2>21. ASSUME NEW i \in Ids, NEW c \in Contexts, ContextHandles(i, c)
         PROVE  TypeOK'
    <3>1. CASE ctx[<<i, c>>] = "running"
      <4>1. sent[i] \cup {epoch} \in SUBSET Nat
        BY DEF TypeOK
      <4>2. sent' = [sent EXCEPT ![i] = sent[i] \cup {epoch}]
        BY <2>21, <3>1 DEF ContextHandles
      <4>3. sent' \in [Ids -> SUBSET Nat]
        BY <4>1, <4>2 DEF TypeOK
      <4> QED BY <2>21, <4>3 DEF ContextHandles, TypeOK
    <3>2. CASE ctx[<<i, c>>] # "running"
      BY <2>21, <3>2 DEF ContextHandles, TypeOK
    <3> QED BY <3>1, <3>2
  <2>22. ASSUME NEW w \in Windows, WindowCloses(w) PROVE TypeOK'
    BY <2>22 DEF WindowCloses, TypeOK
  <2>23. ASSUME NEW r \in Opens, Open(r) PROVE TypeOK'
    BY ZenonT(60), <2>23 DEF Open, OpenImpl, Fail, TypeOK
  <2>24. ASSUME NEW r \in Requests, OnParentalControls(r) PROVE TypeOK'
    BY ZenonT(60), <2>24 DEF OnParentalControls, Fail, TypeOK
  <2>25. ASSUME NEW r \in Requests, OnTorReady(r) PROVE TypeOK'
    <3>1. CASE OnTorReadyRefuses(r)
      BY <2>25, <3>1 DEF OnTorReady, OnTorReadyRefuses, Fail, TypeOK
    <3>2. ASSUME NEW i \in Ids, OnTorReadyIn(r, i) PROVE TypeOK'
      <4>1. CASE settings_ok /\ tor_running
        <5>1. /\ watched' = watched \cup {i}
              /\ open_id' = [open_id EXCEPT ![r] = i]
              /\ phase' = [phase EXCEPT ![r] = "verifying"]
              /\ UNCHANGED <<switching, destroy_posted>>
          BY <3>2, <4>1 DEF OnTorReadyIn
        <5>2. /\ current' = i /\ profile' = [profile EXCEPT ![i] = "live"]
              /\ UNCHANGED <<pages, ended, net_end, holds, chainVars, window,
                             retiring, signal_from, netVars, envVars>>
          BY <2>25, <3>2 DEF OnTorReady, OnTorReadyIn
        <5> QED BY <5>1, <5>2 DEF TypeOK
      <4>2. CASE ~(settings_ok /\ tor_running)
        BY <2>25, <3>2, <4>2 DEF OnTorReady, OnTorReadyIn, Fail, TypeOK
      <4> QED BY <4>1, <4>2
    <3> QED BY <2>25, <3>1, <3>2 DEF OnTorReady
  <2>26. ASSUME NEW r \in Requests, RoutingCheckAnswers(r) PROVE TypeOK'
    BY ZenonT(60), <2>26 DEF RoutingCheckAnswers, TypeOK
  <2>27. ASSUME NEW r \in Requests, OpenVerifiedWindow(r) PROVE TypeOK'
    BY ZenonT(60), <2>27 DEF OpenVerifiedWindow, OpenVerifiedRefuses,
       OpenVerifiedOpens, Fail, TypeOK, CallHasProfile
  <2>28. ASSUME NEW n \in NewCalls, NewIdentity(n) PROVE TypeOK'
    <3>1. EndTyped'
      BY <2>28, EndIdentityTyped DEF NewIdentity, NewIdentityBegins, endVars,
         EndTyped, TypeOK
    <3>2. CASE switching
      BY <2>28, <3>1, <3>2 DEF NewIdentity, TypeOK, EndTyped
    <3>3. CASE ~switching
      <4>1. NewIdentityBegins(n)
        BY <2>28, <3>3 DEF NewIdentity
      <4>2. retiring' \in [NewCalls -> SUBSET Ids]
        BY <4>1 DEF NewIdentityBegins, TypeOK
      <4>3. /\ phase' \in [Requests -> {"unused", "retiring", "signalling",
                 "parental", "tor", "verifying", "verified", "unrouted", "ok",
                 "failed"}]
            /\ switching' \in BOOLEAN
            /\ signal_from' \in [NewCalls -> Nat]
        BY ZenonT(60), <4>1 DEF NewIdentityBegins, SendNewIdentitySignal, TypeOK
      <4>4. chain' \in [Ids \X Enders -> {"idle", "posted", "waiting",
                          "confirming", "closing", "done"}]
        BY <4>1 DEF NewIdentityBegins, TypeOK
      <4> QED BY <2>28, <3>1, <4>2, <4>3, <4>4 DEF NewIdentity, TypeOK, EndTyped
    <3> QED BY <3>2, <3>3
  <2>29. ASSUME NEW n \in NewCalls, WaitForRetiredProfiles(n) PROVE TypeOK'
    BY ZenonT(60), <2>29 DEF WaitForRetiredProfiles,
       SendNewIdentitySignal, TypeOK
  <2>30. ASSUME NEW n \in NewCalls, RetireTimesOut(n) PROVE TypeOK'
    BY <2>30 DEF RetireTimesOut, Fail, TypeOK
  <2>31. ASSUME NEW n \in NewCalls, OnNewCircuits(n) PROVE TypeOK'
    BY <2>31 DEF OnNewCircuits, OpenImpl, Fail, TypeOK
  <2>32. CASE UNCHANGED vars
    BY <2>32 DEF vars, TypeOK
  <2> QED
    BY <2>1, <2>2, <2>3, <2>4, <2>5, <2>6, <2>7, <2>8, <2>9, <2>10, <2>11,
       <2>12, <2>13, <2>14, <2>15, <2>16, <2>17, <2>18, <2>19, <2>20, <2>21,
       <2>22, <2>23, <2>24, <2>25, <2>26, <2>27, <2>28, <2>29, <2>30, <2>31,
       <2>32
       DEF Next, EndStep, OpenStep, NewIdentityStep, NetworkStep
<1>3. TypeOK /\ CallHasProfile /\ [Next]_vars => CallHasProfile'
  <2> SUFFICES ASSUME TypeOK, CallHasProfile, [Next]_vars PROVE CallHasProfile'
    OBVIOUS
  <2>1. CASE UNCHANGED <<phase, open_id>>
    BY <2>1 DEF CallHasProfile
  <2>23. ASSUME NEW r \in Opens, Open(r) PROVE CallHasProfile'
    BY <2>23 DEF Open, OpenImpl, Fail, TypeOK, CallHasProfile
  <2>24. ASSUME NEW r \in Requests, OnParentalControls(r)
         PROVE  CallHasProfile'
    BY <2>24 DEF OnParentalControls, Fail, TypeOK, CallHasProfile
  <2>25. ASSUME NEW r \in Requests, OnTorReady(r) PROVE CallHasProfile'
    BY <2>25 DEF OnTorReady, OnTorReadyRefuses, OnTorReadyIn, Fail, TypeOK,
       CallHasProfile
  <2>26. ASSUME NEW r \in Requests, RoutingCheckAnswers(r)
         PROVE  CallHasProfile'
    BY <2>26 DEF RoutingCheckAnswers, TypeOK, CallHasProfile
  <2>27. ASSUME NEW r \in Requests, OpenVerifiedWindow(r)
         PROVE  CallHasProfile'
    BY <2>27 DEF OpenVerifiedWindow, OpenVerifiedRefuses, OpenVerifiedOpens,
       Fail, TypeOK, CallHasProfile
  <2>28. ASSUME NEW n \in NewCalls, NewIdentity(n) PROVE CallHasProfile'
    BY <2>28 DEF NewIdentity, NewIdentityBegins, SendNewIdentitySignal,
       TypeOK, CallHasProfile
  <2>29. ASSUME NEW n \in NewCalls, WaitForRetiredProfiles(n)
         PROVE  CallHasProfile'
    BY <2>29 DEF WaitForRetiredProfiles, SendNewIdentitySignal, TypeOK,
       CallHasProfile
  <2>30. ASSUME NEW n \in NewCalls, RetireTimesOut(n) PROVE CallHasProfile'
    BY <2>30 DEF RetireTimesOut, Fail, TypeOK, CallHasProfile
  <2>31. ASSUME NEW n \in NewCalls, OnNewCircuits(n) PROVE CallHasProfile'
    BY <2>31 DEF OnNewCircuits, OpenImpl, Fail, TypeOK, CallHasProfile
  <2>2. ASSUME NEW i \in Ids, NEW k \in Enders, EndStep(i, k)
        PROVE  CallHasProfile'
    BY <2>1, <2>2 DEF EndStep, CloseEndedIdentity,
       StopPagesThenConfirmRefusal, RefusalConfirmed, RefusalGivesUp,
       CloseEndedWindows, ForceCloseRemainingWindows
  <2>3. ASSUME NEW i \in Ids, NEW c \in Contexts, NetworkStep(i, c)
        PROVE  CallHasProfile'
    BY <2>1, <2>3 DEF NetworkStep, ContextStarts, ContextEnds, ContextCloses,
       RequestQueued, ContextHandles
  <2>4. CASE OnSettingChanged \/ TurnOff \/ NetworkServiceCrashes \/ TorStarts
               \/ TorAppliesNewnym \/ UNCHANGED vars
    BY <2>1, <2>4 DEF OnSettingChanged, EndForChangedSettings, TurnOff,
       NetworkServiceCrashes, TorStarts, TorAppliesNewnym, vars
  <2>5. ASSUME NEW i \in Ids,
               \/ EndMoltNetIdentityForMemory(i) \/ NetworkEndDeadline(i)
               \/ DestroyIfUnused(i) \/ ProfileDestroyed(i)
               \/ \E w \in Popups : OpensPopup(w, i)
               \/ \E c \in Contexts : Answered(i, c)
        PROVE  CallHasProfile'
    BY <2>1, <2>5 DEF EndMoltNetIdentityForMemory, EndForChangedSettings,
       NetworkEndDeadline, DestroyIfUnused, ProfileDestroyed, OpensPopup,
       Answered
  <2>6. ASSUME NEW w \in Windows, WindowCloses(w) PROVE CallHasProfile'
    BY <2>1, <2>6 DEF WindowCloses
  <2> QED
    BY <2>2, <2>3, <2>4, <2>5, <2>6, <2>23, <2>24, <2>25, <2>26, <2>27, <2>28,
       <2>29, <2>30, <2>31
       DEF Next, OpenStep, NewIdentityStep
<1> QED BY <1>1, <1>2, <1>3, PTL DEF Spec

-----------------------------------------------------------------------------
(* Profiles and their windows *)

\* MoltNetRouting::EndIdentity() on profiles that were made keeps the windows
\* and the current profile right.
LEMMA EndIdentityProfiles ==
  ASSUME TypeOK, ProfileInv, NEW S \in SUBSET Ids, EndIdentity(S),
         \A i \in S : profile[i] # "none", UNCHANGED <<profile, window>>
  PROVE  ProfileInv'
<1>1. /\ ended' = ended \cup S
      /\ current' = NoId \/ (current' = current /\ current \notin S)
      /\ current \in S \/ current' = current
  BY DEF EndIdentity
<1>2. CurrentInUse'
  BY <1>1 DEF ProfileInv, CurrentInUse
<1>3. WindowsOutlivedByProfile'
  BY DEF ProfileInv, WindowsOutlivedByProfile
<1>4. OneIdentity'
  BY <1>1 DEF ProfileInv, OneIdentity
<1> QED BY <1>2, <1>3, <1>4 DEF ProfileInv

\* DestroyIfUnused()'s body takes a profile no window uses.
LEMMA DestroyProfiles ==
  ASSUME TypeOK, ProfileInv, NEW i \in Ids, Destroy(i),
         UNCHANGED <<ended, window>>
  PROVE  ProfileInv'
<1>1. CASE Exists(i) /\ WindowsOf(i) = {}
  <2>1. /\ profile' = [profile EXCEPT ![i] = "destroying"]
        /\ current' = IF current = i THEN NoId ELSE current
    BY <1>1 DEF Destroy
  <2>2. \A w \in Windows : window[w] # i
    BY <1>1 DEF WindowsOf
  <2>3. CurrentInUse'
    BY <2>1 DEF ProfileInv, CurrentInUse, TypeOK
  <2>4. WindowsOutlivedByProfile'
    BY <2>1, <2>2 DEF ProfileInv, WindowsOutlivedByProfile, TypeOK
  <2>5. OneIdentity'
    BY <2>1, <2>2 DEF ProfileInv, OneIdentity, TypeOK
  <2> QED BY <2>3, <2>4, <2>5 DEF ProfileInv
<1>2. CASE ~(Exists(i) /\ WindowsOf(i) = {})
  <2>1. UNCHANGED <<profile, current>>
    BY <1>2 DEF Destroy
  <2> QED BY <2>1 DEF ProfileInv, CurrentInUse, WindowsOutlivedByProfile,
          OneIdentity
<1> QED BY <1>1, <1>2

\* GetOrCreateMoltNetProfile() makes a profile only when there is no current
\* one, and never one that has ended.
LEMMA OnTorReadyProfiles ==
  ASSUME TypeOK, ProfileInv, NEW r \in Requests, NEW i \in Ids,
         OnTorReadyIn(r, i), UNCHANGED <<ended, window>>
  PROVE  ProfileInv'
<1>1. /\ current = i \/ (current = NoId /\ profile[i] = "none")
      /\ current' = i /\ profile' = [profile EXCEPT ![i] = "live"]
  BY DEF OnTorReadyIn
<1>2. CurrentInUse'
  BY <1>1, IdentityAssumption DEF ProfileInv, CurrentInUse, TypeOK
<1>3. WindowsOutlivedByProfile'
  BY <1>1 DEF ProfileInv, WindowsOutlivedByProfile, TypeOK
<1>4. OneIdentity'
  BY <1>1 DEF ProfileInv, OneIdentity, TypeOK
<1> QED BY <1>2, <1>3, <1>4 DEF ProfileInv

\* No window outlives its profile, and two identities never have windows side
\* by side unless one has ended, however OpenImpl() and its callbacks, the
\* reaper and the ends of identities interleave.
THEOREM ProfileInvariant == Spec => []ProfileInv
<1> USE DEF endVars, chainVars, windowVars, callVars, netVars, envVars
<1>1. Init => ProfileInv
  BY DEF Init, ProfileInv, CurrentInUse, WindowsOutlivedByProfile, OneIdentity
<1>2. TypeOK /\ CallHasProfile /\ ProfileInv /\ [Next]_vars => ProfileInv'
  <2> SUFFICES ASSUME TypeOK, CallHasProfile, ProfileInv, [Next]_vars
               PROVE  ProfileInv'
    OBVIOUS
  <2>0. CASE UNCHANGED <<profile, current, ended, window>>
    BY <2>0 DEF ProfileInv, CurrentInUse, WindowsOutlivedByProfile, OneIdentity
  <2>1. CASE OnSettingChanged
    <3> DEFINE S == {i \in watched : settings_ok /\ Exists(i)
                                       /\ chain[<<i, "guard">>] = "idle"}
    <3>1. S \in SUBSET Ids /\ \A i \in S : profile[i] # "none"
      BY DEF TypeOK, Exists
    <3>2. EndIdentity(S) /\ UNCHANGED <<profile, window>>
      BY <2>1 DEF OnSettingChanged, EndForChangedSettings
    <3> HIDE DEF S
    <3> QED BY <3>1, <3>2, EndIdentityProfiles
  <2>2. CASE TurnOff \/ NetworkServiceCrashes \/ TorStarts
               \/ TorAppliesNewnym \/ UNCHANGED vars
    BY <2>0, <2>2 DEF TurnOff, NetworkServiceCrashes, TorStarts,
       TorAppliesNewnym, vars
  <2>3. ASSUME NEW i \in Ids, EndMoltNetIdentityForMemory(i)
        PROVE  ProfileInv'
    BY <2>3, EndIdentityProfiles DEF EndMoltNetIdentityForMemory,
       EndForChangedSettings, Exists
  <2>4. ASSUME NEW i \in Ids, NetworkEndDeadline(i) PROVE ProfileInv'
    BY <2>0, <2>4 DEF NetworkEndDeadline
  <2>5. ASSUME NEW i \in Ids, DestroyIfUnused(i) PROVE ProfileInv'
    BY <2>0, <2>5, DestroyProfiles DEF DestroyIfUnused
  <2>6. ASSUME NEW i \in Ids, ProfileDestroyed(i) PROVE ProfileInv'
    <3>1. /\ profile[i] = "destroying" /\ UNCHANGED <<current, ended, window>>
          /\ profile' = [profile EXCEPT ![i] = "gone"]
      BY <2>6 DEF ProfileDestroyed
    <3> QED BY <3>1 DEF ProfileInv, CurrentInUse, WindowsOutlivedByProfile,
            OneIdentity, TypeOK
  <2>7. ASSUME NEW w \in Popups, NEW i \in Ids, OpensPopup(w, i)
        PROVE  ProfileInv'
    <3>1. PICK v \in Windows : window[v] = i
      BY <2>7 DEF OpensPopup, WindowsOf
    <3>2. /\ UNCHANGED <<current, ended, profile>>
          /\ window' = [window EXCEPT ![w] = i]
      BY <2>7 DEF OpensPopup
    <3>3. profile[i] = "live" /\ i \in ended \cup {current}
      BY <3>1, IdentityAssumption DEF ProfileInv, WindowsOutlivedByProfile,
         OneIdentity
    <3> QED BY <3>2, <3>3 DEF ProfileInv, CurrentInUse,
            WindowsOutlivedByProfile, OneIdentity, TypeOK
  <2>8. ASSUME NEW i \in Ids, NEW k \in Enders, EndStep(i, k)
        PROVE  ProfileInv'
    <3>1. CASE CloseEndedIdentity(i, k)
      BY <2>0, <3>1, EndIdentityProfiles DEF CloseEndedIdentity, Exists
    <3> QED BY <2>0, <2>8, <3>1 DEF EndStep, StopPagesThenConfirmRefusal,
            RefusalConfirmed, RefusalGivesUp, CloseEndedWindows,
            ForceCloseRemainingWindows
  <2>9. ASSUME NEW i \in Ids, NEW c \in Contexts,
               Answered(i, c) \/ NetworkStep(i, c)
        PROVE  ProfileInv'
    BY <2>0, <2>9 DEF Answered, NetworkStep, ContextStarts, ContextEnds,
       ContextCloses, RequestQueued, ContextHandles
  <2>10. ASSUME NEW w \in Windows, WindowCloses(w) PROVE ProfileInv'
    <3>1. /\ UNCHANGED <<current, ended, profile>>
          /\ window' = [window EXCEPT ![w] = NoId]
      BY <2>10 DEF WindowCloses
    <3> QED BY <3>1 DEF ProfileInv, CurrentInUse, WindowsOutlivedByProfile,
            OneIdentity, TypeOK
  <2>11. ASSUME NEW r \in Requests, OpenStep(r) PROVE ProfileInv'
    <3>1. CASE OnTorReady(r)
      BY <2>0, <3>1, OnTorReadyProfiles DEF OnTorReady, OnTorReadyRefuses
    <3>2. CASE OpenVerifiedWindow(r) /\ OpenVerifiedOpens(r)
      <4>1. /\ open_id[r] \in Ids /\ current = open_id[r]
            /\ UNCHANGED <<current, ended, profile>>
            /\ window' = [window EXCEPT ![r] = open_id[r]]
        BY <3>2 DEF OpenVerifiedWindow, OpenVerifiedOpens, CallHasProfile
      <4>2. profile[open_id[r]] = "live"
        BY <4>1, IdentityAssumption DEF ProfileInv, CurrentInUse
      <4> QED BY <4>1, <4>2 DEF ProfileInv, CurrentInUse,
              WindowsOutlivedByProfile, OneIdentity, TypeOK
    <3> QED BY <2>0, <2>11, <3>1, <3>2 DEF OpenStep, OnParentalControls,
            RoutingCheckAnswers, OpenVerifiedWindow, OpenVerifiedRefuses
  <2>12. ASSUME NEW n \in NewCalls, NewIdentity(n) PROVE ProfileInv'
    <3>1. CASE switching
      BY <2>0, <2>12, <3>1 DEF NewIdentity
    <3>2. CASE ~switching
      <4>1. PICK S \in SUBSET Ids : EndIdentity(S) /\ \A i \in S : Exists(i)
        BY <2>12, <3>2 DEF NewIdentity, NewIdentityBegins
      <4> QED BY <2>12, <4>1, EndIdentityProfiles DEF NewIdentity, Exists
    <3> QED BY <3>1, <3>2
  <2>13. ASSUME NEW n \in NewCalls, NewIdentityStep(n) PROVE ProfileInv'
    BY <2>0, <2>13 DEF NewIdentityStep, WaitForRetiredProfiles,
       RetireTimesOut, OnNewCircuits
  <2>14. ASSUME NEW r \in Opens, Open(r) PROVE ProfileInv'
    BY <2>0, <2>14 DEF Open
  <2> QED BY <2>1, <2>2, <2>3, <2>4, <2>5, <2>6, <2>7, <2>8, <2>9, <2>10,
          <2>11, <2>12, <2>13, <2>14 DEF Next
<1> QED BY <1>1, <1>2, TypeCorrect, PTL DEF Spec

\* A window is never open in a profile that is being destroyed or is gone
\* (OpenVerifiedWindow(), DestroyIfUnused()).
THEOREM WindowsOutlived == Spec => []WindowsOutlivedByProfile
<1>1. ProfileInv => WindowsOutlivedByProfile
  BY DEF ProfileInv
<1> QED BY <1>1, ProfileInvariant, PTL

\* Windows of two identities that both still route are never open together
\* (GetOrCreateMoltNetProfile(), MoltNetRouting::EndIdentity()).
THEOREM IdentitiesApart == Spec => []OneIdentity
<1>1. ProfileInv => OneIdentity
  BY DEF ProfileInv
<1> QED BY <1>1, ProfileInvariant, PTL

-----------------------------------------------------------------------------
(* The end of an identity *)

\* MoltNetRouting::EndIdentity() waits for every running context of an
\* identity that ends, and for none when there is none, whoever calls it.
LEMMA EndIdentityEnds ==
  ASSUME TypeOK, EndInv, NEW S \in SUBSET Ids, EndIdentity(S),
         UNCHANGED <<ctx, confirmed>>,
         \A i \in Ids, k \in Enders :
           chain'[<<i, k>>] \in {"confirming", "closing"} =>
             chain'[<<i, k>>] = chain[<<i, k>>]
  PROVE  EndInv'
<1> DEFINE first == S \ ended
           asked == {x \in Pairs : x[1] \in first /\ ctx[x] # "none"}
<1>1. /\ ended' = ended \cup S /\ holds' = holds \cup asked
      /\ \A i \in Ids : net_end'[i] =
           IF i \notin first THEN net_end[i]
           ELSE IF \E x \in asked : x[1] = i THEN "waiting" ELSE "reached"
  BY DEF EndIdentity
<1>2. ASSUME NEW i \in Ids, NEW c \in Contexts
      PROVE  <<i, c>> \in asked <=> i \in first /\ ctx[<<i, c>>] # "none"
  BY DEF Pairs
<1>3. ASSUME NEW i \in first, net_end'[i] = "reached", NEW c \in Contexts
      PROVE  <<i, c>> \notin holds'
  <2>1. <<i, c>> \notin asked
    BY <1>1, <1>3
  <2> QED BY <1>1, <2>1 DEF EndInv, EndProgress
<1>4. EndProgress'
  <2> SUFFICES ASSUME NEW i \in Ids PROVE
        /\ net_end'[i] # "none" => i \in ended'
        /\ \A c \in Contexts : <<i, c>> \in holds' => i \in ended'
        /\ net_end'[i] = "reached" => \A c \in Contexts : <<i, c>> \notin holds'
        /\ \A k \in Enders : chain'[<<i, k>>] \in {"confirming", "closing"} =>
             net_end'[i] \in {"reached", "timed_out"}
    BY DEF EndProgress
  <2>1. CASE i \in first
    <3>1. /\ i \in ended' /\ i \notin ended
          /\ net_end'[i] \in {"waiting", "reached"} /\ net_end[i] = "none"
      BY <1>1, <2>1 DEF EndInv, EndProgress
    <3>2. \A k \in Enders : chain'[<<i, k>>] \notin {"confirming", "closing"}
      BY <3>1 DEF EndInv, EndProgress
    <3> QED BY <1>3, <2>1, <3>1, <3>2
  <2>2. CASE i \notin first
    <3>1. net_end'[i] = net_end[i]
      BY <1>1, <2>2
    <3>2. \A c \in Contexts : <<i, c>> \in holds' <=> <<i, c>> \in holds
      BY <1>1, <1>2, <2>2
    <3> HIDE DEF first, asked
    <3> QED BY <1>1, <3>1, <3>2 DEF EndInv, EndProgress
  <2> QED BY <2>1, <2>2
<1>5. EndReachesContexts'
  <2> SUFFICES ASSUME NEW i \in ended', NEW c \in Contexts,
                      ctx[<<i, c>>] = "running"
               PROVE  <<i, c>> \in holds'
    BY DEF EndReachesContexts
  <2>1. CASE i \in ended
    BY <1>1, <2>1 DEF EndInv, EndReachesContexts
  <2>2. CASE i \in first
    BY <1>1, <1>2, <2>2
  <2> QED BY <1>1, <2>1, <2>2
<1>6. (confirmed \subseteq ended)' /\ ConfirmedMeansRefusing'
  BY <1>1 DEF EndInv, ConfirmedMeansRefusing
<1> QED BY <1>4, <1>5, <1>6 DEF EndInv

\* From MoltNetRouting::EndIdentity() to NetworkContext::MoltEndIdentity(): a
\* running context of an ended identity is one whose answer is awaited, and
\* the stages of EndIdentityAndCloseWindows() come in their order, however
\* the browser and the network service interleave, crashes included.
THEOREM EndInvariant == Spec => []EndInv
<1> USE DEF endVars, chainVars, windowVars, callVars, netVars, envVars
<1>1. Init => EndInv
  BY DEF Init, EndInv, EndProgress, EndReachesContexts, ConfirmedMeansRefusing
<1>2. TypeOK /\ EndInv /\ [Next]_vars => EndInv'
  <2> SUFFICES ASSUME TypeOK, EndInv, [Next]_vars PROVE EndInv'
    OBVIOUS
  <2>0. CASE UNCHANGED <<ended, net_end, holds, chain, confirmed, ctx>>
    BY <2>0 DEF EndInv, EndProgress, EndReachesContexts, ConfirmedMeansRefusing
  <2>1. CASE OnSettingChanged
    <3> DEFINE S == {i \in watched : settings_ok /\ Exists(i)
                                       /\ chain[<<i, "guard">>] = "idle"}
    <3>1. S \in SUBSET Ids
      BY DEF TypeOK
    <3>2. /\ EndIdentity(S) /\ UNCHANGED <<ctx, confirmed>>
          /\ chain' = [x \in Ids \X Enders |->
               IF x[1] \in S /\ x[2] = "guard" THEN "posted" ELSE chain[x]]
      BY <2>1 DEF OnSettingChanged, EndForChangedSettings
    <3> HIDE DEF S
    <3>3. \A i \in Ids, k \in Enders :
            chain'[<<i, k>>] = "posted" \/ chain'[<<i, k>>] = chain[<<i, k>>]
      BY <3>2
    <3> QED BY <3>1, <3>2, <3>3, EndIdentityEnds
  <2>2. CASE NetworkServiceCrashes
    <3>1. /\ \A i \in Ids, c \in Contexts : ctx'[<<i, c>>] = "none"
          /\ UNCHANGED <<ended, net_end, holds, chain, confirmed>>
      BY <2>2 DEF NetworkServiceCrashes, Pairs
    <3>2. ended \subseteq Ids /\ confirmed \subseteq Ids
      BY DEF TypeOK
    <3> QED BY <3>1, <3>2 DEF EndInv, EndProgress, EndReachesContexts,
            ConfirmedMeansRefusing
  <2>3. CASE TurnOff \/ TorStarts \/ TorAppliesNewnym \/ UNCHANGED vars
    BY <2>0, <2>3 DEF TurnOff, TorStarts, TorAppliesNewnym, vars
  <2>4. ASSUME NEW i \in Ids, EndMoltNetIdentityForMemory(i) PROVE EndInv'
    <3>1. /\ EndIdentity({i}) /\ UNCHANGED <<ctx, confirmed>>
          /\ chain' = [x \in Ids \X Enders |->
               IF x[1] \in {i} /\ x[2] = "memory" THEN "posted" ELSE chain[x]]
      BY <2>4 DEF EndMoltNetIdentityForMemory, EndForChangedSettings
    <3>2. \A j \in Ids, k \in Enders :
            chain'[<<j, k>>] = "posted" \/ chain'[<<j, k>>] = chain[<<j, k>>]
      BY <3>1
    <3> QED BY <3>1, <3>2, EndIdentityEnds
  <2>5. ASSUME NEW i \in Ids, NetworkEndDeadline(i) PROVE EndInv'
    <3>1. /\ net_end[i] = "waiting"
          /\ net_end' = [net_end EXCEPT ![i] = "timed_out"]
          /\ UNCHANGED <<ended, holds, chain, confirmed, ctx>>
      BY <2>5 DEF NetworkEndDeadline
    <3>2. EndProgress'
      BY <3>1 DEF EndInv, EndProgress, TypeOK
    <3> QED BY <3>1, <3>2 DEF EndInv, EndReachesContexts, ConfirmedMeansRefusing
  <2>6. ASSUME NEW i \in Ids,
               \/ DestroyIfUnused(i) \/ ProfileDestroyed(i)
               \/ \E w \in Popups : OpensPopup(w, i)
        PROVE  EndInv'
    BY <2>0, <2>6 DEF DestroyIfUnused, ProfileDestroyed, OpensPopup
  <2>7. ASSUME NEW i \in Ids, NEW k \in Enders, CloseEndedIdentity(i, k)
        PROVE  EndInv'
    <3>1. /\ UNCHANGED <<ctx, confirmed>>
          /\ EndIdentity({i}) \/ UNCHANGED <<ended, net_end, holds>>
          /\ \/ chain' = [chain EXCEPT ![<<i, k>>] = "waiting"]
             \/ chain' = [chain EXCEPT ![<<i, k>>] = "done"]
      BY <2>7 DEF CloseEndedIdentity
    <3>2. \A j \in Ids, l \in Enders :
            \/ chain'[<<j, l>>] \in {"waiting", "done"}
            \/ chain'[<<j, l>>] = chain[<<j, l>>]
      BY <3>1 DEF TypeOK
    <3>3. CASE EndIdentity({i})
      BY <3>1, <3>2, <3>3, EndIdentityEnds
    <3>4. CASE UNCHANGED <<ended, net_end, holds>>
      BY <3>1, <3>2, <3>4 DEF EndInv, EndProgress, EndReachesContexts,
         ConfirmedMeansRefusing
    <3> QED BY <3>1, <3>3, <3>4
  <2>8. ASSUME NEW i \in Ids, NEW k \in Enders, StopPagesThenConfirmRefusal(i, k)
        PROVE  EndInv'
    <3>1. /\ net_end[i] \in {"reached", "timed_out"}
          /\ UNCHANGED <<ended, net_end, holds, confirmed, ctx>>
          /\ \A j \in Ids, l \in Enders :
               j = i \/ chain'[<<j, l>>] = chain[<<j, l>>]
      BY <2>8 DEF StopPagesThenConfirmRefusal, TypeOK
    <3> QED BY <3>1 DEF EndInv, EndProgress, EndReachesContexts,
            ConfirmedMeansRefusing
  <2>9. ASSUME NEW i \in Ids, NEW k \in Enders, chain[<<i, k>>] = "confirming",
               CloseEndedWindows(i, k), confirmed' \in {confirmed, confirmed \cup {i}},
               confirmed' # confirmed =>
                 \A c \in Contexts : ctx[<<i, c>>] # "running"
        PROVE  EndInv'
    <3>1. i \in ended /\ net_end[i] \in {"reached", "timed_out"}
      BY <2>9 DEF EndInv, EndProgress
    <3>2. /\ UNCHANGED <<ended, net_end, holds, ctx>>
          /\ \A j \in Ids, l \in Enders :
               j = i \/ chain'[<<j, l>>] = chain[<<j, l>>]
      BY <2>9 DEF CloseEndedWindows, TypeOK
    <3>3. EndProgress' /\ EndReachesContexts'
      BY <3>1, <3>2 DEF EndInv, EndProgress, EndReachesContexts
    <3>4. (confirmed \subseteq ended)' /\ ConfirmedMeansRefusing'
      BY <2>9, <3>1, <3>2 DEF EndInv, ConfirmedMeansRefusing
    <3> QED BY <3>3, <3>4 DEF EndInv
  <2>10. ASSUME NEW i \in Ids, NEW k \in Enders, RefusalConfirmed(i, k)
         PROVE  EndInv'
    BY <2>9, <2>10 DEF RefusalConfirmed
  <2>11. ASSUME NEW i \in Ids, NEW k \in Enders, RefusalGivesUp(i, k)
         PROVE  EndInv'
    BY <2>9, <2>11 DEF RefusalGivesUp
  <2>12. ASSUME NEW i \in Ids, NEW k \in Enders, ForceCloseRemainingWindows(i, k)
         PROVE  EndInv'
    <3>1. /\ UNCHANGED <<ended, net_end, holds, confirmed, ctx>>
          /\ \/ UNCHANGED chain
             \/ chain' = [chain EXCEPT ![<<i, k>>] = "done"]
      BY <2>12 DEF ForceCloseRemainingWindows
    <3>2. \A j \in Ids, l \in Enders :
            chain'[<<j, l>>] = "done" \/ chain'[<<j, l>>] = chain[<<j, l>>]
      BY <3>1 DEF TypeOK
    <3> QED BY <3>1, <3>2 DEF EndInv, EndProgress, EndReachesContexts,
            ConfirmedMeansRefusing
  <2>13. ASSUME NEW i \in Ids, NEW c \in Contexts, Answered(i, c)
         PROVE  EndInv'
    <3>1. /\ <<i, c>> \in holds /\ ctx[<<i, c>>] # "running"
          /\ holds' = holds \ {<<i, c>>}
          /\ UNCHANGED <<ended, chain, confirmed, ctx>>
          /\ \A j \in Ids : j # i => net_end'[j] = net_end[j]
          /\ \/ net_end'[i] = net_end[i]
             \/ net_end'[i] = "reached" /\ {x \in holds : x[1] = i} = {<<i, c>>}
      BY <2>13 DEF Answered, TypeOK
    <3>2. i \in ended
      BY <3>1 DEF EndInv, EndProgress
    <3>3. {x \in holds : x[1] = i} = {<<i, c>>} =>
            \A d \in Contexts : <<i, d>> \notin holds'
      BY <3>1
    <3>4. EndProgress'
      BY <3>1, <3>2, <3>3 DEF EndInv, EndProgress
    <3>5. EndReachesContexts' /\ (confirmed \subseteq ended)' /\ ConfirmedMeansRefusing'
      BY <3>1 DEF EndInv, EndReachesContexts, ConfirmedMeansRefusing
    <3> QED BY <3>4, <3>5 DEF EndInv
  <2>14. ASSUME NEW i \in Ids, NEW c \in Contexts, NetworkStep(i, c)
         PROVE  EndInv'
    <3>1. UNCHANGED <<ended, net_end, holds, chain, confirmed>>
      BY <2>14 DEF NetworkStep, ContextStarts, ContextEnds, ContextCloses,
         RequestQueued, ContextHandles
    <3>2. ASSUME NEW j \in Ids, NEW d \in Contexts, ctx'[<<j, d>>] = "running"
          PROVE  ctx[<<j, d>>] = "running" \/ j \notin ended
      <4>1. CASE ContextStarts(i, c)
        BY <3>2, <4>1 DEF ContextStarts, TypeOK, Pairs
      <4>2. CASE ContextEnds(i, c)
        BY <3>2, <4>2 DEF ContextEnds, TypeOK, Pairs
      <4>3. CASE ContextCloses(i, c)
        BY <3>2, <4>3 DEF ContextCloses, TypeOK, Pairs
      <4>4. CASE RequestQueued(i, c) \/ ContextHandles(i, c)
        BY <3>2, <4>4 DEF RequestQueued, ContextHandles
      <4> QED BY <2>14, <4>1, <4>2, <4>3, <4>4 DEF NetworkStep
    <3>3. ended \subseteq Ids /\ confirmed \subseteq Ids
      BY DEF TypeOK
    <3> QED BY <3>1, <3>2, <3>3 DEF EndInv, EndProgress, EndReachesContexts,
            ConfirmedMeansRefusing
  <2>15. ASSUME NEW w \in Windows, WindowCloses(w) PROVE EndInv'
    BY <2>0, <2>15 DEF WindowCloses
  <2>16. ASSUME NEW r \in Opens, Open(r) PROVE EndInv'
    BY <2>0, <2>16 DEF Open
  <2>17. ASSUME NEW r \in Requests, OpenStep(r) PROVE EndInv'
    BY <2>0, <2>17 DEF OpenStep, OnParentalControls, OnTorReady,
       RoutingCheckAnswers, OpenVerifiedWindow
  <2>18. ASSUME NEW n \in NewCalls, NewIdentity(n) PROVE EndInv'
    <3>1. CASE switching
      BY <2>0, <2>18, <3>1 DEF NewIdentity
    <3>2. CASE ~switching
      <4> DEFINE S == {i \in Ids : Exists(i)}
      <4>1. /\ EndIdentity(S) /\ UNCHANGED <<ctx, confirmed>>
            /\ chain' = [x \in Ids \X Enders |->
                 IF x[1] \in S /\ x[2] = n THEN "waiting" ELSE chain[x]]
        BY <2>18, <3>2 DEF NewIdentity, NewIdentityBegins
      <4>2. S \in SUBSET Ids
        OBVIOUS
      <4> HIDE DEF S
      <4>3. \A i \in Ids, k \in Enders :
              chain'[<<i, k>>] = "waiting" \/ chain'[<<i, k>>] = chain[<<i, k>>]
        BY <4>1
      <4> QED BY <4>1, <4>2, <4>3, EndIdentityEnds
    <3> QED BY <3>1, <3>2
  <2>19. ASSUME NEW n \in NewCalls, NewIdentityStep(n) PROVE EndInv'
    BY <2>0, <2>19 DEF NewIdentityStep, WaitForRetiredProfiles,
       RetireTimesOut, OnNewCircuits
  <2> QED BY <2>1, <2>2, <2>3, <2>4, <2>5, <2>6, <2>7, <2>8, <2>10, <2>11,
          <2>12, <2>13, <2>14, <2>15, <2>16, <2>17, <2>18, <2>19
          DEF Next, EndStep
<1> QED BY <1>1, <1>2, TypeCorrect, PTL DEF Spec

\* A context of an ended identity routes to Tor only while the browser waits
\* for its answer (ProxyConfigMonitor, NetworkContext::MoltEndIdentity()).
THEOREM EndReaches == Spec => []EndReachesContexts
<1>1. EndInv => EndReachesContexts
  BY DEF EndInv
<1> QED BY <1>1, EndInvariant, PTL

\* The pages of an ended identity are stopped after its network contexts, or
\* at the deadline of NetworkEnd (EndIdentityAndCloseWindows()).
THEOREM PagesStopLast == Spec => []PagesStopAfterNetwork
<1>1. TypeOK /\ EndInv => PagesStopAfterNetwork
  <2> SUFFICES ASSUME TypeOK, EndInv, NEW i \in Ids, NEW k \in Enders,
                      chain[<<i, k>>] \in {"confirming", "closing"},
                      net_end[i] # "timed_out", NEW c \in Contexts
               PROVE  ctx[<<i, c>>] # "running"
    BY DEF PagesStopAfterNetwork
  <2>1. net_end[i] = "reached"
    BY DEF EndInv, EndProgress
  <2>2. i \in ended /\ <<i, c>> \notin holds
    BY <2>1 DEF EndInv, EndProgress
  <2> QED BY <2>2 DEF EndInv, EndReachesContexts
<1> QED BY <1>1, EndInvariant, TypeCorrect, PTL

\* Once RefusalCheck has confirmed that an identity refuses, none of its
\* contexts ever routes to Tor again, although contexts are made later.
THEOREM ConfirmedRefuses == Spec => []ConfirmedMeansRefusing
<1>1. EndInv => ConfirmedMeansRefusing
  BY DEF EndInv
<1> QED BY <1>1, EndInvariant, PTL

-----------------------------------------------------------------------------
(* New Identity *)

\* The phases in which a New Identity lets no profile be made.
Exclusive == {"retiring", "signalling", "parental", "tor"}

\* A step of one Open() or New Identity call (OpenImpl() and the callbacks of
\* both) keeps the switch to one New Identity at a time, which nothing passes.
LEMMA CallSteps ==
  ASSUME TypeOK, SwitchInv, NEW r \in Requests, NEW p,
         phase' = [phase EXCEPT ![r] = p],
         UNCHANGED retiring, ended \subseteq ended',
         r \in NewCalls => UnderWay(r),
         r \notin NewCalls \/ p \notin {"ok", "failed"} => switching' = switching,
         r \in NewCalls => p # "retiring",
         r \in NewCalls /\ p \in {"signalling", "parental", "tor"} =>
           \A i \in Ids : ~Exists(i),
         \A i \in Ids : Exists(i)' =>
           Exists(i) \/ \A n \in NewCalls : phase'[n] \notin Exclusive
  PROVE  SwitchInv'
<1>1. ASSUME NEW n \in NewCalls, n # r PROVE phase'[n] = phase[n]
  BY <1>1 DEF TypeOK, Requests
<1>2. phase'[r] = p
  BY DEF TypeOK
<1>3. OneSwitch'
  <2> SUFFICES ASSUME NEW n \in NewCalls, UnderWay(n)'
               PROVE  switching' /\ \A m \in NewCalls : UnderWay(m)' => m = n
    BY DEF OneSwitch
  <2>1. \A m \in NewCalls : UnderWay(m)' => UnderWay(m)
    BY <1>1, <1>2 DEF UnderWay
  <2>2. switching /\ \A m \in NewCalls : UnderWay(m) => m = n
    BY <2>1 DEF SwitchInv, OneSwitch
  <2>3. r \in NewCalls => r = n /\ p \notin {"ok", "failed"}
    BY <1>2, <2>2 DEF UnderWay
  <2> QED BY <2>1, <2>2, <2>3
<1>4. RetiresAll'
  <2> SUFFICES ASSUME NEW n \in NewCalls
               PROVE  /\ retiring[n] \subseteq ended'
                      /\ phase'[n] = "retiring" =>
                           \A i \in Ids : Exists(i)' => i \in retiring[n]
    BY DEF RetiresAll
  <2>1. retiring[n] \subseteq ended'
    BY DEF SwitchInv, RetiresAll
  <2>2. CASE phase'[n] = "retiring"
    <3>1. phase[n] = "retiring"
      BY <1>1, <1>2, <2>2
    <3>2. \A i \in Ids : Exists(i)' => Exists(i)
      BY <2>2 DEF Exclusive
    <3> QED BY <2>1, <3>1, <3>2 DEF SwitchInv, RetiresAll
  <2> QED BY <2>1, <2>2
<1>5. SwitchIsExclusive'
  <2> SUFFICES ASSUME NEW n \in NewCalls, NEW i \in Ids,
                      phase'[n] \in {"signalling", "parental", "tor"}
               PROVE  ~Exists(i)'
    BY DEF SwitchIsExclusive
  <2>1. Exists(i)' => Exists(i)
    BY DEF Exclusive
  <2>2. ~Exists(i)
    BY <1>1, <1>2 DEF SwitchInv, SwitchIsExclusive
  <2> QED BY <2>1, <2>2
<1> QED BY <1>3, <1>4, <1>5 DEF SwitchInv

\* OnTorReady() in a profile it may have to make: for an ordinary Open() it is
\* reached only with no New Identity under way.
LEMMA OnTorReadySwitch ==
  ASSUME TypeOK, SwitchInv, NEW r \in Requests, NEW i \in Ids,
         OnTorReadyIn(r, i), UNCHANGED <<retiring, ended>>
  PROVE  SwitchInv'
<1>1. /\ phase[r] = "tor" /\ ~Interrupted(r)
      /\ profile' = [profile EXCEPT ![i] = "live"]
  BY DEF OnTorReadyIn
<1>2. PICK p \in {"verifying", "failed"} :
        /\ phase' = [phase EXCEPT ![r] = p]
        /\ p = "verifying" => switching' = switching
        /\ p = "failed" => switching' = (switching /\ r \notin NewCalls)
  <2>1. CASE settings_ok /\ tor_running
    BY <2>1 DEF OnTorReadyIn
  <2>2. CASE ~(settings_ok /\ tor_running)
    BY <2>2 DEF OnTorReadyIn, Fail
  <2> QED BY <2>1, <2>2
<1>3. \A n \in NewCalls : phase'[n] \notin Exclusive
  <2> SUFFICES ASSUME NEW n \in NewCalls PROVE phase'[n] \notin Exclusive
    OBVIOUS
  <2>1. CASE n = r
    BY <1>2, <2>1 DEF TypeOK, Exclusive
  <2>2. CASE n # r
    <3>1. phase'[n] = phase[n]
      BY <1>2, <2>2 DEF TypeOK, Requests
    <3>2. CASE UnderWay(n)
      <4>1. switching /\ \A m \in NewCalls : UnderWay(m) => m = n
        BY <3>2 DEF SwitchInv, OneSwitch
      <4>2. r \in NewCalls
        BY <1>1, <4>1 DEF Interrupted, Requests
      <4> QED BY <1>1, <2>2, <4>1, <4>2 DEF UnderWay
    <3> QED BY <3>1, <3>2 DEF UnderWay, Exclusive
  <2> QED BY <2>1, <2>2
<1>4. switching' = switching \/ (r \in NewCalls /\ p = "failed")
  BY <1>2 DEF TypeOK
<1>5. r \in NewCalls => UnderWay(r)
  BY <1>1 DEF UnderWay
<1> QED BY <1>2, <1>3, <1>4, <1>5, CallSteps

\* While a New Identity is between the end of the old profiles and its own
\* window's routing check, no profile is made and, from its NEWNYM on, none
\* exists: what ProfilesSwitchingIdentity() is for.
THEOREM SwitchInvariant == Spec => []SwitchInv
<1> USE DEF endVars, chainVars, windowVars, callVars, netVars, envVars
<1>1. Init => SwitchInv
  <2> SUFFICES ASSUME Init PROVE SwitchInv
    OBVIOUS
  <2>1. \A n \in NewCalls : phase[n] = "unused" /\ retiring[n] = {}
    BY DEF Init, Requests
  <2> QED BY <2>1 DEF SwitchInv, OneSwitch, UnderWay, RetiresAll,
          SwitchIsExclusive
<1>2. TypeOK /\ SwitchInv /\ [Next]_vars => SwitchInv'
  <2> SUFFICES ASSUME TypeOK, SwitchInv, [Next]_vars PROVE SwitchInv'
    OBVIOUS
  <2>0. ASSUME UNCHANGED <<phase, switching, retiring>>, ended \subseteq ended',
               \A i \in Ids : Exists(i)' => Exists(i)
        PROVE  SwitchInv'
    <3>1. OneSwitch'
      BY <2>0 DEF SwitchInv, OneSwitch, UnderWay
    <3> QED BY <2>0, <3>1 DEF SwitchInv, RetiresAll, SwitchIsExclusive
  <2>1. CASE OnSettingChanged
    BY <2>0, <2>1 DEF OnSettingChanged, EndForChangedSettings, EndIdentity,
       Exists
  <2>2. CASE TurnOff \/ NetworkServiceCrashes \/ TorStarts
               \/ TorAppliesNewnym \/ UNCHANGED vars
    BY <2>0, <2>2 DEF TurnOff, NetworkServiceCrashes, TorStarts,
       TorAppliesNewnym, vars, Exists
  <2>3. ASSUME NEW i \in Ids,
               EndMoltNetIdentityForMemory(i) \/ NetworkEndDeadline(i)
        PROVE  SwitchInv'
    BY <2>0, <2>3 DEF EndMoltNetIdentityForMemory, EndForChangedSettings,
       EndIdentity, NetworkEndDeadline, Exists
  <2>4. ASSUME NEW i \in Ids, DestroyIfUnused(i) PROVE SwitchInv'
    <3>1. \A j \in Ids : Exists(j)' => Exists(j)
      BY <2>4 DEF DestroyIfUnused, Destroy, Exists, TypeOK
    <3> QED BY <2>0, <2>4, <3>1 DEF DestroyIfUnused
  <2>5. ASSUME NEW i \in Ids, ProfileDestroyed(i) PROVE SwitchInv'
    <3>1. \A j \in Ids : Exists(j)' => Exists(j)
      BY <2>5 DEF ProfileDestroyed, Exists, TypeOK
    <3> QED BY <2>0, <2>5, <3>1 DEF ProfileDestroyed
  <2>6. ASSUME NEW w \in Popups, NEW i \in Ids, OpensPopup(w, i)
        PROVE  SwitchInv'
    BY <2>0, <2>6 DEF OpensPopup, Exists
  <2>7. ASSUME NEW i \in Ids, NEW k \in Enders, EndStep(i, k)
        PROVE  SwitchInv'
    BY <2>0, <2>7 DEF EndStep, CloseEndedIdentity, EndIdentity,
       StopPagesThenConfirmRefusal, RefusalConfirmed, RefusalGivesUp,
       CloseEndedWindows, ForceCloseRemainingWindows, Exists
  <2>8. ASSUME NEW i \in Ids, NEW c \in Contexts,
               Answered(i, c) \/ NetworkStep(i, c)
        PROVE  SwitchInv'
    BY <2>0, <2>8 DEF Answered, NetworkStep, ContextStarts, ContextEnds,
       ContextCloses, RequestQueued, ContextHandles, Exists
  <2>9. ASSUME NEW w \in Windows, WindowCloses(w) PROVE SwitchInv'
    BY <2>0, <2>9 DEF WindowCloses, Exists
  <2>10. ASSUME NEW r \in Requests, Fail(r), UNCHANGED <<retiring, ended, profile>>,
                r \in NewCalls => UnderWay(r)
         PROVE  SwitchInv'
    <3>1. phase' = [phase EXCEPT ![r] = "failed"]
      BY <2>10 DEF Fail
    <3>2. r \notin NewCalls => switching' = switching
      BY <2>10 DEF Fail, TypeOK
    <3> QED BY <2>10, <3>1, <3>2, CallSteps DEF Exists
  <2>11. ASSUME NEW r \in Opens, Open(r) PROVE SwitchInv'
    <3>1. r \in Requests /\ r \notin NewCalls
      BY IdentityAssumption DEF Requests
    <3>2. CASE Fail(r)
      BY <2>10, <2>11, <3>1, <3>2 DEF Open
    <3>3. CASE phase' = [phase EXCEPT ![r] = "parental"] /\ UNCHANGED switching
      BY <2>11, <3>1, <3>3, CallSteps DEF Open, Exists
    <3> QED BY <2>11, <3>2, <3>3 DEF Open, OpenImpl
  <2>12. ASSUME NEW r \in Requests, OnParentalControls(r) PROVE SwitchInv'
    <3>1. /\ r \in NewCalls => UnderWay(r)
          /\ r \in NewCalls => \A i \in Ids : ~Exists(i)
      BY <2>12 DEF OnParentalControls, UnderWay, SwitchInv, SwitchIsExclusive
    <3>2. CASE Fail(r)
      BY <2>10, <2>12, <3>1, <3>2 DEF OnParentalControls
    <3>3. CASE phase' = [phase EXCEPT ![r] = "tor"] /\ UNCHANGED switching
      BY <2>12, <3>1, <3>3, CallSteps DEF OnParentalControls, Exists
    <3> QED BY <2>12, <3>2, <3>3 DEF OnParentalControls
  <2>13. ASSUME NEW r \in Requests, OnTorReady(r) PROVE SwitchInv'
    <3>1. CASE OnTorReadyRefuses(r)
      BY <2>10, <2>13, <3>1 DEF OnTorReady, OnTorReadyRefuses, UnderWay
    <3>2. ASSUME NEW i \in Ids, OnTorReadyIn(r, i) PROVE SwitchInv'
      BY <2>13, <3>2, OnTorReadySwitch DEF OnTorReady
    <3> QED BY <2>13, <3>1, <3>2 DEF OnTorReady
  <2>14. ASSUME NEW r \in Requests, RoutingCheckAnswers(r) PROVE SwitchInv'
    <3>1. PICK p \in {"verified", "unrouted"} : phase' = [phase EXCEPT ![r] = p]
      BY <2>14 DEF RoutingCheckAnswers
    <3>2. UnderWay(r)
      BY <2>14 DEF RoutingCheckAnswers, UnderWay
    <3> QED BY <2>14, <3>1, <3>2, CallSteps DEF RoutingCheckAnswers, Exists
  <2>15. ASSUME NEW r \in Requests, OpenVerifiedWindow(r) PROVE SwitchInv'
    <3>1. UnderWay(r) /\ UNCHANGED <<retiring, ended, profile>>
      BY <2>15 DEF OpenVerifiedWindow, UnderWay
    <3>2. CASE OpenVerifiedRefuses(r)
      BY <2>10, <3>1, <3>2 DEF OpenVerifiedRefuses
    <3>3. CASE OpenVerifiedOpens(r)
      <4>1. phase' = [phase EXCEPT ![r] = "ok"]
        BY <3>3 DEF OpenVerifiedOpens
      <4>2. r \notin NewCalls => switching' = switching
        BY <3>3 DEF OpenVerifiedOpens, TypeOK
      <4> QED BY <3>1, <4>1, <4>2, CallSteps DEF Exists
    <3> QED BY <2>15, <3>2, <3>3 DEF OpenVerifiedWindow
  <2>16. ASSUME NEW n \in NewCalls, NewIdentity(n) PROVE SwitchInv'
    <3>1. CASE switching
      <4>1. /\ phase' = [phase EXCEPT ![n] = "failed"]
            /\ UNCHANGED <<switching, retiring, ended, profile>>
            /\ phase[n] = "unused"
        BY <2>16, <3>1 DEF NewIdentity
      <4>2. ASSUME NEW m \in NewCalls
            PROVE  phase'[m] = phase[m] \/ (m = n /\ phase'[m] = "failed")
        BY <4>1 DEF TypeOK, Requests
      <4>3. OneSwitch'
        BY <4>1, <4>2 DEF SwitchInv, OneSwitch, UnderWay
      <4> QED BY <4>1, <4>2, <4>3 DEF SwitchInv, RetiresAll,
              SwitchIsExclusive, Exists
    <3>2. CASE ~switching
      <4> DEFINE old == {i \in Ids : Exists(i)}
      <4>1. /\ phase[n] = "unused" /\ UNCHANGED profile
            /\ retiring' = [retiring EXCEPT ![n] = old]
            /\ ended' = ended \cup old
        BY <2>16, <3>2 DEF NewIdentity, NewIdentityBegins, EndIdentity
      <4>2. PICK p \in {"retiring", "signalling", "failed"} :
              /\ phase' = [phase EXCEPT ![n] = p]
              /\ p = "failed" \/ switching'
              /\ p = "signalling" => old = {}
        BY <2>16, <3>2 DEF NewIdentity, NewIdentityBegins, SendNewIdentitySignal
      <4>3. /\ \A m \in NewCalls : ~UnderWay(m)
            /\ \A m \in NewCalls : UnderWay(m)' => m = n
        BY <3>2, <4>2 DEF SwitchInv, OneSwitch, UnderWay, TypeOK, Requests
      <4>4. phase'[n] = p /\ retiring'[n] = old
        BY <4>1, <4>2 DEF TypeOK, Requests
      <4>5. OneSwitch'
        BY <4>2, <4>3, <4>4 DEF OneSwitch, UnderWay
      <4>6. \A m \in NewCalls : m # n => retiring'[m] = retiring[m]
        BY <4>1 DEF TypeOK
      <4>7. \A m \in NewCalls : phase'[m] \in Exclusive => m = n
        BY <4>3 DEF UnderWay, Exclusive
      <4>8. RetiresAll'
        BY <4>1, <4>4, <4>6, <4>7 DEF SwitchInv, RetiresAll, Exists, Exclusive
      <4>9. SwitchIsExclusive'
        BY <4>1, <4>2, <4>4, <4>7 DEF SwitchIsExclusive, Exists, Exclusive
      <4> QED BY <4>5, <4>8, <4>9 DEF SwitchInv
    <3> QED BY <3>1, <3>2
  <2>17. ASSUME NEW n \in NewCalls, WaitForRetiredProfiles(n) PROVE SwitchInv'
    <3>1. /\ UnderWay(n) /\ \A i \in Ids : ~Exists(i)
          /\ UNCHANGED <<retiring, ended, profile>>
      BY <2>17 DEF WaitForRetiredProfiles, UnderWay, SwitchInv, RetiresAll
    <3>2. PICK p \in {"signalling", "failed"} :
            /\ phase' = [phase EXCEPT ![n] = p]
            /\ p = "signalling" => switching'
      BY <2>17 DEF WaitForRetiredProfiles, SendNewIdentitySignal
    <3>3. switching
      BY <3>1 DEF SwitchInv, OneSwitch
    <3>4. p = "failed" \/ switching' = switching
      BY <2>17, <3>2, <3>3 DEF WaitForRetiredProfiles, SendNewIdentitySignal,
         TypeOK
    <3> QED BY <3>1, <3>2, <3>4, CallSteps DEF Exists, Requests
  <2>18. ASSUME NEW n \in NewCalls, RetireTimesOut(n) PROVE SwitchInv'
    BY <2>10, <2>18 DEF RetireTimesOut, UnderWay, Requests
  <2>19. ASSUME NEW n \in NewCalls, OnNewCircuits(n) PROVE SwitchInv'
    <3>1. /\ UnderWay(n) /\ \A i \in Ids : ~Exists(i)
          /\ UNCHANGED <<retiring, ended, profile>>
      BY <2>19 DEF OnNewCircuits, UnderWay, SwitchInv, SwitchIsExclusive
    <3>2. CASE Fail(n)
      BY <2>10, <3>1, <3>2 DEF Requests
    <3>3. CASE phase' = [phase EXCEPT ![n] = "parental"] /\ UNCHANGED switching
      BY <3>1, <3>3, CallSteps DEF Requests, Exists
    <3> QED BY <2>19, <3>2, <3>3 DEF OnNewCircuits, OpenImpl
  <2> QED BY <2>1, <2>2, <2>3, <2>4, <2>5, <2>6, <2>7, <2>8, <2>9, <2>11,
          <2>12, <2>13, <2>14, <2>15, <2>16, <2>17, <2>18, <2>19
          DEF Next, OpenStep, NewIdentityStep
<1> QED BY <1>1, <1>2, TypeCorrect, PTL DEF Spec

\* Between the NEWNYM of a New Identity and its own window's routing check no
\* MoltNet profile exists (WaitForRetiredProfiles(), Interrupted()).
THEOREM SwitchExclusive == Spec => []SwitchIsExclusive
<1>1. SwitchInv => SwitchIsExclusive
  BY DEF SwitchInv
<1> QED BY <1>1, SwitchInvariant, PTL

-----------------------------------------------------------------------------
(* Circuits *)

\* What no step does: undo a NEWNYM, bring a profile back, let the end reach
\* a profile that is gone, or send behind an end that has reached the network
\* or on circuits other than Tor's present ones.
PastKept ==
  /\ epoch <= epoch'
  /\ \A i \in Ids :
       /\ profile[i] = "gone" => profile'[i] = "gone"
       /\ profile[i] = "gone" /\ i \in ended /\ net_end'[i] = "reached" =>
            net_end[i] = "reached" /\ sent'[i] = sent[i]
       /\ \A e \in sent'[i] : e \in sent[i] \/ e = epoch

\* No step of the browser, the network service, a page or Tor rewrites what
\* was sent and what is gone (URLLoaderFactory, NetworkEnd, ProfileDestroyer).
LEMMA PastIsKept ==
  ASSUME TypeOK, ProfileInv, EndInv, [Next]_vars
  PROVE  PastKept
<1> USE DEF endVars, chainVars, windowVars, callVars, netVars, envVars
<1>0. epoch <= epoch
  BY DEF TypeOK
<1>1. CASE UNCHANGED <<epoch, profile, net_end, sent>>
  BY <1>0, <1>1 DEF PastKept
<1>2. ASSUME NEW S, EndIdentity(S), UNCHANGED <<epoch, profile, sent>>
      PROVE  PastKept
  <2>1. \A i \in Ids : i \in ended => net_end'[i] = net_end[i]
    BY <1>2 DEF EndIdentity
  <2> QED BY <1>0, <1>2, <2>1 DEF PastKept
<1>3. CASE OnSettingChanged
  BY <1>2, <1>3 DEF OnSettingChanged, EndForChangedSettings
<1>4. CASE TurnOff \/ NetworkServiceCrashes \/ TorStarts \/ UNCHANGED vars
  BY <1>1, <1>4 DEF TurnOff, NetworkServiceCrashes, TorStarts, vars
<1>5. CASE TorAppliesNewnym
  <2>1. epoch <= epoch' /\ UNCHANGED <<profile, net_end, sent>>
    BY <1>5 DEF TorAppliesNewnym, TypeOK
  <2> QED BY <2>1 DEF PastKept
<1>6. ASSUME NEW i \in Ids, EndMoltNetIdentityForMemory(i) PROVE PastKept
  BY <1>2, <1>6 DEF EndMoltNetIdentityForMemory, EndForChangedSettings
<1>7. ASSUME NEW i \in Ids, NetworkEndDeadline(i) PROVE PastKept
  <2>1. /\ \A j \in Ids : net_end'[j] \in {net_end[j], "timed_out"}
        /\ UNCHANGED <<epoch, profile, sent>>
    BY <1>7 DEF NetworkEndDeadline, TypeOK
  <2> QED BY <1>0, <2>1 DEF PastKept
<1>8. ASSUME NEW i \in Ids, DestroyIfUnused(i) PROVE PastKept
  <2>1. /\ \A j \in Ids : profile[j] = "gone" => profile'[j] = "gone"
        /\ UNCHANGED <<epoch, net_end, sent>>
    BY <1>8 DEF DestroyIfUnused, Destroy, Exists, TypeOK
  <2> QED BY <1>0, <2>1 DEF PastKept
<1>9. ASSUME NEW i \in Ids, ProfileDestroyed(i) PROVE PastKept
  <2>1. /\ \A j \in Ids : profile[j] = "gone" => profile'[j] = "gone"
        /\ UNCHANGED <<epoch, net_end, sent>>
    BY <1>9 DEF ProfileDestroyed, TypeOK
  <2> QED BY <1>0, <2>1 DEF PastKept
<1>10. ASSUME NEW i \in Ids, NEW w \in Popups, OpensPopup(w, i) PROVE PastKept
  BY <1>1, <1>10 DEF OpensPopup
<1>11. ASSUME NEW i \in Ids, NEW k \in Enders, EndStep(i, k) PROVE PastKept
  BY <1>1, <1>2, <1>11 DEF EndStep, CloseEndedIdentity,
     StopPagesThenConfirmRefusal, RefusalConfirmed, RefusalGivesUp,
     CloseEndedWindows, ForceCloseRemainingWindows
<1>12. ASSUME NEW i \in Ids, NEW c \in Contexts, Answered(i, c) PROVE PastKept
  <2>1. /\ \A j \in Ids : net_end'[j] = net_end[j] \/ Exists(j)
        /\ UNCHANGED <<epoch, profile, sent>>
    BY <1>12 DEF Answered, TypeOK
  <2> QED BY <1>0, <2>1 DEF PastKept, Exists
<1>13. ASSUME NEW i \in Ids, NEW c \in Contexts, ContextHandles(i, c)
       PROVE  PastKept
  <2>1. UNCHANGED <<epoch, profile, net_end>>
    BY <1>13 DEF ContextHandles
  <2>2. CASE ctx[<<i, c>>] = "running"
    <3>1. ~(i \in ended /\ net_end[i] = "reached")
      BY <2>2 DEF EndInv, EndProgress, EndReachesContexts
    <3>2. sent' = [sent EXCEPT ![i] = sent[i] \cup {epoch}]
      BY <1>13, <2>2 DEF ContextHandles
    <3>3. \A j \in Ids : sent'[j] = IF j = i THEN sent[i] \cup {epoch} ELSE sent[j]
      BY <3>2 DEF TypeOK
    <3> QED BY <1>0, <2>1, <3>1, <3>3 DEF PastKept
  <2>3. CASE ctx[<<i, c>>] # "running"
    BY <1>1, <1>13, <2>1, <2>3 DEF ContextHandles
  <2> QED BY <2>2, <2>3
<1>14. ASSUME NEW i \in Ids, NEW c \in Contexts, NetworkStep(i, c)
       PROVE  PastKept
  BY <1>1, <1>13, <1>14 DEF NetworkStep, ContextStarts, ContextEnds,
     ContextCloses, RequestQueued
<1>15. ASSUME NEW w \in Windows, WindowCloses(w) PROVE PastKept
  BY <1>1, <1>15 DEF WindowCloses
<1>16. ASSUME NEW r \in Opens, Open(r) PROVE PastKept
  BY <1>1, <1>16 DEF Open
<1>17. ASSUME NEW r \in Requests, OnTorReady(r) PROVE PastKept
  <2>1. CASE OnTorReadyRefuses(r)
    BY <1>1, <1>17, <2>1 DEF OnTorReady, OnTorReadyRefuses
  <2>2. ASSUME NEW i \in Ids, OnTorReadyIn(r, i) PROVE PastKept
    <3>1. profile[i] # "gone" /\ profile' = [profile EXCEPT ![i] = "live"]
      BY <2>2, IdentityAssumption DEF OnTorReadyIn, ProfileInv, CurrentInUse
    <3>2. \A j \in Ids : profile[j] = "gone" => profile'[j] = "gone"
      BY <3>1 DEF TypeOK
    <3> QED BY <1>0, <1>17, <3>2 DEF OnTorReady, PastKept
  <2> QED BY <1>17, <2>1, <2>2 DEF OnTorReady
<1>18. ASSUME NEW r \in Requests, OpenStep(r) PROVE PastKept
  BY <1>1, <1>17, <1>18 DEF OpenStep, OnParentalControls,
     RoutingCheckAnswers, OpenVerifiedWindow
<1>19. ASSUME NEW n \in NewCalls, NewIdentity(n) PROVE PastKept
  <2>1. CASE switching
    BY <1>1, <1>19, <2>1 DEF NewIdentity
  <2>2. CASE ~switching
    BY <1>2, <1>19, <2>2 DEF NewIdentity, NewIdentityBegins
  <2> QED BY <2>1, <2>2
<1>20. ASSUME NEW n \in NewCalls, NewIdentityStep(n) PROVE PastKept
  BY <1>1, <1>20 DEF NewIdentityStep, WaitForRetiredProfiles,
     RetireTimesOut, OnNewCircuits
<1> QED BY <1>3, <1>4, <1>5, <1>6, <1>7, <1>8, <1>9, <1>10, <1>11, <1>12,
        <1>14, <1>15, <1>16, <1>18, <1>19, <1>20 DEF Next

\* A profile's first network context, and with it its first request, comes
\* after the profile (ProxyConfigMonitor::AddToNetworkContextParams()).
LEMMA UnmadeStaysSilent ==
  ASSUME TypeOK, UnmadeIsSilent, [Next]_vars
  PROVE  UnmadeIsSilent'
<1> USE DEF endVars, chainVars, windowVars, callVars, netVars, envVars
<1>1. CASE UNCHANGED <<profile, sent, ctx>>
  BY <1>1 DEF UnmadeIsSilent
<1>2. ASSUME \A i \in Ids : profile'[i] = "none" => profile[i] = "none",
             UNCHANGED <<sent, ctx>>
      PROVE  UnmadeIsSilent'
  BY <1>2 DEF UnmadeIsSilent
<1>3. CASE NetworkServiceCrashes
  BY <1>3 DEF NetworkServiceCrashes, UnmadeIsSilent, Pairs
<1>4. CASE OnSettingChanged \/ TurnOff \/ TorStarts \/ TorAppliesNewnym
             \/ UNCHANGED vars
  BY <1>1, <1>4 DEF OnSettingChanged, EndForChangedSettings, TurnOff,
     TorStarts, TorAppliesNewnym, vars
<1>5. ASSUME NEW i \in Ids,
             \/ EndMoltNetIdentityForMemory(i) \/ NetworkEndDeadline(i)
             \/ \E w \in Popups : OpensPopup(w, i)
             \/ \E k \in Enders : EndStep(i, k)
             \/ \E c \in Contexts : Answered(i, c)
      PROVE  UnmadeIsSilent'
  BY <1>1, <1>5 DEF EndMoltNetIdentityForMemory, EndForChangedSettings,
     NetworkEndDeadline, OpensPopup, EndStep, CloseEndedIdentity,
     StopPagesThenConfirmRefusal, RefusalConfirmed, RefusalGivesUp,
     CloseEndedWindows, ForceCloseRemainingWindows, Answered
<1>6. ASSUME NEW i \in Ids, DestroyIfUnused(i) PROVE UnmadeIsSilent'
  BY <1>2, <1>6 DEF DestroyIfUnused, Destroy, Exists, TypeOK
<1>7. ASSUME NEW i \in Ids, ProfileDestroyed(i) PROVE UnmadeIsSilent'
  BY <1>2, <1>7 DEF ProfileDestroyed, TypeOK
<1>8. ASSUME NEW i \in Ids, NEW c \in Contexts, NetworkStep(i, c)
      PROVE  UnmadeIsSilent'
  <2>1. UNCHANGED profile
    BY <1>8 DEF NetworkStep, ContextStarts, ContextEnds, ContextCloses,
       RequestQueued, ContextHandles
  <2>2. profile[i] # "none" \/ (ctx[<<i, c>>] = "none" /\ UNCHANGED <<ctx, sent>>)
    BY <1>8 DEF NetworkStep, ContextStarts, ContextEnds, ContextCloses,
       RequestQueued, ContextHandles, Exists, UnmadeIsSilent
  <2>3. ASSUME NEW j \in Ids, j # i
        PROVE  sent'[j] = sent[j] /\ \A d \in Contexts : ctx'[<<j, d>>] = ctx[<<j, d>>]
    <3>1. \/ UNCHANGED ctx
          \/ \E s : ctx' = [ctx EXCEPT ![<<i, c>>] = s]
      BY <1>8 DEF NetworkStep, ContextStarts, ContextEnds, ContextCloses,
         RequestQueued, ContextHandles
    <3>2. \/ UNCHANGED sent
          \/ sent' = [sent EXCEPT ![i] = sent[i] \cup {epoch}]
      BY <1>8 DEF NetworkStep, ContextStarts, ContextEnds, ContextCloses,
         RequestQueued, ContextHandles
    <3> QED BY <2>3, <3>1, <3>2 DEF TypeOK, Pairs
  <2> QED BY <2>1, <2>2, <2>3 DEF UnmadeIsSilent
<1>9. ASSUME NEW w \in Windows, WindowCloses(w) PROVE UnmadeIsSilent'
  BY <1>1, <1>9 DEF WindowCloses
<1>10. ASSUME NEW r \in Requests, OpenStep(r) PROVE UnmadeIsSilent'
  <2>1. CASE OnTorReady(r)
    <3>1. \A i \in Ids : profile'[i] = "none" => profile[i] = "none"
      BY <2>1 DEF OnTorReady, OnTorReadyRefuses, OnTorReadyIn, TypeOK
    <3> QED BY <1>2, <2>1, <3>1 DEF OnTorReady
  <2> QED BY <1>1, <1>10, <2>1 DEF OpenStep, OnParentalControls,
          RoutingCheckAnswers, OpenVerifiedWindow
<1>11. ASSUME NEW r \in Opens, Open(r) PROVE UnmadeIsSilent'
  BY <1>1, <1>11 DEF Open
<1>12. ASSUME NEW n \in NewCalls, NewIdentity(n) \/ NewIdentityStep(n)
       PROVE  UnmadeIsSilent'
  BY <1>1, <1>12 DEF NewIdentity, NewIdentityStep, WaitForRetiredProfiles,
     RetireTimesOut, OnNewCircuits
<1> QED BY <1>3, <1>4, <1>5, <1>6, <1>7, <1>8, <1>9, <1>10, <1>11, <1>12
        DEF Next

\* The phases of a New Identity from its NEWNYM on, from the new circuits on,
\* and from its own profile on.
Signalled == {"signalling", "parental", "tor", "verifying", "verified",
              "unrouted", "ok"}
Renewed   == Signalled \ {"signalling"}
Placed    == {"verifying", "verified", "unrouted", "ok"}

\* What SwitchSeparates says of one New Identity.
SeparatesOne(n) ==
  /\ phase[n] \in Signalled =>
       \A i \in retiring[n] :
         /\ profile[i] = "gone"
         /\ net_end[i] = "reached" => \A e \in sent[i] : e <= signal_from[n]
  /\ phase[n] \in Renewed => epoch > signal_from[n]
  /\ phase[n] \in Placed => \A e \in sent[open_id[n]] : e > signal_from[n]

\* The phases of NewIdentity()'s callbacks, listed the other way round.
LEMMA SeparatesEach ==
  ASSUME TypeOK PROVE SwitchSeparates <=> \A n \in NewCalls : SeparatesOne(n)
<1>1. ASSUME NEW n \in NewCalls
      PROVE  /\ phase[n] \in Signalled <=>
                  phase[n] \notin {"unused", "retiring", "failed"}
             /\ phase[n] \in Renewed <=>
                  phase[n] \notin {"unused", "retiring", "signalling", "failed"}
  BY DEF TypeOK, Requests, Signalled, Renewed
<1> QED BY <1>1 DEF SwitchSeparates, SeparatesOne, Placed

\* A New Identity whose own call does not move, or moves without a new
\* NEWNYM, a new profile or new circuits, stays separated by any step.
LEMMA SeparatesKept ==
  ASSUME TypeOK, TypeOK', CallHasProfile, RetiresAll, PastKept,
         NEW n \in NewCalls, SeparatesOne(n),
         retiring'[n] = retiring[n], signal_from'[n] = signal_from[n],
         phase'[n] \in Signalled => phase[n] \in Signalled,
         phase'[n] \in Renewed => epoch > signal_from[n],
         phase'[n] \in Placed =>
           \/ phase[n] \in Placed /\ open_id'[n] = open_id[n]
           \/ open_id'[n] \in Ids /\ sent'[open_id'[n]] = {}
  PROVE  SeparatesOne(n)'
<1>0. /\ epoch \in Nat /\ epoch' \in Nat /\ signal_from[n] \in Nat
      /\ retiring[n] \subseteq Ids /\ retiring[n] \subseteq ended
  BY DEF TypeOK, RetiresAll
<1>1. ASSUME phase'[n] \in Signalled, NEW i \in retiring[n]
      PROVE  /\ profile'[i] = "gone"
             /\ net_end'[i] = "reached" => \A e \in sent'[i] : e <= signal_from[n]
  <2>1. profile[i] = "gone" /\ i \in Ids /\ i \in ended
    BY <1>0, <1>1 DEF SeparatesOne
  <2> QED BY <1>1, <2>1 DEF SeparatesOne, PastKept
<1>2. ASSUME phase'[n] \in Renewed
      PROVE  epoch > signal_from[n] /\ epoch' > signal_from[n]
  <2>1. epoch > signal_from[n] /\ epoch <= epoch'
    BY <1>2 DEF PastKept
  <2> QED BY <1>0, <2>1
<1>3. ASSUME phase'[n] \in Placed
      PROVE  \A e \in sent'[open_id'[n]] : e > signal_from[n]
  <2>1. CASE phase[n] \in Placed /\ open_id'[n] = open_id[n]
    <3>1. open_id[n] \in Ids
      BY <2>1 DEF CallHasProfile, Requests, Placed
    <3>2. epoch > signal_from[n]
      BY <1>2, <1>3 DEF Placed, Renewed, Signalled
    <3>3. \A e \in sent[open_id[n]] : e > signal_from[n]
      BY <2>1 DEF SeparatesOne
    <3> QED BY <2>1, <3>1, <3>2, <3>3 DEF PastKept
  <2>2. CASE sent'[open_id'[n]] = {}
    BY <2>2
  <2> QED BY <1>3, <2>1, <2>2
<1> QED BY <1>1, <1>2, <1>3 DEF SeparatesOne

\* New Identity separates what the identities it retired sent, as far as the
\* end reached their network, from what its own identity sends: the NEWNYM
\* of SendNewIdentitySignal() lies between the two.
THEOREM CircuitInvariant == Spec => []CircuitInv
<1> USE DEF endVars, chainVars, windowVars, callVars, netVars, envVars
<1>1. Init => CircuitInv
  <2> SUFFICES ASSUME Init PROVE CircuitInv
    OBVIOUS
  <2>1. \A n \in NewCalls : phase[n] = "unused"
    BY DEF Init, Requests
  <2>2. \A i \in Ids : sent[i] = {} /\ \A c \in Contexts : ctx[<<i, c>>] = "none"
    BY DEF Init, Pairs
  <2> QED BY <2>1, <2>2 DEF CircuitInv, UnmadeIsSilent, SentBefore,
          SwitchSeparates
<1>2. ASSUME TypeOK, TypeOK', CallHasProfile, ProfileInv, EndInv, SwitchInv,
             CircuitInv, [Next]_vars
      PROVE  CircuitInv'
  <2>1. PastKept
    BY <1>2, PastIsKept
  <2>2. UnmadeIsSilent'
    BY <1>2, UnmadeStaysSilent DEF CircuitInv
  <2>3. SentBefore'
    <3> SUFFICES ASSUME NEW i \in Ids, NEW e \in sent'[i] PROVE e <= epoch'
      BY DEF SentBefore
    <3>1. epoch \in Nat /\ epoch' \in Nat /\ e \in Nat /\ epoch <= epoch'
      BY <1>2, <2>1 DEF TypeOK, PastKept
    <3>2. e <= epoch
      BY <1>2, <2>1, <3>1 DEF CircuitInv, SentBefore, PastKept
    <3> QED BY <3>1, <3>2
  <2>4. ASSUME NEW n \in NewCalls PROVE SeparatesOne(n)'
    <3>1. SeparatesOne(n) /\ RetiresAll
      BY <1>2, SeparatesEach DEF CircuitInv, SwitchInv
    <3>2. ASSUME phase'[n] = phase[n], open_id'[n] = open_id[n],
                 retiring'[n] = retiring[n], signal_from'[n] = signal_from[n]
          PROVE  SeparatesOne(n)'
      BY <1>2, <2>1, <3>1, <3>2, SeparatesKept DEF SeparatesOne
    <3>3. ASSUME phase'[n] \in {"retiring", "failed"} PROVE SeparatesOne(n)'
      BY <3>3 DEF SeparatesOne, Signalled, Renewed, Placed
    <3>4. CASE UNCHANGED <<phase, open_id, retiring, signal_from>>
      BY <3>2, <3>4
    <3>5. CASE OnSettingChanged \/ TurnOff \/ NetworkServiceCrashes
                 \/ TorStarts \/ TorAppliesNewnym \/ UNCHANGED vars
      BY <3>4, <3>5 DEF OnSettingChanged, EndForChangedSettings, TurnOff,
         NetworkServiceCrashes, TorStarts, TorAppliesNewnym, vars
    <3>6. ASSUME NEW i \in Ids,
                 \/ EndMoltNetIdentityForMemory(i) \/ NetworkEndDeadline(i)
                 \/ DestroyIfUnused(i) \/ ProfileDestroyed(i)
                 \/ \E w \in Popups : OpensPopup(w, i)
          PROVE  SeparatesOne(n)'
      BY <3>4, <3>6 DEF EndMoltNetIdentityForMemory, EndForChangedSettings,
         NetworkEndDeadline, DestroyIfUnused, ProfileDestroyed, OpensPopup
    <3>7. ASSUME NEW i \in Ids, NEW k \in Enders, EndStep(i, k)
          PROVE  SeparatesOne(n)'
      BY <3>4, <3>7 DEF EndStep, CloseEndedIdentity,
         StopPagesThenConfirmRefusal, RefusalConfirmed, RefusalGivesUp,
         CloseEndedWindows, ForceCloseRemainingWindows
    <3>8. ASSUME NEW i \in Ids, NEW c \in Contexts,
                 Answered(i, c) \/ NetworkStep(i, c)
          PROVE  SeparatesOne(n)'
      BY <3>4, <3>8 DEF Answered, NetworkStep, ContextStarts, ContextEnds,
         ContextCloses, RequestQueued, ContextHandles
    <3>9. ASSUME NEW w \in Windows, WindowCloses(w) PROVE SeparatesOne(n)'
      BY <3>4, <3>9 DEF WindowCloses
    \* A step of one call, which may be this one's: the step after which it
    \* fails, or one from its NEWNYM to its window.
    <3>10. ASSUME NEW r \in Requests, NEW p, phase' = [phase EXCEPT ![r] = p],
                  UNCHANGED <<open_id, retiring, signal_from>>,
                  r = n => \/ p = "failed"
                           \/ /\ phase[n] \in Signalled /\ epoch > signal_from[n]
                              /\ p \in Placed => phase[n] \in Placed
           PROVE  SeparatesOne(n)'
      <4>1. CASE r # n
        <5>1. phase'[n] = phase[n]
          BY <1>2, <3>10, <4>1 DEF TypeOK, Requests
        <5> QED BY <3>2, <3>10, <5>1
      <4>2. CASE r = n
        <5>1. phase'[n] = p
          BY <1>2, <3>10, <4>2 DEF TypeOK, Requests
        <5>2. CASE p = "failed"
          BY <3>3, <5>1, <5>2
        <5>3. CASE p # "failed"
          BY <1>2, <2>1, <3>1, <3>10, <4>2, <5>1, <5>3, SeparatesKept
        <5> QED BY <5>2, <5>3
      <4> QED BY <4>1, <4>2
    <3>11. ASSUME NEW r \in Opens, Open(r) PROVE SeparatesOne(n)'
      <4>1. r \in Requests /\ r # n
        BY IdentityAssumption DEF Requests
      <4> QED BY <3>10, <3>11, <4>1 DEF Open, OpenImpl, Fail
    <3>12. ASSUME NEW r \in Requests, OnParentalControls(r)
           PROVE  SeparatesOne(n)'
      <4>1. r = n => phase[n] \in Signalled /\ epoch > signal_from[n]
        BY <3>1, <3>12 DEF OnParentalControls, SeparatesOne, Signalled, Renewed
      <4>2. "tor" \notin Placed
        BY DEF Placed
      <4> QED BY <3>10, <3>12, <4>1, <4>2 DEF OnParentalControls, Fail
    <3>13. ASSUME NEW r \in Requests, OnTorReady(r) PROVE SeparatesOne(n)'
      <4>1. CASE OnTorReadyRefuses(r)
        BY <3>10, <3>13, <4>1 DEF OnTorReady, OnTorReadyRefuses, Fail
      <4>2. ASSUME NEW i \in Ids, OnTorReadyIn(r, i) PROVE SeparatesOne(n)'
        <5>1. CASE settings_ok /\ tor_running
          <6>1. /\ phase' = [phase EXCEPT ![r] = "verifying"]
                /\ open_id' = [open_id EXCEPT ![r] = i]
                /\ UNCHANGED <<retiring, signal_from, sent>>
            BY <3>13, <4>2, <5>1 DEF OnTorReady, OnTorReadyIn
          <6>2. CASE r # n
            <7>1. phase'[n] = phase[n] /\ open_id'[n] = open_id[n]
              BY <1>2, <6>1, <6>2 DEF TypeOK, Requests
            <7> QED BY <3>2, <6>1, <7>1
          <6>3. CASE r = n
            <7>1. phase'[n] = "verifying" /\ open_id'[n] = i
              BY <1>2, <6>1, <6>3 DEF TypeOK, Requests
            <7>2. phase[n] = "tor"
              BY <4>2, <6>3 DEF OnTorReadyIn
            <7>3. \A j \in Ids : ~Exists(j)
              BY <1>2, <7>2 DEF SwitchInv, SwitchIsExclusive
            <7>4. current \notin Ids
              BY <1>2, <7>3, IdentityAssumption DEF ProfileInv, CurrentInUse,
                 Exists
            <7>5. profile[i] = "none"
              BY <4>2, <7>4 DEF OnTorReadyIn
            <7>6. sent'[i] = {}
              BY <1>2, <6>1, <7>5 DEF CircuitInv, UnmadeIsSilent
            <7>7. phase[n] \in Signalled /\ epoch > signal_from[n]
              BY <3>1, <7>2 DEF SeparatesOne, Signalled, Renewed
            <7> QED BY <1>2, <2>1, <3>1, <6>1, <7>1, <7>6, <7>7, SeparatesKept
          <6> QED BY <6>2, <6>3
        <5>2. CASE ~(settings_ok /\ tor_running)
          <6>1. /\ phase' = [phase EXCEPT ![r] = "failed"]
                /\ UNCHANGED <<open_id, retiring, signal_from>>
            BY <3>13, <4>2, <5>2 DEF OnTorReady, OnTorReadyIn, Fail
          <6> QED BY <3>10, <6>1
        <5> QED BY <5>1, <5>2
      <4> QED BY <3>13, <4>1, <4>2 DEF OnTorReady
    <3>14. ASSUME NEW r \in Requests, phase[r] \in {"verifying", "verified", "unrouted"}
           PROVE  r = n => /\ phase[n] \in Signalled /\ phase[n] \in Placed
                           /\ epoch > signal_from[n]
      BY <3>1, <3>14 DEF SeparatesOne, Signalled, Renewed, Placed
    <3>15. ASSUME NEW r \in Requests, RoutingCheckAnswers(r)
           PROVE  SeparatesOne(n)'
      BY <3>10, <3>14, <3>15 DEF RoutingCheckAnswers
    <3>16. ASSUME NEW r \in Requests, OpenVerifiedWindow(r)
           PROVE  SeparatesOne(n)'
      <4>1. PICK p : phase' = [phase EXCEPT ![r] = p]
        BY <3>16 DEF OpenVerifiedWindow, OpenVerifiedRefuses, Fail,
           OpenVerifiedOpens
      <4> QED BY <3>10, <3>14, <3>16, <4>1 DEF OpenVerifiedWindow
    <3>17. ASSUME NEW m \in NewCalls, NewIdentity(m) PROVE SeparatesOne(n)'
      <4>1. CASE m # n
        <5>1. /\ retiring'[n] = retiring[n] /\ signal_from'[n] = signal_from[n]
              /\ phase'[n] = phase[n] /\ open_id'[n] = open_id[n]
          BY <1>2, <3>17, <4>1 DEF NewIdentity, NewIdentityBegins,
             SendNewIdentitySignal, TypeOK, Requests
        <5> QED BY <3>2, <5>1
      <4>2. CASE m = n
        <5>1. PICK p \in {"retiring", "signalling", "failed"} :
                /\ phase' = [phase EXCEPT ![n] = p]
                /\ p = "signalling" => retiring' = [retiring EXCEPT ![n] = {}]
          <6>1. CASE switching
            BY <3>17, <4>2, <6>1 DEF NewIdentity
          <6>2. CASE ~switching
            BY <3>17, <4>2, <6>2 DEF NewIdentity, NewIdentityBegins,
               SendNewIdentitySignal
          <6> QED BY <6>1, <6>2
        <5>2. phase'[n] = p
          BY <1>2, <5>1 DEF TypeOK, Requests
        <5>3. CASE p = "signalling"
          <6>1. retiring'[n] = {}
            BY <1>2, <5>1, <5>3 DEF TypeOK
          <6> QED BY <5>2, <5>3, <6>1 DEF SeparatesOne, Renewed, Placed
        <5> QED BY <3>3, <5>1, <5>2, <5>3
      <4> QED BY <4>1, <4>2
    <3>18. ASSUME NEW m \in NewCalls, WaitForRetiredProfiles(m)
           PROVE  SeparatesOne(n)'
      <4>1. PICK p \in {"signalling", "failed"} :
              /\ phase' = [phase EXCEPT ![m] = p]
              /\ signal_from' = [signal_from EXCEPT ![m] = epoch]
              /\ UNCHANGED <<open_id, retiring, profile, sent, net_end>>
        BY <3>18 DEF WaitForRetiredProfiles, SendNewIdentitySignal
      <4>2. CASE m # n
        <5>1. signal_from'[n] = signal_from[n] /\ phase'[n] = phase[n]
          BY <1>2, <4>1, <4>2 DEF TypeOK, Requests
        <5> QED BY <3>2, <4>1, <5>1
      <4>3. CASE m = n
        <5>1. phase'[n] = p /\ signal_from'[n] = epoch
          BY <1>2, <4>1, <4>3 DEF TypeOK, Requests
        <5>2. ASSUME NEW i \in retiring[n]
              PROVE  profile[i] = "gone" /\ \A e \in sent[i] : e <= epoch
          <6>1. i \in Ids /\ i \in ended /\ ~Exists(i)
            BY <1>2, <3>1, <3>18, <4>3 DEF TypeOK, RetiresAll,
               WaitForRetiredProfiles
          <6> QED BY <1>2, <6>1 DEF Exists, TypeOK, ProfileInv, CurrentInUse,
                  CircuitInv, SentBefore
        <5> QED BY <4>1, <5>1, <5>2 DEF SeparatesOne, Renewed, Placed, Signalled
      <4> QED BY <4>2, <4>3
    <3>19. ASSUME NEW m \in NewCalls, RetireTimesOut(m) PROVE SeparatesOne(n)'
      BY <3>10, <3>19 DEF RetireTimesOut, Fail, Requests
    <3>20. ASSUME NEW m \in NewCalls, OnNewCircuits(m) PROVE SeparatesOne(n)'
      <4>1. CASE Fail(m)
        BY <3>10, <3>20, <4>1 DEF OnNewCircuits, Fail, Requests
      <4>2. CASE epoch > signal_from[m] /\ phase' = [phase EXCEPT ![m] = "parental"]
        <5>1. phase[m] \in Signalled /\ "parental" \notin Placed
          BY <3>20 DEF OnNewCircuits, Signalled, Placed
        <5> QED BY <3>10, <3>20, <4>2, <5>1 DEF OnNewCircuits, Requests
      <4> QED BY <3>20, <4>1, <4>2 DEF OnNewCircuits, OpenImpl, Fail
    <3> QED BY <1>2, <3>5, <3>6, <3>7, <3>8, <3>9, <3>11, <3>12, <3>13, <3>15,
            <3>16, <3>17, <3>18, <3>19, <3>20
            DEF Next, OpenStep, NewIdentityStep
  <2>5. SwitchSeparates'
    <3>1. ASSUME NEW n \in NewCalls
          PROVE  /\ phase'[n] \in Signalled <=>
                      phase'[n] \notin {"unused", "retiring", "failed"}
                 /\ phase'[n] \in Renewed <=>
                      phase'[n] \notin {"unused", "retiring", "signalling", "failed"}
      BY <1>2 DEF TypeOK, Requests, Signalled, Renewed
    <3> QED BY <2>4, <3>1 DEF SwitchSeparates, SeparatesOne, Placed
  <2> QED BY <2>2, <2>3, <2>5 DEF CircuitInv
<1> QED BY <1>1, <1>2, TypeCorrect, ProfileInvariant, EndInvariant,
        SwitchInvariant, PTL DEF Spec

\* The identity New Identity opens never sends on circuits that an identity
\* it retired has sent on, as far as the end had reached that one's network
\* (NewIdentity(), OnNewCircuits(), NetworkContext::MoltEndIdentity()).
THEOREM NewIdentityIsSeparate == Spec => []NewIdentitySeparates
<1>1. TypeOK /\ CallHasProfile /\ CircuitInv => NewIdentitySeparates
  <2> SUFFICES ASSUME TypeOK, CallHasProfile, CircuitInv,
                      NEW n \in NewCalls, phase[n] = "ok",
                      NEW i \in retiring[n], net_end[i] = "reached",
                      NEW e \in sent[i], e \in sent[open_id[n]]
               PROVE  FALSE
    BY DEF NewIdentitySeparates
  <2>1. e <= signal_from[n] /\ e > signal_from[n]
    BY DEF CircuitInv, SwitchSeparates
  <2>2. e \in Nat /\ signal_from[n] \in Nat
    BY DEF TypeOK
  <2> QED BY <2>1, <2>2
<1> QED BY <1>1, CircuitInvariant, TypeCorrect, PTL

\* A call that has succeeded stays so: each Open() and New Identity is answered
\* once.
LEMMA OkIsFinal ==
  ASSUME TypeOK, [Next]_vars, NEW q \in Requests, phase[q] = "ok"
  PROVE  phase'[q] = "ok"
<1> USE DEF callVars
<1>0. CASE \E r \in Requests : \E p : phase[r] # "ok" /\ phase' = [phase EXCEPT ![r] = p]
  BY <1>0 DEF TypeOK
<1>1. CASE UNCHANGED phase
  BY <1>1
<1>2. ASSUME NEW r \in Opens, Open(r) PROVE phase'[q] = "ok"
  BY <1>0, <1>2 DEF Open, OpenImpl, Fail, Requests
<1>3. ASSUME NEW r \in Requests, OpenStep(r) PROVE phase'[q] = "ok"
  <2>1. CASE OnParentalControls(r) \/ RoutingCheckAnswers(r)
    BY <1>0, <2>1 DEF OnParentalControls, RoutingCheckAnswers, Fail
  <2>2. CASE OnTorReady(r)
    BY <1>0, <2>2 DEF OnTorReady, OnTorReadyRefuses, OnTorReadyIn, Fail
  <2>3. CASE OpenVerifiedWindow(r)
    BY <1>0, <2>3 DEF OpenVerifiedWindow, OpenVerifiedRefuses, OpenVerifiedOpens, Fail
  <2> QED BY <1>3, <2>1, <2>2, <2>3 DEF OpenStep
<1>4. ASSUME NEW n \in NewCalls, NewIdentity(n) PROVE phase'[q] = "ok"
  BY <1>0, <1>4 DEF NewIdentity, NewIdentityBegins, SendNewIdentitySignal, Requests
<1>5. ASSUME NEW n \in NewCalls, NewIdentityStep(n) PROVE phase'[q] = "ok"
  BY <1>0, <1>5 DEF NewIdentityStep, WaitForRetiredProfiles, RetireTimesOut, OnNewCircuits,
     SendNewIdentitySignal, OpenImpl, Fail, Requests
<1>6. ASSUME NEW i \in Ids, NEW k \in Enders, EndStep(i, k) PROVE UNCHANGED phase
  BY <1>6 DEF EndStep, CloseEndedIdentity, StopPagesThenConfirmRefusal, RefusalConfirmed,
     RefusalGivesUp, CloseEndedWindows, ForceCloseRemainingWindows
<1>7. ASSUME NEW i \in Ids, NEW c \in Contexts, Answered(i, c) \/ NetworkStep(i, c)
      PROVE  UNCHANGED phase
  BY <1>7 DEF Answered, NetworkStep, ContextStarts, ContextEnds, ContextCloses, RequestQueued,
     ContextHandles
<1>8. ASSUME NEW i \in Ids,
             \/ EndMoltNetIdentityForMemory(i) \/ NetworkEndDeadline(i)
             \/ DestroyIfUnused(i) \/ ProfileDestroyed(i)
             \/ \E w \in Popups : OpensPopup(w, i)
      PROVE  UNCHANGED phase
  BY <1>8 DEF EndMoltNetIdentityForMemory, EndForChangedSettings, NetworkEndDeadline,
     DestroyIfUnused, ProfileDestroyed, OpensPopup
<1>9. CASE \/ OnSettingChanged \/ TurnOff \/ NetworkServiceCrashes \/ TorStarts \/ TorAppliesNewnym
           \/ (\E w \in Windows : WindowCloses(w)) \/ UNCHANGED vars
  BY <1>1, <1>9 DEF OnSettingChanged, EndForChangedSettings, TurnOff, NetworkServiceCrashes,
     TorStarts, TorAppliesNewnym, WindowCloses, vars
<1> QED BY <1>1, <1>2, <1>3, <1>4, <1>5, <1>6, <1>7, <1>8, <1>9 DEF Next

\* Which steps open a window.
LEMMA WindowSteps ==
  ASSUME [Next]_vars
  PROVE  \/ UNCHANGED window
         \/ \E w \in Windows : WindowCloses(w)
         \/ \E w \in Popups, i \in Ids : OpensPopup(w, i)
         \/ \E r \in Requests : OpenVerifiedWindow(r) /\ OpenVerifiedOpens(r)
<1> USE DEF windowVars
<1>1. ASSUME NEW r \in Requests, OpenStep(r)
      PROVE  UNCHANGED window \/ (OpenVerifiedWindow(r) /\ OpenVerifiedOpens(r))
  BY <1>1 DEF OpenStep, OnParentalControls, OnTorReady, RoutingCheckAnswers,
     OpenVerifiedWindow, OpenVerifiedRefuses
<1>2. ASSUME NEW i \in Ids, NEW k \in Enders, EndStep(i, k) PROVE UNCHANGED window
  BY <1>2 DEF EndStep, CloseEndedIdentity, StopPagesThenConfirmRefusal, RefusalConfirmed,
     RefusalGivesUp, CloseEndedWindows, ForceCloseRemainingWindows
<1>3. ASSUME NEW i \in Ids, NEW c \in Contexts, Answered(i, c) \/ NetworkStep(i, c)
      PROVE  UNCHANGED window
  BY <1>3 DEF Answered, NetworkStep, ContextStarts, ContextEnds, ContextCloses, RequestQueued,
     ContextHandles
<1>4. ASSUME NEW i \in Ids, \/ EndMoltNetIdentityForMemory(i) \/ NetworkEndDeadline(i)
                            \/ DestroyIfUnused(i) \/ ProfileDestroyed(i)
      PROVE  UNCHANGED window
  BY <1>4 DEF EndMoltNetIdentityForMemory, EndForChangedSettings, NetworkEndDeadline,
     DestroyIfUnused, ProfileDestroyed
<1>5. CASE \/ OnSettingChanged \/ TurnOff \/ NetworkServiceCrashes \/ TorStarts \/ TorAppliesNewnym
           \/ (\E r \in Opens : Open(r)) \/ UNCHANGED vars
           \/ \E n \in NewCalls : NewIdentity(n) \/ NewIdentityStep(n)
  BY <1>5 DEF OnSettingChanged, EndForChangedSettings, TurnOff, NetworkServiceCrashes,
     TorStarts, TorAppliesNewnym, Open, NewIdentity, NewIdentityStep, WaitForRetiredProfiles,
     RetireTimesOut, OnNewCircuits, vars
<1> QED BY <1>1, <1>2, <1>3, <1>4, <1>5 DEF Next

\* The window a call opens is there only when the call has succeeded, so that
\* opening it replaces none.
THEOREM WindowOfCallAlways == Spec => []WindowOfCall
<1>1. Init => WindowOfCall
  BY DEF Init, WindowOfCall, Windows
<1>2. TypeOK /\ WindowOfCall /\ [Next]_vars => WindowOfCall'
  <2> SUFFICES ASSUME TypeOK, WindowOfCall, [Next]_vars, NEW q \in Requests, window'[q] # NoId
               PROVE  phase'[q] = "ok"
    BY DEF WindowOfCall
  <2>1. CASE window[q] # NoId
    BY <2>1, OkIsFinal DEF WindowOfCall
  <2>2. CASE window[q] = NoId
    <3>1. q \in Windows /\ q \notin Popups /\ window[q] # window'[q]
      BY <2>2, IdentityAssumption DEF Windows, Requests
    <3>2. ~ \E w \in Windows : WindowCloses(w)
      BY <2>2, <3>1 DEF WindowCloses, TypeOK
    <3>3. ~ \E w \in Popups, i \in Ids : OpensPopup(w, i)
      BY <3>1 DEF OpensPopup, TypeOK
    <3>4. ASSUME NEW r \in Requests, OpenVerifiedOpens(r) PROVE phase'[q] = "ok"
      <4>1. q = r
        BY <3>1, <3>4 DEF OpenVerifiedOpens, TypeOK
      <4> QED BY <3>4, <4>1 DEF OpenVerifiedOpens, TypeOK
    <3> QED BY <3>1, <3>2, <3>3, <3>4, WindowSteps
  <2> QED BY <2>1, <2>2
<1> QED BY <1>1, <1>2, TypeCorrect, PTL DEF Spec

\* All the invariants of the MoltNet identities together.
THEOREM IdentityCorrect == Spec => []IdentityInv
<1>1. TypeOK /\ CallHasProfile /\ WindowOfCall /\ ProfileInv /\ EndInv /\ SwitchInv /\ CircuitInv
        => IdentityInv
  BY DEF IdentityInv
<1> QED BY <1>1, TypeCorrect, WindowOfCallAlways, ProfileInvariant, EndInvariant,
        SwitchInvariant, CircuitInvariant, PTL
=============================================================================
