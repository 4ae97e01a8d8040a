------------------------- MODULE IdentityLifeProofs -------------------------
(***************************************************************************)
(* MoltNetIdentity implements IdentityLife, for any number of identities,  *)
(* contexts, windows and calls.                                            *)
(***************************************************************************)
EXTENDS MoltNetIdentityProofs

\* What the refinement needs of the invariants.
LifeInv == TypeOK /\ IdentityInv

\* A step that leaves the identities' lives, windows and circuits alone.
LEMMA LifeFrame ==
  ASSUME UNCHANGED <<profile, ended, net_end, confirmed, current, window, epoch, sent>>
  PROVE  UNCHANGED Lives!lifeVars
  BY DEF Lives!lifeVars, Life, Shown

\* MoltNetRouting::EndIdentity() ends the identities that had not ended before,
\* and does nothing to the others.
LEMMA EndIdentityRefines ==
  ASSUME LifeInv, NEW S \in SUBSET Ids, EndIdentity(S), \A i \in S : profile[i] # "none",
         UNCHANGED <<profile, confirmed, window, epoch, sent>>
  PROVE  Lives!Next
<1> DEFINE first == S \ ended
<1>1. /\ ended' = ended \cup S
      /\ \A i \in Ids \ first : net_end'[i] = net_end[i]
      /\ current' = IF current \in S THEN NoId ELSE current
  BY DEF EndIdentity
<1>2. \A i \in first : Life[i] \in {"open", "left"} /\ Life'[i] \in {"ending", "silent"}
  BY <1>1 DEF Life
<1>3. ASSUME NEW i \in Ids \ first PROVE Life'[i] = Life[i]
  <2>1. i \in ended' <=> i \in ended
    BY <1>1
  <2>2. i \notin ended => (current' = i <=> current = i)
    BY <1>1, IdentityAssumption
  <2> QED BY <1>1, <2>1, <2>2 DEF Life
<1>4. Life' \in [Ids -> {"unmade", "open", "left", "ending", "silent"}]
  BY DEF Life
<1>5. Shown' = Shown
  BY DEF Shown
<1> HIDE DEF first
<1>6. first \in SUBSET Ids
  BY DEF first
<1>7. Lives!End(first)
  BY <1>2, <1>3, <1>4, <1>5 DEF Lives!End
<1> QED BY <1>6, <1>7 DEF Lives!Next

\* NetworkEnd and RefusalCheck: an identity is silent once its end has reached
\* its network.
LEMMA SilenceRefines ==
  ASSUME LifeInv, NEW i \in ended,
         UNCHANGED <<profile, ended, current, window, epoch, sent>>,
         \A j \in Ids \ {i} : (net_end'[j] = "reached" \/ j \in confirmed')
                                <=> (net_end[j] = "reached" \/ j \in confirmed),
         (net_end[i] = "reached" \/ i \in confirmed)
           => (net_end'[i] = "reached" \/ i \in confirmed')
  PROVE  Lives!Next \/ UNCHANGED Lives!lifeVars
<1>0. i \in Ids /\ profile[i] # "none"
  BY DEF LifeInv, TypeOK, IdentityInv, ProfileInv, CurrentInUse
<1>1. \A j \in Ids \ {i} : Life'[j] = Life[j]
  BY DEF Life
<1>2. Shown' = Shown
  BY DEF Shown
<1>3. CASE Life'[i] = Life[i]
  BY <1>1, <1>2, <1>3 DEF Life, Lives!lifeVars
<1>4. CASE Life'[i] # Life[i]
  <2>1. Life[i] = "ending" /\ Life'[i] = "silent"
    BY <1>0, <1>4 DEF Life
  <2>2. Life' = [Life EXCEPT ![i] = "silent"]
    BY <1>1, <2>1 DEF Life
  <2> QED BY <1>0, <1>2, <2>1, <2>2 DEF Lives!Silence, Lives!Next
<1> QED BY <1>3, <1>4

\* GetOrCreateMoltNetProfile() goes on with the identity in use, or makes one
\* when none is.
LEMMA MakeRefines ==
  ASSUME LifeInv, NEW r \in Requests, NEW i \in Ids, OnTorReadyIn(r, i),
         UNCHANGED <<ended, net_end, confirmed, window, epoch, sent>>
  PROVE  Lives!Next \/ UNCHANGED Lives!lifeVars
<1>1. /\ current = i \/ (current = NoId /\ profile[i] = "none")
      /\ current' = i /\ profile' = [profile EXCEPT ![i] = "live"]
  BY DEF OnTorReadyIn
<1>2. CASE current = i
  <2>1. profile[i] = "live"
    BY <1>2, IdentityAssumption DEF LifeInv, IdentityInv, ProfileInv, CurrentInUse
  <2>2. profile' = profile /\ current' = current
    BY <1>1, <1>2, <2>1 DEF LifeInv, TypeOK
  <2> QED BY <2>2, LifeFrame
<1>3. CASE current = NoId /\ profile[i] = "none"
  <2>1. i \notin ended
    BY <1>3 DEF LifeInv, IdentityInv, ProfileInv, CurrentInUse
  <2>2. \A j \in Ids : Life[j] # "open"
    BY <1>3, IdentityAssumption DEF Life
  <2>3. Life[i] = "unmade" /\ Life'[i] = "open"
    BY <1>1, <1>3, <2>1 DEF Life, LifeInv, TypeOK
  <2>4. \A j \in Ids \ {i} : Life'[j] = Life[j]
    BY <1>1, <1>3, IdentityAssumption DEF Life, LifeInv, TypeOK
  <2>5. Life' = [Life EXCEPT ![i] = "open"]
    BY <2>3, <2>4 DEF Life
  <2>6. Shown' = Shown
    BY DEF Shown
  <2> QED BY <2>2, <2>3, <2>5, <2>6 DEF Lives!Make, Lives!Next
<1> QED BY <1>1, <1>2, <1>3

\* DestroyIfUnused() gives up the identity in use only when it has no window.
LEMMA LeaveRefines ==
  ASSUME LifeInv, NEW i \in Ids, Destroy(i),
         UNCHANGED <<ended, net_end, confirmed, window, epoch, sent>>
  PROVE  Lives!Next \/ UNCHANGED Lives!lifeVars
<1>1. CASE Exists(i) /\ WindowsOf(i) = {}
  <2>1. /\ profile' = [profile EXCEPT ![i] = "destroying"] /\ profile[i] # "none"
        /\ current' = IF current = i THEN NoId ELSE current
    BY <1>1 DEF Destroy, Exists
  <2>2. \A j \in Ids \ {i} : Life'[j] = Life[j]
    BY <2>1, IdentityAssumption DEF Life, LifeInv, TypeOK
  <2>3. Shown' = Shown /\ i \notin Shown
    BY <1>1 DEF Shown, WindowsOf
  <2>4. CASE current = i
    <3>1. i \notin ended
      BY <2>4, IdentityAssumption DEF LifeInv, IdentityInv, ProfileInv, CurrentInUse
    <3>2. Life[i] = "open" /\ Life'[i] = "left"
      BY <2>1, <2>4, <3>1, IdentityAssumption DEF Life, LifeInv, TypeOK
    <3>3. Life' = [Life EXCEPT ![i] = "left"]
      BY <2>2, <3>2 DEF Life
    <3> QED BY <2>3, <3>2, <3>3 DEF Lives!Leave, Lives!Next
  <2>5. CASE current # i
    <3>1. Life'[i] = Life[i]
      BY <2>1, <2>5 DEF Life, LifeInv, TypeOK
    <3>2. Life' = Life
      BY <2>2, <3>1 DEF Life
    <3> QED BY <2>3, <3>2 DEF Lives!lifeVars
  <2> QED BY <2>4, <2>5
<1>2. CASE ~(Exists(i) /\ WindowsOf(i) = {})
  BY <1>2, LifeFrame DEF Destroy
<1> QED BY <1>1, <1>2

\* A request leaves the network service: its identity is not silent.
LEMMA SendRefines ==
  ASSUME LifeInv, NEW i \in Ids, NEW c \in Contexts, ContextHandles(i, c)
  PROVE  Lives!Next \/ UNCHANGED Lives!lifeVars
<1> USE DEF endVars, chainVars, windowVars, netVars, envVars
<1>1. UNCHANGED <<profile, ended, net_end, confirmed, current, window, epoch>>
  BY DEF ContextHandles
<1>2. CASE ctx[<<i, c>>] = "running"
  <2>1. profile[i] # "none"
    BY <1>2 DEF LifeInv, IdentityInv, CircuitInv, UnmadeIsSilent
  <2>2. i \in ended => net_end[i] # "reached" /\ i \notin confirmed
    BY <1>2 DEF LifeInv, IdentityInv, EndInv, EndReachesContexts, EndProgress,
       ConfirmedMeansRefusing
  <2>3. Life[i] \in {"open", "left", "ending"}
    BY <2>1, <2>2 DEF Life
  <2>4. Life' = Life /\ Shown' = Shown
    BY <1>1 DEF Life, Shown
  <2>5. sent' = [sent EXCEPT ![i] = @ \cup {epoch}]
    BY <1>2 DEF ContextHandles
  <2> QED BY <1>1, <2>3, <2>4, <2>5 DEF Lives!Send, Lives!Next
<1>3. CASE ctx[<<i, c>>] # "running"
  BY <1>1, <1>3, LifeFrame DEF ContextHandles
<1> QED BY <1>2, <1>3

\* Windows: the first one of an identity opens in the one in use.
LEMMA WindowRefines ==
  ASSUME LifeInv, UNCHANGED <<profile, ended, net_end, confirmed, current, epoch, sent>>,
         \/ \E w \in Windows : WindowCloses(w)
         \/ \E w \in Popups, i \in Ids : OpensPopup(w, i)
         \/ \E r \in Requests : OpenVerifiedWindow(r) /\ OpenVerifiedOpens(r)
  PROVE  Lives!Next \/ UNCHANGED Lives!lifeVars
<1>0. Life' = Life /\ window \in [Windows -> Ids \cup {NoId}]
  BY DEF Life, LifeInv, TypeOK
<1>1. ASSUME NEW w \in Windows, WindowCloses(w)
      PROVE  Lives!Next \/ UNCHANGED Lives!lifeVars
  <2>1. /\ window[w] \in Ids /\ window[w] \in Shown
        /\ window' = [window EXCEPT ![w] = NoId]
    BY <1>0, <1>1 DEF WindowCloses, Shown
  <2>2. Shown' \subseteq Shown /\ Shown \ {window[w]} \subseteq Shown'
    BY <1>0, <2>1 DEF Shown
  <2>3. Shown' = Shown \/ Shown' = Shown \ {window[w]}
    BY <2>2
  <2> QED BY <1>0, <2>1, <2>3 DEF Lives!Hide, Lives!Next, Lives!lifeVars
<1>2. ASSUME NEW w \in Popups, NEW i \in Ids, OpensPopup(w, i)
      PROVE  UNCHANGED Lives!lifeVars
  <2>1. PICK v \in Windows : window[v] = i
    BY <1>2 DEF OpensPopup, WindowsOf
  <2>2. window[w] = NoId /\ w \in Windows /\ window' = [window EXCEPT ![w] = i]
    BY <1>2 DEF OpensPopup, Windows
  <2>3. v # w /\ i # NoId
    BY <2>1, <2>2, IdentityAssumption
  <2>4. Shown' = Shown
    BY <1>0, <2>1, <2>2, <2>3 DEF Shown
  <2> QED BY <1>0, <2>4 DEF Lives!lifeVars
<1>3. ASSUME NEW r \in Requests, OpenVerifiedOpens(r)
      PROVE  Lives!Next
  <2> DEFINE i == open_id[r]
  <2>1. /\ phase[r] = "verified" /\ current = i /\ Exists(i)
        /\ window' = [window EXCEPT ![r] = i]
    BY <1>3 DEF OpenVerifiedOpens
  <2>2. i \in Ids /\ r \in Windows /\ i # NoId
    BY <2>1, IdentityAssumption DEF LifeInv, IdentityInv, CallHasProfile, Windows
  <2> HIDE DEF i
  <2>3. window[r] = NoId
    BY <2>1, <2>2 DEF LifeInv, IdentityInv, WindowOfCall
  <2>4. Shown' = Shown \cup {i}
    BY <1>0, <2>1, <2>2, <2>3 DEF Shown
  <2>5. profile[i] = "live" /\ i \notin ended
    BY <2>1, <2>2 DEF LifeInv, IdentityInv, ProfileInv, CurrentInUse
  <2>6. Life[i] = "open"
    BY <2>1, <2>2, <2>5 DEF Life
  <2> QED BY <1>0, <2>2, <2>4, <2>6 DEF Lives!Show, Lives!Next
<1> QED BY <1>1, <1>2, <1>3

\* Every step of the browser, the network service, the pages and Tor.
LEMMA StepRefines ==
  ASSUME LifeInv, [Next]_vars
  PROVE  Lives!Next \/ UNCHANGED Lives!lifeVars
<1> USE DEF endVars, chainVars, windowVars, callVars, netVars, envVars
<1>0. TypeOK
  BY DEF LifeInv
<1>1. CASE OnSettingChanged
  <2> DEFINE S == {i \in watched : settings_ok /\ Exists(i) /\ chain[<<i, "guard">>] = "idle"}
  <2>1. S \in SUBSET Ids /\ \A i \in S : profile[i] # "none"
    BY <1>0 DEF TypeOK, Exists
  <2>2. EndIdentity(S) /\ UNCHANGED <<profile, confirmed, window, epoch, sent>>
    BY <1>1 DEF OnSettingChanged, EndForChangedSettings
  <2> HIDE DEF S
  <2> QED BY <2>1, <2>2, EndIdentityRefines
<1>2. CASE \/ TurnOff \/ NetworkServiceCrashes \/ TorStarts \/ (\E r \in Opens : Open(r))
           \/ (\E n \in NewCalls : NewIdentityStep(n)) \/ UNCHANGED vars
  BY <1>2, LifeFrame DEF TurnOff, NetworkServiceCrashes, TorStarts, Open, NewIdentityStep,
     WaitForRetiredProfiles, RetireTimesOut, OnNewCircuits, vars
<1>3. CASE TorAppliesNewnym
  <2>1. Life' = Life /\ Shown' = Shown /\ epoch' = epoch + 1 /\ sent' = sent
    BY <1>3 DEF TorAppliesNewnym, Life, Shown
  <2> QED BY <2>1 DEF Lives!NewCircuits, Lives!Next
<1>4. ASSUME NEW i \in Ids, EndMoltNetIdentityForMemory(i) PROVE Lives!Next
  BY <1>4, EndIdentityRefines DEF EndMoltNetIdentityForMemory, EndForChangedSettings, Exists
<1>5. ASSUME NEW i \in Ids, NetworkEndDeadline(i)
      PROVE  Lives!Next \/ UNCHANGED Lives!lifeVars
  <2>1. /\ net_end[i] = "waiting" /\ net_end' = [net_end EXCEPT ![i] = "timed_out"]
        /\ UNCHANGED <<profile, ended, current, confirmed, window, epoch, sent>>
    BY <1>5 DEF NetworkEndDeadline
  <2>2. i \in ended
    BY <2>1 DEF LifeInv, IdentityInv, EndInv, EndProgress
  <2>3. \A j \in Ids \ {i} : net_end'[j] = net_end[j]
    BY <1>0, <2>1 DEF TypeOK
  <2> QED BY <2>1, <2>2, <2>3, SilenceRefines
<1>6. ASSUME NEW i \in Ids, DestroyIfUnused(i)
      PROVE  Lives!Next \/ UNCHANGED Lives!lifeVars
  BY <1>6, LeaveRefines, LifeFrame DEF DestroyIfUnused
<1>7. ASSUME NEW i \in Ids, ProfileDestroyed(i)
      PROVE  UNCHANGED Lives!lifeVars
  <2>1. /\ profile[i] = "destroying" /\ profile' = [profile EXCEPT ![i] = "gone"]
        /\ UNCHANGED <<ended, net_end, current, confirmed, window, epoch, sent>>
    BY <1>7 DEF ProfileDestroyed
  <2>2. \A j \in Ids : profile'[j] = "none" <=> profile[j] = "none"
    BY <1>0, <2>1 DEF TypeOK
  <2> QED BY <2>1, <2>2 DEF Life, Shown, Lives!lifeVars
<1>8. ASSUME NEW i \in Ids, NEW k \in Enders, EndStep(i, k)
      PROVE  Lives!Next \/ UNCHANGED Lives!lifeVars
  <2>1. CASE CloseEndedIdentity(i, k)
    BY <2>1, EndIdentityRefines, LifeFrame DEF CloseEndedIdentity, Exists
  <2>2. CASE RefusalConfirmed(i, k)
    <3>1. /\ chain[<<i, k>>] = "confirming" /\ confirmed' = confirmed \cup {i}
          /\ UNCHANGED <<profile, ended, net_end, current, window, epoch, sent>>
      BY <2>2 DEF RefusalConfirmed, CloseEndedWindows
    <3>2. i \in ended
      BY <3>1 DEF LifeInv, IdentityInv, EndInv, EndProgress
    <3> QED BY <3>1, <3>2, SilenceRefines
  <2>3. CASE StopPagesThenConfirmRefusal(i, k) \/ RefusalGivesUp(i, k)
               \/ ForceCloseRemainingWindows(i, k)
    BY <2>3, LifeFrame DEF StopPagesThenConfirmRefusal, RefusalGivesUp, CloseEndedWindows,
       ForceCloseRemainingWindows
  <2> QED BY <1>8, <2>1, <2>2, <2>3 DEF EndStep
<1>9. ASSUME NEW i \in Ids, NEW c \in Contexts, Answered(i, c)
      PROVE  Lives!Next \/ UNCHANGED Lives!lifeVars
  <2>1. /\ <<i, c>> \in holds
        /\ UNCHANGED <<profile, ended, current, confirmed, window, epoch, sent>>
        /\ \A j \in Ids \ {i} : net_end'[j] = net_end[j]
        /\ net_end'[i] \in {net_end[i], "reached"}
    BY <1>0, <1>9 DEF Answered, TypeOK
  <2>2. i \in ended
    BY <2>1 DEF LifeInv, IdentityInv, EndInv, EndProgress
  <2> QED BY <2>1, <2>2, SilenceRefines
<1>10. ASSUME NEW i \in Ids, NEW c \in Contexts, NetworkStep(i, c)
       PROVE  Lives!Next \/ UNCHANGED Lives!lifeVars
  BY <1>10, SendRefines, LifeFrame DEF NetworkStep, ContextStarts, ContextEnds, ContextCloses,
     RequestQueued
<1>11. CASE \/ \E w \in Windows : WindowCloses(w)
            \/ \E w \in Popups, i \in Ids : OpensPopup(w, i)
  BY <1>11, WindowRefines DEF WindowCloses, OpensPopup
<1>12. ASSUME NEW r \in Requests, OpenStep(r)
       PROVE  Lives!Next \/ UNCHANGED Lives!lifeVars
  <2>1. CASE OnTorReady(r)
    BY <2>1, MakeRefines, LifeFrame DEF OnTorReady, OnTorReadyRefuses
  <2>2. CASE OpenVerifiedWindow(r) /\ OpenVerifiedOpens(r)
    BY <2>2, WindowRefines DEF OpenVerifiedWindow
  <2>3. CASE OnParentalControls(r) \/ RoutingCheckAnswers(r)
               \/ (OpenVerifiedWindow(r) /\ OpenVerifiedRefuses(r))
    BY <2>3, LifeFrame DEF OnParentalControls, RoutingCheckAnswers, OpenVerifiedWindow,
       OpenVerifiedRefuses
  <2> QED BY <1>12, <2>1, <2>2, <2>3 DEF OpenStep, OpenVerifiedWindow
<1>13. ASSUME NEW n \in NewCalls, NewIdentity(n)
       PROVE  Lives!Next \/ UNCHANGED Lives!lifeVars
  <2>1. CASE switching
    BY <1>13, <2>1, LifeFrame DEF NewIdentity
  <2>2. CASE ~switching
    <3>1. PICK S \in SUBSET Ids : EndIdentity(S) /\ \A i \in S : Exists(i)
      BY <1>13, <2>2 DEF NewIdentity, NewIdentityBegins
    <3> QED BY <1>13, <3>1, EndIdentityRefines DEF NewIdentity, Exists
  <2> QED BY <2>1, <2>2
<1> QED BY <1>1, <1>2, <1>3, <1>4, <1>5, <1>6, <1>7, <1>8, <1>9, <1>10, <1>11, <1>12, <1>13
        DEF Next

\* MoltNetIdentity implements IdentityLife: one identity in use at a time, and
\* one whose end has reached its network silent for good (MoltNetWindow,
\* MoltNetRouting::EndIdentity(), NetworkContext::MoltEndIdentity()).
THEOREM IdentityLifeImplemented == Spec => ImplementsIdentityLife
<1>1. Init => Lives!Init
  BY DEF Init, Lives!Init, Life, Shown
<1>2. LifeInv /\ [Next]_vars => [Lives!Next]_Lives!lifeVars
  BY StepRefines
<1>3. TypeOK /\ CallHasProfile /\ IdentityInv => LifeInv
  BY DEF LifeInv
<1> QED BY <1>1, <1>2, <1>3, IdentityCorrect, TypeCorrect, PTL
        DEF Spec, ImplementsIdentityLife, Lives!Spec
=============================================================================
