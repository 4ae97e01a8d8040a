--------------------------- MODULE MoltNetIdentity ---------------------------
(***************************************************************************)
(* The MoltNet identities of one profile (molt_net_window.cc and           *)
(* molt_net_routing.cc in chrome/browser/molt_ai/tor, with the network     *)
(* service's half of an identity's end).  An identity is an off-the-record *)
(* profile: windows open in it, pages of it send through its network       *)
(* contexts, and it ends by New Identity, the live guard or the memory     *)
(* valve, or simply by its last window closing.                            *)
(*                                                                         *)
(* Each task of the browser's UI thread and of the network service is one  *)
(* step.  The two processes, the renderers, Tor and the user take theirs   *)
(* in any order; messages on different pipes overtake one another.  A page *)
(* request is only "queued" at a context, and the circuits it leaves on    *)
(* are known by how many NEWNYM signals Tor had applied.                   *)
(***************************************************************************)
EXTENDS Naturals, FiniteSets

CONSTANTS
  Ids,             \* OTR profiles that can be created
  NoId,
  Contexts,        \* storage partitions' network contexts of one identity
  DefaultContext,  \* the one VerifyRouting() asks
  Opens,           \* calls of MoltNetWindow::Open()
  NewCalls,        \* calls of MoltNetWindow::NewIdentity()
  Popups,          \* windows opened from another window of the identity
  Watchers,        \* which of "guard" and "memory" may end an identity
  Senders,         \* bound: the identities whose requests are followed
  MaxEpoch,        \* bound on the NEWNYM signals Tor applies
  ForceRounds      \* kMaxForceCloseRounds

Requests == Opens \cup NewCalls
Windows  == Requests \cup Popups
Pairs    == Ids \X Contexts
\* Who ends an identity: the live guard, the memory valve, a New Identity.
Enders   == Watchers \cup NewCalls
Epochs   == 0..MaxEpoch

ASSUME IdentityAssumption ==
  /\ NoId \notin Ids
  /\ DefaultContext \in Contexts
  /\ Opens \cap NewCalls = {} /\ Popups \cap (Opens \cup NewCalls) = {}
  /\ Watchers \subseteq {"guard", "memory"} /\ Watchers \cap NewCalls = {}
  /\ MaxEpoch \in Nat /\ ForceRounds \in Nat

VARIABLES
  (* UI thread *)
  profile,        \* the OTR profile: none, live, destroying, gone
  current,        \* kMoltNetProfileDataKey: where the next window opens
  ended,          \* kMoltNetIdentityEndedKey, as the set that has it
  watched,        \* profiles with a MoltNetLiveGuard watch
  net_end,        \* NetworkEnd: none, waiting, reached, timed_out
  holds,          \* its outstanding_ answers, by context
  chain,          \* EndIdentityAndCloseWindows() by who called it
  confirmed,      \* identities whose RefusalCheck confirmed the refusal
  force_left,     \* rounds_left of ForceCloseRemainingWindows()
  switching,      \* ProfilesSwitchingIdentity() holds this profile
  destroy_posted, \* identities with a DestroyIfUnused() task
  window,         \* the identity each open window belongs to
  settings_ok,    \* CheckMoltNetSettings() accepts the settings
  tor_running,    \* TorManager::IsRunning()
  (* per Open() or NewIdentity() call *)
  phase, open_id, retiring, signal_from,
  (* renderers, network service, Tor *)
  pages,          \* identities whose renderers run
  ctx,            \* each network context: none, running, ended
  queued,         \* contexts with a page's request still unread
  epoch,          \* NEWNYM signals Tor has applied
  sent            \* history: the epochs in which each identity sent

endVars    == <<ended, net_end, holds, current>>
chainVars  == <<chain, confirmed, force_left>>
windowVars == <<window, destroy_posted>>
callVars   == <<phase, open_id, retiring, signal_from, switching>>
netVars    == <<ctx, queued, sent>>
envVars    == <<settings_ok, tor_running, epoch>>
vars == <<profile, watched, pages, endVars, chainVars, windowVars, callVars,
          netVars, envVars>>

-----------------------------------------------------------------------------
(* State *)

\* HasOffTheRecordProfile(): until ProfileDestroyer is done with it.
Exists(i) == profile[i] \in {"live", "destroying"}

WindowsOf(i) == {w \in Windows : window[w] = i}

Init ==
  /\ profile = [i \in Ids |-> "none"]
  /\ current = NoId /\ ended = {} /\ watched = {}
  /\ net_end = [i \in Ids |-> "none"] /\ holds = {}
  /\ chain = [x \in Ids \X Enders |-> "idle"] /\ confirmed = {}
  /\ force_left = [x \in Ids \X Enders |-> 0]
  /\ switching = FALSE
  /\ destroy_posted = {} /\ window = [w \in Windows |-> NoId]
  /\ settings_ok = TRUE /\ tor_running = FALSE
  /\ phase = [r \in Requests |-> "unused"]
  /\ open_id = [r \in Requests |-> NoId]
  /\ retiring = [n \in NewCalls |-> {}]
  /\ signal_from = [n \in NewCalls |-> 0]
  /\ pages = {} /\ ctx = [x \in Pairs |-> "none"] /\ queued = {}
  /\ epoch = 0 /\ sent = [i \in Ids |-> {}]

-----------------------------------------------------------------------------
(* Ending an identity *)

\* MoltNetRouting::EndIdentity() for each identity of S: the first time, the
\* identity is marked, its running contexts are sent the end and their
\* answers awaited; every time, it stops being the current one.
EndIdentity(S) ==
  LET first == S \ ended
      asked == {x \in Pairs : x[1] \in first /\ ctx[x] # "none"}
  IN /\ ended' = ended \cup S
     /\ holds' = holds \cup asked
     /\ net_end' = [i \in Ids |->
          IF i \notin first THEN net_end[i]
          ELSE IF \E x \in asked : x[1] = i THEN "waiting" ELSE "reached"]
     /\ current' = IF current \in S THEN NoId ELSE current

\* EndForChangedSettings(), the live guard's and the memory valve's way to
\* end the identities of S: the end now, the rest in a task of its own.
EndForChangedSettings(S, k) ==
  /\ EndIdentity(S)
  /\ chain' = [x \in Ids \X Enders |->
                 IF x[1] \in S /\ x[2] = k THEN "posted" ELSE chain[x]]
  /\ UNCHANGED <<profile, watched, pages, confirmed, force_left, windowVars,
                 callVars, netVars, tor_running, epoch>>

\* A setting changes; the guard checks every watched identity it has not
\* refused before.
OnSettingChanged ==
  /\ "guard" \in Watchers /\ settings_ok' = ~settings_ok
  /\ EndForChangedSettings(
       {i \in watched : settings_ok /\ Exists(i)
                          /\ chain[<<i, "guard">>] = "idle"}, "guard")

EndMoltNetIdentityForMemory(i) ==
  /\ "memory" \in Watchers /\ Exists(i) /\ i \notin ended
  /\ EndForChangedSettings({i}, "memory")
  /\ UNCHANGED settings_ok

\* CloseEndedIdentity(): EndIdentity() again, then wait for the network.
CloseEndedIdentity(i, k) ==
  /\ chain[<<i, k>>] = "posted"
  /\ chain' = [chain EXCEPT ![<<i, k>>] = IF Exists(i) THEN "waiting" ELSE "done"]
  /\ IF Exists(i) THEN EndIdentity({i}) ELSE UNCHANGED endVars
  /\ UNCHANGED <<profile, watched, pages, confirmed, force_left, windowVars,
                 callVars, netVars, envVars>>

\* NetworkEnd::Answered(): a context has ended, or is gone.
Answered(i, c) ==
  /\ <<i, c>> \in holds /\ ctx[<<i, c>>] # "running"
  /\ holds' = holds \ {<<i, c>>}
  /\ net_end' = [net_end EXCEPT ![i] =
       IF @ = "waiting" /\ Exists(i)
            /\ {x \in holds : x[1] = i} = {<<i, c>>} THEN "reached" ELSE @]
  /\ UNCHANGED <<profile, watched, pages, ended, current, chainVars,
                 windowVars, callVars, netVars, envVars>>

\* A bug: only the answers are waited for.
NetworkEndDeadlineNever(i) == FALSE /\ i \in Ids /\ UNCHANGED vars

\* NetworkEnd::OnDeadline(), kMoltNetEndProbeDeadlineMs after the end.
NetworkEndDeadline(i) ==
  /\ net_end[i] = "waiting" /\ Exists(i)
  /\ net_end' = [net_end EXCEPT ![i] = "timed_out"]
  /\ UNCHANGED <<profile, watched, pages, ended, holds, current, chainVars,
                 windowVars, callVars, netVars, envVars>>

\* A bug: the pages are stopped without waiting for the network.
StopPagesAtOnce(i, k) ==
  /\ chain[<<i, k>>] = "waiting"
  /\ pages' = pages \ {i}
  /\ chain' = [chain EXCEPT ![<<i, k>>] =
                 IF Exists(i) THEN "confirming" ELSE "done"]
  /\ UNCHANGED <<profile, watched, endVars, confirmed, force_left,
                 windowVars, callVars, netVars, envVars>>

\* StopPagesThenConfirmRefusal(), posted once the network has the end.
StopPagesThenConfirmRefusal(i, k) ==
  /\ chain[<<i, k>>] = "waiting" /\ net_end[i] \in {"reached", "timed_out"}
  /\ pages' = IF Exists(i) THEN pages \ {i} ELSE pages
  /\ chain' = [chain EXCEPT ![<<i, k>>] =
                 IF Exists(i) THEN "confirming" ELSE "done"]
  /\ UNCHANGED <<profile, watched, endVars, confirmed, force_left,
                 windowVars, callVars, netVars, envVars>>

\* CloseEndedWindows(): every window is told to close (WindowCloses), unless
\* the profile is gone already; ForceCloseRemainingWindows() follows.
CloseEndedWindows(i, k) ==
  /\ chain' = [chain EXCEPT ![<<i, k>>] = IF Exists(i) THEN "closing" ELSE "done"]
  /\ force_left' = [force_left EXCEPT ![<<i, k>>] = ForceRounds]
  /\ destroy_posted' = IF Exists(i) THEN destroy_posted \cup {i}
                                    ELSE destroy_posted
  /\ UNCHANGED <<profile, watched, pages, endVars, window, callVars, netVars,
                 envVars>>

\* A bug: one context's refusal is enough.
RefusalConfirmedByOne(i, k) ==
  /\ chain[<<i, k>>] = "confirming" /\ Exists(i)
  /\ \E c \in Contexts : ctx[<<i, c>>] # "running"
  /\ confirmed' = confirmed \cup {i}
  /\ CloseEndedWindows(i, k)

\* A round of RefusalCheck in which every context refuses.  A context that
\* refuses does so for good and one made later starts that way, so the
\* answers, given one after another, all hold when the last one comes.
RefusalConfirmed(i, k) ==
  /\ chain[<<i, k>>] = "confirming" /\ Exists(i)
  /\ \A c \in Contexts : ctx[<<i, c>>] # "running"
  /\ confirmed' = confirmed \cup {i}
  /\ CloseEndedWindows(i, k)

\* RefusalCheck's deadline, or its profile is gone: the end goes on anyway.
RefusalGivesUp(i, k) ==
  /\ chain[<<i, k>>] = "confirming"
  /\ UNCHANGED confirmed
  /\ CloseEndedWindows(i, k)

\* A bug: the rounds are counted down below zero.
ForceCloseOnceMore(i, k) ==
  /\ chain[<<i, k>>] = "closing"
  /\ Exists(i) /\ WindowsOf(i) # {}
  /\ pages' = pages \ {i}
  /\ force_left' = [force_left EXCEPT ![<<i, k>>] = @ - 1]
  /\ UNCHANGED chain
  /\ UNCHANGED <<profile, watched, endVars, confirmed, windowVars, callVars,
                 netVars, envVars>>

\* ForceCloseRemainingWindows(), kForceCloseGrace after the last round.
ForceCloseRemainingWindows(i, k) ==
  /\ chain[<<i, k>>] = "closing"
  /\ IF Exists(i) /\ WindowsOf(i) # {}
     THEN /\ pages' = pages \ {i}
          /\ IF force_left[<<i, k>>] > 0
             THEN force_left' = [force_left EXCEPT ![<<i, k>>] = @ - 1]
                  /\ UNCHANGED chain
             ELSE chain' = [chain EXCEPT ![<<i, k>>] = "done"]
                  /\ UNCHANGED force_left
     ELSE /\ chain' = [chain EXCEPT ![<<i, k>>] = "done"]
          /\ UNCHANGED <<pages, force_left>>
  /\ UNCHANGED <<profile, watched, endVars, confirmed, windowVars, callVars,
                 netVars, envVars>>

-----------------------------------------------------------------------------
(* Windows closing and profiles going away *)

\* The body of DestroyIfUnused(), which ProfileDestroyer completes.
Destroy(i) ==
  LET unused == Exists(i) /\ WindowsOf(i) = {}
  IN /\ profile' = IF unused THEN [profile EXCEPT ![i] = "destroying"] ELSE profile
     /\ current' = IF unused /\ current = i THEN NoId ELSE current

\* The posted task.  One posted for a window that closed waits for its
\* Browser to be deleted and gives up if that takes too long.
DestroyIfUnused(i) ==
  /\ i \in destroy_posted /\ destroy_posted' = destroy_posted \ {i}
  /\ Destroy(i) \/ UNCHANGED <<profile, current>>
  /\ UNCHANGED <<watched, pages, ended, net_end, holds, chainVars, window,
                 callVars, netVars, envVars>>

\* External: ProfileDestroyer frees the profile once its renderers are gone
\* or its timeout has passed.  The live guard drops its watch.
ProfileDestroyed(i) ==
  /\ profile[i] = "destroying"
  /\ profile' = [profile EXCEPT ![i] = "gone"]
  /\ pages' = pages \ {i} /\ watched' = watched \ {i}
  /\ UNCHANGED <<endVars, chainVars, windowVars, callVars, netVars, envVars>>

\* A window closes, told to (CloseEndedWindows(), TurnOff()) or by the user:
\* OnBrowserClosed().
WindowCloses(w) ==
  /\ window[w] # NoId
  /\ window' = [window EXCEPT ![w] = NoId]
  /\ destroy_posted' = destroy_posted \cup {window[w]}
  /\ UNCHANGED <<profile, watched, pages, endVars, chainVars, callVars,
                 netVars, envVars>>

\* A page, or the user, opens another window from a window of i.
OpensPopup(w, i) ==
  /\ w \in Popups /\ window[w] = NoId /\ WindowsOf(i) # {}
  /\ window' = [window EXCEPT ![w] = i]
  /\ UNCHANGED <<profile, watched, pages, endVars, chainVars, destroy_posted,
                 callVars, netVars, envVars>>

\* MoltNetWindow::TurnOff(): TorManager::Stop(), and every window is told to
\* close, which a page's "Leave site?" may refuse.
TurnOff ==
  /\ tor_running /\ tor_running' = FALSE
  /\ UNCHANGED <<profile, watched, pages, endVars, chainVars, windowVars,
                 callVars, netVars, settings_ok, epoch>>

-----------------------------------------------------------------------------
(* Opening a window *)

\* The call's DoneCallback gets an error; for a New Identity through
\* FinishNewIdentity().
Fail(r) ==
  /\ phase' = [phase EXCEPT ![r] = "failed"]
  /\ switching' = (switching /\ r \notin NewCalls)

\* An ordinary Open() met by a New Identity under way, at whatever stage.
Interrupted(r) == r \in Opens /\ switching

\* OpenImpl(), which refuses at once or asks for the parental controls.
OpenImpl(r) ==
  \/ Fail(r)
  \/ ~Interrupted(r) /\ phase' = [phase EXCEPT ![r] = "parental"]
       /\ UNCHANGED switching

Open(r) ==
  /\ r \in Opens /\ phase[r] = "unused"
  /\ OpenImpl(r)
  /\ UNCHANGED <<profile, watched, pages, endVars, chainVars, windowVars,
                 open_id, retiring, signal_from, netVars, envVars>>

\* The parental controls' answer: refuse, or TorManager::Launch().
OnParentalControls(r) ==
  /\ phase[r] = "parental"
  /\ \/ Fail(r)
     \/ phase' = [phase EXCEPT ![r] = "tor"] /\ UNCHANGED switching
  /\ UNCHANGED <<profile, watched, pages, endVars, chainVars, windowVars,
                 open_id, retiring, signal_from, netVars, envVars>>

\* OnTorReady() and GetOrCreateMoltNetProfile().  A Launch() that succeeded
\* may find Tor stopped again by the time its result arrives (port 0): the
\* profile is made all the same, refused and given up.
OnTorReadyRefuses(r) ==
  /\ phase[r] = "tor" /\ Fail(r)
  /\ UNCHANGED <<profile, current, watched, open_id, destroy_posted>>

\* A bug: an ordinary window on its way ignores a New Identity.
OnTorReadyIgnoresSwitch(r, i) ==
  /\ phase[r] = "tor"
  /\ current = i \/ (current = NoId /\ profile[i] = "none")
  /\ current' = i /\ profile' = [profile EXCEPT ![i] = "live"]
  /\ settings_ok /\ tor_running
  /\ watched' = watched \cup {i}
  /\ open_id' = [open_id EXCEPT ![r] = i]
  /\ phase' = [phase EXCEPT ![r] = "verifying"]
  /\ UNCHANGED <<switching, destroy_posted>>

\* A bug: each window gets a profile of its own, whether there is a current
\* one or not.
OnTorReadyMakesAnother(r, i) ==
  /\ phase[r] = "tor" /\ ~Interrupted(r)
  /\ profile[i] = "none"
  /\ current' = i /\ profile' = [profile EXCEPT ![i] = "live"]
  /\ settings_ok /\ tor_running
  /\ watched' = watched \cup {i}
  /\ open_id' = [open_id EXCEPT ![r] = i]
  /\ phase' = [phase EXCEPT ![r] = "verifying"]
  /\ UNCHANGED <<switching, destroy_posted>>

\* The current profile, or a new one, given Tor's proxy settings.
OnTorReadyIn(r, i) ==
  /\ phase[r] = "tor" /\ ~Interrupted(r)
  /\ current = i \/ (current = NoId /\ profile[i] = "none")
  /\ current' = i /\ profile' = [profile EXCEPT ![i] = "live"]
  /\ IF settings_ok /\ tor_running
     THEN /\ watched' = watched \cup {i}
          /\ open_id' = [open_id EXCEPT ![r] = i]
          /\ phase' = [phase EXCEPT ![r] = "verifying"]
          /\ UNCHANGED <<switching, destroy_posted>>
     ELSE /\ Fail(r)
          /\ destroy_posted' = destroy_posted \cup {i}
          /\ UNCHANGED <<watched, open_id>>

OnTorReady(r) ==
  /\ OnTorReadyRefuses(r) \/ \E i \in Ids : OnTorReadyIn(r, i)
  /\ UNCHANGED <<pages, ended, net_end, holds, chainVars, window,
                 retiring, signal_from, netVars, envVars>>

\* RoutingCheck's answer: only a context that still routes to Tor verifies.
RoutingCheckAnswers(r) ==
  /\ phase[r] = "verifying"
  /\ \/ /\ ctx[<<open_id[r], DefaultContext>>] = "running"
        /\ phase' = [phase EXCEPT ![r] = "verified"]
     \/ phase' = [phase EXCEPT ![r] = "unrouted"]
  /\ UNCHANGED <<profile, watched, pages, endVars, chainVars, windowVars,
                 open_id, retiring, signal_from, switching, netVars, envVars>>

\* OpenVerifiedWindow(), every way it refuses: an interruption, a bad
\* routing, a setting that changed, an identity that is not the current one
\* any more, a window that cannot be created.
OpenVerifiedRefuses(r) ==
  LET i == open_id[r] IN
  /\ Fail(r)
  /\ \/ /\ Interrupted(r) \/ ~Exists(i) \/ (phase[r] = "verified" /\ settings_ok)
        /\ UNCHANGED destroy_posted
     \/ /\ ~Interrupted(r) /\ Exists(i)
        /\ phase[r] = "unrouted" \/ ~settings_ok \/ current = i
        /\ destroy_posted' = destroy_posted \cup {i}
  /\ UNCHANGED <<window, pages>>

OpenVerifiedOpens(r) ==
  LET i == open_id[r] IN
  /\ phase[r] = "verified" /\ ~Interrupted(r)
  /\ settings_ok /\ Exists(i) /\ current = i
  /\ window' = [window EXCEPT ![r] = i] /\ pages' = pages \cup {i}
  /\ phase' = [phase EXCEPT ![r] = "ok"]
  /\ switching' = (switching /\ r \notin NewCalls)
  /\ UNCHANGED destroy_posted

OpenVerifiedWindow(r) ==
  /\ phase[r] \in {"verified", "unrouted"}
  /\ OpenVerifiedRefuses(r) \/ OpenVerifiedOpens(r)
  /\ UNCHANGED <<profile, watched, endVars, chainVars, open_id, retiring,
                 signal_from, netVars, envVars>>

-----------------------------------------------------------------------------
(* New Identity *)

\* TorManager::SendNewIdentitySignal(), which fails at once without Tor.
SendNewIdentitySignal(n) ==
  /\ IF tor_running
     THEN phase' = [phase EXCEPT ![n] = "signalling"] /\ switching' = TRUE
     ELSE phase' = [phase EXCEPT ![n] = "failed"] /\ switching' = FALSE
  /\ signal_from' = [signal_from EXCEPT ![n] = epoch]

\* A bug: only the current profile ends, not an older one with a window.
NewIdentityBeginsHere(n) ==
  LET old == {i \in Ids : current = i} IN
  /\ retiring' = [retiring EXCEPT ![n] = old]
  /\ EndIdentity(old)
  /\ chain' = [x \in Ids \X Enders |->
                 IF x[1] \in old /\ x[2] = n THEN "waiting" ELSE chain[x]]
  /\ IF old = {} THEN SendNewIdentitySignal(n)
     ELSE /\ phase' = [phase EXCEPT ![n] = "retiring"]
          /\ switching' = TRUE /\ UNCHANGED signal_from

\* NewIdentity(): refused while another is under way; otherwise every
\* MoltNet profile there is ends, and the first look of
\* WaitForRetiredProfiles() follows at once.
NewIdentityBegins(n) ==
  LET old == {i \in Ids : Exists(i)} IN
  /\ retiring' = [retiring EXCEPT ![n] = old]
  /\ EndIdentity(old)
  /\ chain' = [x \in Ids \X Enders |->
                 IF x[1] \in old /\ x[2] = n THEN "waiting" ELSE chain[x]]
  /\ IF old = {} THEN SendNewIdentitySignal(n)
     ELSE /\ phase' = [phase EXCEPT ![n] = "retiring"]
          /\ switching' = TRUE /\ UNCHANGED signal_from

NewIdentity(n) ==
  /\ phase[n] = "unused"
  /\ IF switching
     THEN /\ phase' = [phase EXCEPT ![n] = "failed"]
          /\ UNCHANGED <<endVars, chain, retiring, signal_from, switching>>
     ELSE NewIdentityBegins(n)
  /\ UNCHANGED <<profile, watched, pages, confirmed, force_left, windowVars,
                 open_id, netVars, envVars>>

\* A bug: the windows of the old identity are waited for, not its profile.
WaitForRetiredWindows(n) ==
  /\ phase[n] = "retiring"
  /\ \A i \in retiring[n] : WindowsOf(i) = {}
  /\ SendNewIdentitySignal(n)
  /\ UNCHANGED <<profile, watched, pages, endVars, chainVars, windowVars,
                 open_id, retiring, netVars, envVars>>

\* WaitForRetiredProfiles() finds none of them left.
WaitForRetiredProfiles(n) ==
  /\ phase[n] = "retiring"
  /\ \A i \in retiring[n] : ~Exists(i)
  /\ SendNewIdentitySignal(n)
  /\ UNCHANGED <<profile, watched, pages, endVars, chainVars, windowVars,
                 open_id, retiring, netVars, envVars>>

\* A bug: New Identity waits for the old profile however long it takes.
RetireTimesOutNever(n) == FALSE /\ phase[n] = "retiring" /\ UNCHANGED vars

\* ... or still finds one at its deadline.
RetireTimesOut(n) ==
  /\ phase[n] = "retiring" /\ (\E i \in retiring[n] : Exists(i))
  /\ Fail(n)
  /\ UNCHANGED <<profile, watched, pages, endVars, chainVars, windowVars,
                 open_id, retiring, signal_from, netVars, envVars>>

\* OnNewCircuits(): SendNewIdentitySignal() failed, or Tor has applied a
\* NEWNYM since (TorManager's NewIdentityMeansNewCircuits) and New
\* Identity's own window opens.
OnNewCircuits(n) ==
  /\ phase[n] = "signalling"
  /\ Fail(n) \/ (epoch > signal_from[n] /\ OpenImpl(n))
  /\ UNCHANGED <<profile, watched, pages, endVars, chainVars, windowVars,
                 open_id, retiring, signal_from, netVars, envVars>>

-----------------------------------------------------------------------------
(* The network service, the pages and Tor *)

\* A bug: a context made again after the end routes to Tor once more.
ContextStartsRunning(i, c) ==
  /\ Exists(i) /\ ctx[<<i, c>>] = "none"
  /\ ctx' = [ctx EXCEPT ![<<i, c>>] = "running"]
  /\ UNCHANGED <<profile, watched, pages, endVars, chainVars, windowVars,
                 callVars, queued, sent, envVars>>

\* ProxyConfigMonitor::AddToNetworkContextParams(): a storage partition's
\* context is made, with the refusal if the identity has ended.
ContextStarts(i, c) ==
  /\ Exists(i) /\ ctx[<<i, c>>] = "none"
  /\ ctx' = [ctx EXCEPT ![<<i, c>>] = IF i \in ended THEN "ended" ELSE "running"]
  /\ UNCHANGED <<profile, watched, pages, endVars, chainVars, windowVars,
                 callVars, queued, sent, envVars>>

\* NetworkContext::MoltEndIdentity() when the refusal arrives: nothing new
\* is admitted and the requests still in its pipes are dropped unread.
ContextEnds(i, c) ==
  /\ <<i, c>> \in holds /\ ctx[<<i, c>>] = "running"
  /\ ctx' = [ctx EXCEPT ![<<i, c>>] = "ended"]
  /\ queued' = queued \ {<<i, c>>}
  /\ UNCHANGED <<profile, watched, pages, endVars, chainVars, windowVars,
                 callVars, sent, envVars>>

\* A storage partition goes with its profile and closes its end of the
\* context's pipe; the context hears of it.
ContextCloses(i, c) ==
  /\ profile[i] = "gone" /\ ctx[<<i, c>>] # "none"
  /\ ctx' = [ctx EXCEPT ![<<i, c>>] = "none"]
  /\ queued' = queued \ {<<i, c>>}
  /\ UNCHANGED <<profile, watched, pages, endVars, chainVars, windowVars,
                 callVars, sent, envVars>>

\* External: the network service crashes, and with it every context.
NetworkServiceCrashes ==
  /\ \E x \in Pairs : ctx[x] # "none"
  /\ ctx' = [x \in Pairs |-> "none"] /\ queued' = {}
  /\ UNCHANGED <<profile, watched, pages, endVars, chainVars, windowVars,
                 callVars, sent, envVars>>

\* A request enters a context's pipe: a page's own, or one the browser holds
\* for a page (a keepalive, a download), which it stops sending at the end.
\* One that enters the pipe of an ended context has no effect.
RequestQueued(i, c) ==
  /\ i \in Senders
  /\ i \in pages \/ (Exists(i) /\ i \notin ended)
  /\ ctx[<<i, c>>] = "running"
  /\ queued' = queued \cup {<<i, c>>}
  /\ UNCHANGED <<profile, watched, pages, endVars, chainVars, windowVars,
                 callVars, ctx, sent, envVars>>

\* URLLoaderFactory::CreateLoaderAndStart(): MoltAdmits() it, and it leaves
\* on the circuits Tor has now.
ContextHandles(i, c) ==
  /\ <<i, c>> \in queued /\ queued' = queued \ {<<i, c>>}
  /\ sent' = IF ctx[<<i, c>>] = "running"
             THEN [sent EXCEPT ![i] = @ \cup {epoch}] ELSE sent
  /\ UNCHANGED <<profile, watched, pages, endVars, chainVars, windowVars,
                 callVars, ctx, envVars>>

\* TorManager::Launch() succeeds, for a window on its way or for another caller.
TorStarts ==
  /\ ~tor_running
  /\ tor_running' = TRUE
  /\ UNCHANGED <<profile, watched, pages, endVars, chainVars, windowVars,
                 callVars, netVars, settings_ok, epoch>>

\* External.
TorAppliesNewnym ==
  /\ tor_running /\ epoch < MaxEpoch
  /\ epoch' = epoch + 1
  /\ UNCHANGED <<profile, watched, pages, endVars, chainVars, windowVars,
                 callVars, netVars, settings_ok, tor_running>>

-----------------------------------------------------------------------------
(* Specification *)

EndStep(i, k) ==
  \/ CloseEndedIdentity(i, k) \/ StopPagesThenConfirmRefusal(i, k)
  \/ RefusalConfirmed(i, k) \/ RefusalGivesUp(i, k)
  \/ ForceCloseRemainingWindows(i, k)

OpenStep(r) ==
  \/ OnParentalControls(r) \/ OnTorReady(r)
  \/ RoutingCheckAnswers(r) \/ OpenVerifiedWindow(r)

NewIdentityStep(n) ==
  WaitForRetiredProfiles(n) \/ RetireTimesOut(n) \/ OnNewCircuits(n)

NetworkStep(i, c) ==
  \/ ContextStarts(i, c) \/ ContextEnds(i, c) \/ ContextCloses(i, c)
  \/ RequestQueued(i, c) \/ ContextHandles(i, c)

Next ==
  \/ OnSettingChanged \/ TurnOff
  \/ NetworkServiceCrashes \/ TorStarts \/ TorAppliesNewnym
  \/ \E i \in Ids :
       \/ EndMoltNetIdentityForMemory(i) \/ NetworkEndDeadline(i)
       \/ DestroyIfUnused(i) \/ ProfileDestroyed(i)
       \/ \E w \in Popups : OpensPopup(w, i)
       \/ \E k \in Enders : EndStep(i, k)
       \/ \E c \in Contexts : Answered(i, c) \/ NetworkStep(i, c)
  \/ \E w \in Windows : WindowCloses(w)
  \/ \E r \in Opens : Open(r)
  \/ \E r \in Requests : OpenStep(r)
  \/ \E n \in NewCalls : NewIdentity(n) \/ NewIdentityStep(n)

Spec == Init /\ [][Next]_vars

\* What the UI thread has to do: its tasks and timers, and the answers it gets
\* from TorManager, which does answer Launch() and SendNewIdentitySignal() (its
\* own liveness properties).
UiTask ==
  \/ \E i \in Ids : NetworkEndDeadline(i) \/ \E k \in Enders : EndStep(i, k)
  \/ \E r \in Requests :
       OnParentalControls(r) \/ OnTorReady(r) \/ OpenVerifiedWindow(r)
  \/ \E n \in NewCalls : NewIdentityStep(n)

\* The UI thread does not stop while it has something to do; in which order it
\* does it is open.  Nothing is assumed of the network service, which may never
\* answer a routing check, of Tor or of the user.
Fairness == WF_vars(UiTask)

FairSpec == Spec /\ Fairness

-----------------------------------------------------------------------------
(* Properties *)

\* Every variable has its type: in particular the rounds of
\* ForceCloseRemainingWindows() end.
TypeOK ==
  /\ profile \in [Ids -> {"none", "live", "destroying", "gone"}]
  /\ current \in Ids \cup {NoId}
  /\ ended \subseteq Ids /\ watched \subseteq Ids
  /\ net_end \in [Ids -> {"none", "waiting", "reached", "timed_out"}]
  /\ holds \subseteq Pairs
  /\ chain \in [Ids \X Enders -> {"idle", "posted", "waiting", "confirming",
                                  "closing", "done"}]
  /\ confirmed \subseteq Ids
  /\ force_left \in [Ids \X Enders -> 0..ForceRounds]
  /\ switching \in BOOLEAN
  /\ destroy_posted \subseteq Ids
  /\ window \in [Windows -> Ids \cup {NoId}]
  /\ settings_ok \in BOOLEAN /\ tor_running \in BOOLEAN
  /\ phase \in [Requests -> {"unused", "retiring", "signalling", "parental",
                  "tor", "verifying", "verified", "unrouted", "ok", "failed"}]
  /\ open_id \in [Requests -> Ids \cup {NoId}]
  /\ retiring \in [NewCalls -> SUBSET Ids]
  /\ signal_from \in [NewCalls -> Nat]
  /\ pages \subseteq Ids
  /\ ctx \in [Pairs -> {"none", "running", "ended"}]
  /\ queued \subseteq Pairs
  /\ epoch \in Nat /\ sent \in [Ids -> SUBSET Nat]

\* A window is never open in a profile that is being destroyed or is gone,
\* whichever of Open(), the reaper and an identity's end comes first.
WindowsOutlivedByProfile ==
  \A w \in Windows : window[w] # NoId => profile[window[w]] = "live"

\* Two identities never have windows side by side, unless one of them has
\* ended and refuses everything: an identity with windows that has not ended
\* is the current one.
OneIdentity ==
  \A w \in Windows : window[w] # NoId => window[w] \in ended \cup {current}

\* While New Identity waits for new circuits and for Tor, until it makes its own
\* profile, there is no MoltNet profile: no other call makes one in between,
\* whatever it had checked before.
SwitchIsExclusive ==
  \A n \in NewCalls : phase[n] \in {"signalling", "parental", "tor"} =>
    \A i \in Ids : ~Exists(i)

\* A context of an ended identity still routes to Tor only while the browser
\* waits for its answer: contexts made after the end, or again after a
\* crash, start ended.
EndReachesContexts ==
  \A i \in ended, c \in Contexts :
    ctx[<<i, c>>] = "running" => <<i, c>> \in holds

\* Nobody who acts for the identity is told of its end before its network
\* is: its pages are stopped when every context has ended, or at the
\* deadline.
PagesStopAfterNetwork ==
  \A i \in Ids, k \in Enders :
    chain[<<i, k>>] \in {"confirming", "closing"} =>
      \/ net_end[i] = "timed_out"
      \/ \A c \in Contexts : ctx[<<i, c>>] # "running"

\* A confirmed refusal is a refusal: no context of the identity routes to
\* Tor from then on, also when the end had run into its deadline.
ConfirmedMeansRefusing ==
  \A i \in confirmed, c \in Contexts : ctx[<<i, c>>] # "running"

\* The identity New Identity opens never sends on circuits that an identity
\* it retired has sent on, as far as the end had reached that one's network.
NewIdentitySeparates ==
  \A n \in NewCalls : phase[n] = "ok" =>
    \A i \in retiring[n] : net_end[i] = "reached" =>
      sent[i] \cap sent[open_id[n]] = {}

\* "The old identity's profile, and with it its network context and every
\* connection it had, is gone" when Tor is asked for new circuits.
NothingBehindTheSwitch ==
  \A n \in NewCalls : phase[n] = "signalling" =>
    \A i \in retiring[n], c \in Contexts : ctx[<<i, c>>] # "running"

\* Every Open() and New Identity is answered, whatever Tor and the user do, but
\* for one whose routing check the network service never answers: RoutingCheck
\* has no deadline.
EveryRequestAnswered ==
  \A r \in Requests :
    phase[r] # "unused"
      ~> (phase[r] \in {"ok", "failed"} \/ [](phase[r] = "verifying"))

\* The pages of an ended identity stop, although the network service may
\* never answer.
EndedPagesStop == \A i \in Ids : i \in ended ~> i \notin pages

\* An identity's life as the user sees it, and the identities with a window.
Life ==
  [i \in Ids |->
     IF profile[i] = "none" THEN "unmade"
     ELSE IF i \in ended
          THEN IF net_end[i] = "reached" \/ i \in confirmed
               THEN "silent" ELSE "ending"
     ELSE IF current = i THEN "open" ELSE "left"]

Shown == {window[w] : w \in Windows} \ {NoId}

Lives == INSTANCE IdentityLife WITH life <- Life, shown <- Shown

\* MoltNetIdentity implements IdentityLife: whichever of the user, the guard,
\* the reaper, the network service and New Identity comes first, one identity
\* is in use at a time, and one whose end has reached its network is silent
\* for good, through crashes of the network service as well.
ImplementsIdentityLife == Lives!Spec

-----------------------------------------------------------------------------
(* The inductive invariants behind the properties *)

\* The window of a call is there only when the call has succeeded.
WindowOfCall == \A r \in Requests : window[r] # NoId => phase[r] = "ok"

\* A call that is past its routing check's start has a profile.
CallHasProfile ==
  \A r \in Requests : phase[r] \in {"verifying", "verified", "unrouted", "ok"} =>
    open_id[r] \in Ids

\* The current profile is live and has not ended; only profiles that have
\* been made end.
CurrentInUse ==
  /\ current # NoId => profile[current] = "live" /\ current \notin ended
  /\ \A i \in ended : profile[i] # "none"

\* The profiles and their windows.
ProfileInv == CurrentInUse /\ WindowsOutlivedByProfile /\ OneIdentity

\* An end that has reached the network waits for nothing; a later stage of
\* the end means that the earlier ones are behind it.
EndProgress ==
  \A i \in Ids :
    /\ net_end[i] # "none" => i \in ended
    /\ \A c \in Contexts : <<i, c>> \in holds => i \in ended
    /\ net_end[i] = "reached" => \A c \in Contexts : <<i, c>> \notin holds
    /\ \A k \in Enders : chain[<<i, k>>] \in {"confirming", "closing"} =>
         net_end[i] \in {"reached", "timed_out"}

\* The end of an identity in the browser and in its network contexts.
EndInv ==
  EndProgress /\ EndReachesContexts /\ confirmed \subseteq ended
    /\ ConfirmedMeansRefusing

\* A New Identity that has begun and not finished.
UnderWay(n) == phase[n] \notin {"unused", "ok", "failed"}

\* ProfilesSwitchingIdentity() lets one New Identity in, for all its life.
OneSwitch ==
  \A n \in NewCalls : UnderWay(n) =>
    switching /\ \A m \in NewCalls : UnderWay(m) => m = n

\* The profiles it waits for are all there are, and all have ended.
RetiresAll ==
  \A n \in NewCalls :
    /\ retiring[n] \subseteq ended
    /\ phase[n] = "retiring" => \A i \in Ids : Exists(i) => i \in retiring[n]

SwitchInv == OneSwitch /\ RetiresAll /\ SwitchIsExclusive

\* A profile that was never made has no network context and has sent nothing.
UnmadeIsSilent ==
  \A i \in Ids : profile[i] = "none" =>
    sent[i] = {} /\ \A c \in Contexts : ctx[<<i, c>>] = "none"

\* Nothing is sent on circuits that are still to come.
SentBefore == \A i \in Ids : \A e \in sent[i] : e <= epoch

\* From its NEWNYM on, the identities a New Identity retired are gone, and the
\* NEWNYM it waited for lies between what they sent and what its own sends.
SwitchSeparates ==
  \A n \in NewCalls :
    /\ phase[n] \notin {"unused", "retiring", "failed"} =>
         \A i \in retiring[n] :
           /\ profile[i] = "gone"
           /\ net_end[i] = "reached" => \A e \in sent[i] : e <= signal_from[n]
    /\ phase[n] \notin {"unused", "retiring", "signalling", "failed"} =>
         epoch > signal_from[n]
    /\ phase[n] \in {"verifying", "verified", "unrouted", "ok"} =>
         \A e \in sent[open_id[n]] : e > signal_from[n]

CircuitInv == UnmadeIsSilent /\ SentBefore /\ SwitchSeparates

\* All of it: the profiles, the ends, the switch and the circuits, through
\* every interleaving of the browser, the network service, pages and Tor.
IdentityInv ==
  CallHasProfile /\ WindowOfCall /\ ProfileInv /\ EndInv /\ SwitchInv /\ CircuitInv
=============================================================================
