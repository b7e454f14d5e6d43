------------------------------ MODULE WifiConn ------------------------------
(***************************************************************************)
(* The Wi-Fi manager in station mode (wifi_management.c, wifi_eloop.c).    *)
(* One task runs the MAINTAIN_CONNECTION state machine on the messages of  *)
(* its bounded queue and on its timeouts; other tasks call                 *)
(* wifi_management_connect, _disconnect, _scan and _sta_auto_connect and   *)
(* wait for the answer on mgmt_wait_queue; the MAC and the key handshake   *)
(* report through the message queue.                                       *)
(*                                                                         *)
(* A timeout may expire at any moment after it is registered, a caller's   *)
(* wait may end at any moment, and the MAC, an access point or a DHCP      *)
(* server may take any time: a report may find the machine anywhere.  A    *)
(* timeout whose registration finds no memory is lost, and nobody asks.    *)
(***************************************************************************)
EXTENDS Integers, Sequences

CONSTANTS
    Callers,        \* tasks that call the manager
    Nets, NoNet,    \* networks a station can join
    QueueLen,       \* MGMT_TASK_QUEUE_SIZE
    WaitLen,        \* MGMT_WAIT_QUEUE_MSG_SIZE
    RetryLimit,     \* WIFI_MGMT_CONNECT_RETRY_LIMIT
    RoamLimit,      \* WIFI_MGMT_ROAMING_RETRY_LIMIT
    DhcpLimit,      \* WIFI_MGMT_DHCP_POLLING_LIMIT
    RetryWord,      \* range of retry_count (2^32)
    DhcpWord,       \* range of dhcp_polling_count (2^8)
    Calls,          \* the calls made: a subset of the names below
    Env,            \* what the radio does: a subset of {"drop", "roam"}
    MaxCalls,       \* bound on the calls explored
    MaxEvents       \* bound on the unprompted events of the radio and polling scans

ASSUME WifiAssumption ==
    /\ NoNet \notin Nets
    /\ {QueueLen, WaitLen, RetryLimit, RoamLimit, DhcpLimit} \subseteq Nat \ {0}
    /\ RetryWord \in Nat /\ RetryWord > RetryLimit /\ RetryWord > RoamLimit
    /\ DhcpWord \in Nat /\ DhcpWord > DhcpLimit
    /\ Calls \subseteq {"connect", "post", "disconnect", "scan", "auto"}
    /\ Env \subseteq {"drop", "roam"}
    /\ {MaxCalls, MaxEvents} \subseteq Nat

VARIABLES
    state,          \* MAINTAIN_CONNECTION_state
    retry_count,
    delayed,        \* delayed_connect_retry
    dhcp_count,     \* dhcp_polling_count
    polling_scan,
    preroam,        \* preroam_start with preroam_bssid_bk, or NoNet
    scan_blocked,
    cfg,            \* sta.cfg: the network, a pinned AP, conn_blocked
    timers,         \* how often each timeout is registered
    queue,          \* the messages of the manager's task
    waitq,          \* mgmt_wait_queue
    scanning,       \* the MAC is scanning
    link,           \* the MAC's link: down, joining, assoc, failed, open
    call,           \* what each caller is doing
    calls, events   \* how much of the bounds is used up

smvars == <<state, retry_count, delayed, dhcp_count, timers>>
roamvars == <<polling_scan, preroam>>
macvars == <<scanning, link>>
bounds == <<calls, events>>
vars == <<smvars, roamvars, scan_blocked, cfg, queue, waitq, macvars, call, bounds>>

States == {"IDLE", "SCAN", "CONNECT", "HANDSHAKE", "DHCP", "CONNECTED"}
Ongoing == {"SCAN", "CONNECT", "HANDSHAKE", "DHCP"}
\* "unset" is not in the code: the last registration of this attempt failed.
Timers == {"retry", "dhcp", "link", "unset"}

Commands == {"SCAN_CMD", "CONNECT_CMD", "DISCONNECT_CMD", "AUTO_CONNECT_CMD"}
Disconnects == {"DISCONNECT", "SA_QUERY_FAIL"}
Reports == {"SCAN_DONE", "SCAN_FAIL", "ASSOC_SUCCESS", "CONNECT_FAIL",
            "DHCP_START", "ROAMING_START"} \cup Disconnects
OwnEvents == {"DHCP_SUCCESS", "DHCP_FAIL", "CONNECT_SUCCESS"}

(* net: what CONNECT_CMD asks for (NoNet: no parameter, keep the present   *)
(* configuration).  flag: conn_blocked of a CONNECT_CMD; for a DISCONNECT, *)
(* whether its reason is one after which the manager reconnects; for a     *)
(* SCAN_FAIL, whether it is the MAC's and so has a reason.                 *)
(* SA_QUERY_FAIL is the DISCONNECT with that reason, sent by the           *)
(* supplicant while the MAC still has its link.                            *)
Message == [ev : Commands \cup Reports \cup OwnEvents,
            net : Nets \cup {NoNet}, flag : BOOLEAN]
Msg(ev) == [ev |-> ev, net |-> NoNet, flag |-> FALSE]

\* sm->reason is 0: eloop_event_send leaves the reason of its message 0, which
\* wifi_mgmt_run_state_machine puts over the one mgmt_dhcp_polling set.
NoReason(m) == m.ev = "DHCP_FAIL" \/ (m.ev = "SCAN_FAIL" /\ ~m.flag)

(* ok: the reason is 0.  net is not in the code: the network the station   *)
(* was on when the answer was posted.                                      *)
Answer == [evt : {"SCAN_DONE", "CONN_DONE", "DISCONN_DONE"}, ok : BOOLEAN,
           net : Nets \cup {NoNet}]

\* sys_task_post and sys_queue_post: a message that finds the queue full is lost.
Post(q, m) == IF Len(q) < QueueLen THEN Append(q, m) ELSE q

PostWait(w, a) == IF Len(w) < WaitLen THEN Append(w, a) ELSE w

mgmt_post_conn_done(w, ok, n) ==
    IF cfg.blocked
    THEN PostWait(w, [evt |-> "CONN_DONE", ok |-> ok, net |-> n]) ELSE w
mgmt_post_disconn_done(w) ==
    PostWait(w, [evt |-> "DISCONN_DONE", ok |-> TRUE, net |-> NoNet])
mgmt_post_scan_done(w, ok) ==
    IF scan_blocked
    THEN PostWait(w, [evt |-> "SCAN_DONE", ok |-> ok, net |-> NoNet]) ELSE w

\* wifi_netlink_disconnect_req on a link that is up: the MAC reports the end
\* of the link, with a reason after which nobody reconnects.
Cut(q, up) == IF up THEN Post(q, Msg("DISCONNECT")) ELSE q

On(ss, evs) == queue # <<>> /\ state \in ss /\ Head(queue).ev \in evs
Rest == Tail(queue)

Init ==
    /\ state = "IDLE" /\ delayed = FALSE /\ dhcp_count = 0
    /\ retry_count = RetryLimit - 1
    /\ timers = [t \in Timers |-> 0]
    /\ polling_scan = FALSE /\ preroam = NoNet
    /\ scan_blocked = FALSE
    /\ cfg = [net |-> NoNet, pin |-> NoNet, blocked |-> FALSE]
    /\ queue = <<>> /\ waitq = mgmt_post_disconn_done(<<>>)
    /\ scanning = FALSE /\ link = "down"
    /\ call = [c \in Callers |-> [pc |-> "ready", net |-> NoNet, blocked |-> FALSE]]
    /\ calls = 0 /\ events = 0

-----------------------------------------------------------------------------
(* The callers.                                                            *)

\* Not in a call: "off" after a disconnection that was reported done.
Free == {"ready", "off"}

\* The beginning of a call: it flushes the wait queue.
Begin(c, what, n, b) ==
    /\ call[c].pc \in Free /\ calls < MaxCalls
    /\ calls' = calls + 1
    /\ call' = [call EXCEPT ![c] = [pc |-> what, net |-> n, blocked |-> b]]
    /\ waitq' = <<>>

Sent(c, m, next) ==
    /\ call' = [call EXCEPT ![c].pc = IF Len(queue) < QueueLen THEN next ELSE "ready"]
    /\ queue' = Post(queue, m)

\* mgmt_wait_queue_fetch: other answers are thrown away.
Fetch(c, evt, next) ==
    /\ waitq # <<>>
    /\ waitq' = Tail(waitq)
    /\ call' = [call EXCEPT ![c].pc = IF Head(waitq).evt = evt THEN next ELSE @]

wifi_management_connect(c) ==
    /\ \E n \in Nets :
          \/ "connect" \in Calls /\ Begin(c, "connect", n, TRUE)
          \/ "post" \in Calls /\ Begin(c, "connect", n, FALSE)
    /\ UNCHANGED <<smvars, roamvars, scan_blocked, cfg, queue, macvars, events>>

ConnectSend(c) ==
    /\ call[c].pc = "connect"
    /\ Sent(c, [ev |-> "CONNECT_CMD", net |-> call[c].net, flag |-> call[c].blocked],
            IF call[c].blocked THEN "connWait" ELSE "ready")
    /\ UNCHANGED <<smvars, roamvars, scan_blocked, cfg, waitq, macvars, bounds>>

ConnectAnswer(c) ==
    /\ call[c].pc = "connWait"
    /\ Fetch(c, "CONN_DONE", "ready")
    /\ UNCHANGED <<smvars, roamvars, scan_blocked, cfg, queue, macvars, bounds>>

\* The wait is over after 20 s: wifi_management_disconnect is called.
ConnectTimeout(c) ==
    /\ call[c].pc = "connWait" /\ waitq = <<>>
    /\ call' = [call EXCEPT ![c].pc = "disc"]
    /\ UNCHANGED <<smvars, roamvars, scan_blocked, cfg, queue, waitq, macvars, bounds>>

wifi_management_disconnect(c) ==
    /\ "disconnect" \in Calls
    /\ Begin(c, "disc", NoNet, TRUE)
    /\ UNCHANGED <<smvars, roamvars, scan_blocked, cfg, queue, macvars, events>>

DisconnectSend(c) ==
    /\ call[c].pc = "disc"
    /\ Sent(c, Msg("DISCONNECT_CMD"), "discWait")
    /\ UNCHANGED <<smvars, roamvars, scan_blocked, cfg, waitq, macvars, bounds>>

DisconnectAnswer(c) ==
    /\ call[c].pc = "discWait"
    /\ Fetch(c, "DISCONN_DONE", "off")
    /\ UNCHANGED <<smvars, roamvars, scan_blocked, cfg, queue, macvars, bounds>>

DisconnectTimeout(c) ==
    /\ call[c].pc = "discWait" /\ waitq = <<>>
    /\ call' = [call EXCEPT ![c].pc = "ready"]
    /\ UNCHANGED <<smvars, roamvars, scan_blocked, cfg, queue, waitq, macvars, bounds>>

wifi_management_scan(c) ==
    /\ "scan" \in Calls
    /\ \E b \in BOOLEAN : Begin(c, "scan", NoNet, b) /\ scan_blocked' = b
    /\ UNCHANGED <<smvars, roamvars, cfg, queue, macvars, events>>

ScanSend(c) ==
    /\ call[c].pc = "scan"
    /\ Sent(c, Msg("SCAN_CMD"), IF call[c].blocked THEN "scanWait" ELSE "ready")
    /\ scan_blocked' = (scan_blocked /\ Len(queue) < QueueLen)
    /\ UNCHANGED <<smvars, roamvars, cfg, waitq, macvars, bounds>>

ScanAnswer(c) ==
    /\ call[c].pc = "scanWait"
    /\ Fetch(c, "SCAN_DONE", "ready")
    /\ UNCHANGED <<smvars, roamvars, scan_blocked, cfg, queue, macvars, bounds>>

ScanTimeout(c) ==
    /\ call[c].pc = "scanWait" /\ waitq = <<>>
    /\ call' = [call EXCEPT ![c].pc = "ready"]
    /\ UNCHANGED <<smvars, roamvars, scan_blocked, cfg, queue, waitq, macvars, bounds>>

wifi_management_sta_auto_connect(c) ==
    /\ "auto" \in Calls
    /\ call[c].pc \in Free /\ calls < MaxCalls
    /\ calls' = calls + 1
    /\ call' = [call EXCEPT ![c].pc = "ready"]
    /\ queue' = Post(queue, Msg("AUTO_CONNECT_CMD"))
    /\ UNCHANGED <<smvars, roamvars, scan_blocked, cfg, waitq, macvars, events>>

-----------------------------------------------------------------------------
(* Entering a state.  q and w are the queues as the handler has left them. *)

(* Wrong variant: mgmt_connect_retry is not cancelled.                     *)
SM_IDLE_KeepsRetry(q, w, up) ==
    /\ state' = "IDLE" /\ delayed' = FALSE
    /\ timers' = [timers EXCEPT !["dhcp"] = 0, !["link"] = 0]
    /\ queue' = Cut(q, up) /\ link' = "down"
    /\ waitq' = mgmt_post_disconn_done(w)

SM_IDLE(q, w, up) ==
    /\ state' = "IDLE" /\ delayed' = FALSE
    /\ timers' = [t \in Timers |-> 0]
    /\ queue' = Cut(q, up) /\ link' = "down"
    /\ waitq' = mgmt_post_disconn_done(w)

(* Wrong variant: the DHCP polling of the attempt before goes on.          *)
SM_SCAN_KeepsDhcp(q, tm) ==
    /\ state' = "SCAN"
    /\ timers' = [tm EXCEPT !["link"] = 0]
    /\ \/ delayed' /\ queue' = q /\ UNCHANGED scanning
       \/ ~delayed' /\ ~scanning /\ scanning' = TRUE /\ queue' = q
       \/ ~delayed' /\ queue' = Post(q, Msg("SCAN_FAIL")) /\ UNCHANGED scanning

\* wifi_netlink_scan_set: the MAC runs one scan at a time and may refuse any.
SM_SCAN(q, tm) ==
    /\ state' = "SCAN"
    /\ timers' = [tm EXCEPT !["dhcp"] = 0, !["link"] = 0]
    /\ \/ delayed' /\ queue' = q /\ UNCHANGED scanning
       \/ ~delayed' /\ ~scanning /\ scanning' = TRUE /\ queue' = q
       \/ ~delayed' /\ queue' = Post(q, Msg("SCAN_FAIL")) /\ UNCHANGED scanning

\* eloop_timeout_register: without memory nothing is registered.
Registered(tm, t) ==
    {[tm EXCEPT ![t] = @ + 1, !["unset"] = 0], [tm EXCEPT !["unset"] = 1]}

(* Wrong variant: the retry is not registered.                             *)
RetryArmed_Never(tm) == {tm}

\* mgmt_register_delayed_connect_retry
RetryArmed(tm) == IF tm["retry"] > 0 THEN {tm} ELSE Registered(tm, "retry")

-----------------------------------------------------------------------------
(* The steps of the state machine.                                         *)

\* IDLE and CONNECTED: SCAN_CMD
ScanCmd ==
    /\ On({"IDLE", "CONNECTED"}, {"SCAN_CMD"})
    /\ queue' = Rest
    /\ \/ /\ ~scanning /\ scanning' = TRUE
          /\ UNCHANGED <<waitq, scan_blocked>>
       \/ /\ waitq' = mgmt_post_scan_done(waitq, FALSE)
          /\ scan_blocked' = FALSE /\ UNCHANGED scanning
    /\ UNCHANGED <<smvars, roamvars, cfg, link, call, bounds>>

Requested(m) == IF m.net = NoNet THEN cfg
                ELSE [net |-> m.net, pin |-> NoNet, blocked |-> m.flag]

IdleConnectCmd ==
    /\ On({"IDLE"}, {"CONNECT_CMD"})
    /\ cfg' = Requested(Head(queue))
    /\ retry_count' = RetryLimit - 1 /\ delayed' = delayed
    /\ SM_SCAN(Rest, timers)
    /\ UNCHANGED <<dhcp_count, roamvars, scan_blocked, waitq, link, call, bounds>>

IdleAutoConnect ==
    /\ On({"IDLE"}, {"AUTO_CONNECT_CMD"})
    /\ \/ /\ SM_IDLE(Rest, waitq, link # "down")
          /\ UNCHANGED <<cfg, retry_count, scanning>>
       \/ /\ \E n \in Nets : cfg' = [cfg EXCEPT !.net = n]
          /\ retry_count' = RoamLimit - 1 /\ delayed' = delayed
          /\ SM_SCAN(Rest, timers)
          /\ UNCHANGED <<waitq, link>>
    /\ UNCHANGED <<dhcp_count, roamvars, scan_blocked, call, bounds>>

IdleScanDone ==
    /\ On({"IDLE"}, {"SCAN_DONE"})
    /\ queue' = Rest
    /\ waitq' = mgmt_post_scan_done(waitq, TRUE) /\ scan_blocked' = FALSE
    /\ UNCHANGED <<smvars, roamvars, cfg, macvars, call, bounds>>

(* Wrong variant: nothing to do, nothing to say.                           *)
IdleDisconnectCmd_Silent ==
    /\ On({"IDLE"}, {"DISCONNECT_CMD"})
    /\ queue' = Rest
    /\ UNCHANGED <<smvars, roamvars, scan_blocked, cfg, waitq, macvars, call, bounds>>

IdleDisconnectCmd ==
    /\ On({"IDLE"}, {"DISCONNECT_CMD"})
    /\ queue' = Rest
    /\ waitq' = mgmt_post_disconn_done(waitq)
    /\ UNCHANGED <<smvars, roamvars, scan_blocked, cfg, macvars, call, bounds>>

\* mgmt_link_is_ongoing: whoever waits for a connection is told it failed.
LinkIsOngoing ==
    /\ On(Ongoing, {"SCAN_CMD", "CONNECT_CMD"})
    /\ queue' = Rest
    /\ waitq' = PostWait(waitq, [evt |-> "CONN_DONE", ok |-> FALSE, net |-> NoNet])
    /\ cfg' = [cfg EXCEPT !.blocked = FALSE]
    /\ UNCHANGED <<smvars, roamvars, scan_blocked, macvars, call, bounds>>

\* DISCONNECT_CMD in any state but IDLE; CONNECT_FAIL in SCAN.
Abandon ==
    /\ \/ On(Ongoing \cup {"CONNECTED"}, {"DISCONNECT_CMD"})
       \/ On({"SCAN"}, {"CONNECT_FAIL"})
    /\ SM_IDLE(Rest, waitq, link # "down")
    /\ UNCHANGED <<retry_count, dhcp_count, roamvars, scan_blocked, cfg, scanning,
                   call, bounds>>

\* SCAN_DONE in SCAN: wifi_netlink_connect_req finds the AP and is accepted or not.
ScanDone ==
    /\ On({"SCAN"}, {"SCAN_DONE"})
    /\ state' = "CONNECT"
    /\ \/ /\ link' = "joining" /\ queue' = Rest
          /\ cfg' = [cfg EXCEPT !.net = IF cfg.pin = NoNet THEN @ ELSE cfg.pin]
       \/ queue' = Post(Rest, Msg("CONNECT_FAIL")) /\ UNCHANGED <<link, cfg>>
    /\ UNCHANGED <<retry_count, delayed, dhcp_count, timers, roamvars, scan_blocked,
                   waitq, scanning, call, bounds>>

\* mgmt_preroam_rollback
Rollback(q) == IF preroam = NoNet THEN q ELSE Post(q, Msg("CONNECT_CMD"))

\* All retries are used up: the caller is told the reason of this message, and
\* the machine goes to IDLE.
GivenUp(q, up) ==
    /\ cfg' = [cfg EXCEPT !.pin = IF preroam = NoNet THEN @ ELSE preroam,
                          !.blocked = FALSE]
    /\ preroam' = NoNet
    /\ SM_IDLE(Rollback(q), mgmt_post_conn_done(waitq, NoReason(Head(queue)), NoNet), up)
    /\ UNCHANGED <<scanning, polling_scan>>

GiveUp(q, up) == retry_count = 0 /\ GivenUp(q, up) /\ UNCHANGED retry_count

ScanFail ==
    /\ On({"SCAN"}, {"SCAN_FAIL"})
    /\ \/ /\ retry_count > 0
          /\ timers' \in RetryArmed(timers) /\ queue' = Rest
          /\ UNCHANGED <<state, retry_count, delayed, roamvars, cfg, waitq, macvars>>
       \/ GiveUp(Rest, link # "down")
    /\ UNCHANGED <<dhcp_count, scan_blocked, call, bounds>>

\* The attempt failed in CONNECT, HANDSHAKE or DHCP.
AttemptFailed(q, up) ==
    \/ /\ retry_count > 0
       /\ delayed' = TRUE
       /\ \E tm \in RetryArmed(timers) : SM_SCAN(q, tm)
       /\ link' = IF up THEN link ELSE "down"
       /\ UNCHANGED <<retry_count, roamvars, cfg, waitq>>
    \/ GiveUp(q, up)

AttemptEnds ==
    /\ \/ /\ \/ On({"CONNECT"}, {"CONNECT_FAIL"} \cup Disconnects)
             \/ On({"HANDSHAKE", "DHCP"}, Disconnects)
          /\ AttemptFailed(Rest, link # "down")
       \/ /\ \/ On({"HANDSHAKE"}, {"CONNECT_FAIL"})
             \/ On({"DHCP"}, {"CONNECT_FAIL", "DHCP_FAIL"})
          /\ AttemptFailed(Cut(Rest, link # "down"), FALSE)
    /\ UNCHANGED <<dhcp_count, scan_blocked, call, bounds>>

AssocSuccess ==
    /\ On({"CONNECT"}, {"ASSOC_SUCCESS"})
    /\ state' = "HANDSHAKE" /\ queue' = Rest
    /\ UNCHANGED <<retry_count, delayed, dhcp_count, timers, roamvars, scan_blocked,
                   cfg, waitq, macvars, call, bounds>>

DhcpStart ==
    /\ On({"HANDSHAKE"}, {"DHCP_START"})
    /\ state' = "DHCP" /\ queue' = Rest
    /\ dhcp_count' = DhcpLimit
    /\ timers' \in Registered(timers, "dhcp")
    /\ UNCHANGED <<retry_count, delayed, roamvars, scan_blocked, cfg, waitq, macvars,
                   call, bounds>>

DhcpSuccess ==
    /\ On({"DHCP"}, {"DHCP_SUCCESS"})
    /\ state' = "CONNECTED"
    /\ queue' = IF cfg.blocked THEN Rest ELSE Post(Rest, Msg("CONNECT_SUCCESS"))
    /\ waitq' = mgmt_post_conn_done(waitq, TRUE, cfg.net)
    /\ cfg' = [cfg EXCEPT !.pin = NoNet, !.blocked = FALSE]
    /\ preroam' = NoNet
    /\ timers' = [timers EXCEPT !["retry"] = 0, !["unset"] = 0]
    /\ UNCHANGED <<retry_count, delayed, dhcp_count, polling_scan, scan_blocked,
                   macvars, call, bounds>>

\* CONNECT_CMD in CONNECTED: IDLE and then SCAN are entered.
ConnectedConnectCmd ==
    /\ On({"CONNECTED"}, {"CONNECT_CMD"})
    /\ cfg' = Requested(Head(queue))
    /\ retry_count' = RetryLimit - 1 /\ delayed' = FALSE
    /\ link' = "down"
    /\ waitq' = mgmt_post_disconn_done(waitq)
    /\ SM_SCAN(Cut(Rest, link # "down"), [t \in Timers |-> 0])
    /\ UNCHANGED <<dhcp_count, roamvars, scan_blocked, call, bounds>>

\* mgmt_connected_scan_done: a polling scan may find a better AP.
ConnectedScanDone ==
    /\ On({"CONNECTED"}, {"SCAN_DONE"})
    /\ \/ queue' = Rest
       \/ polling_scan /\ queue' = Post(Rest, Msg("CONNECT_CMD"))
    /\ polling_scan' = FALSE
    /\ waitq' = mgmt_post_scan_done(waitq, TRUE) /\ scan_blocked' = FALSE
    /\ UNCHANGED <<smvars, preroam, cfg, macvars, call, bounds>>

ConnectedScanFail ==
    /\ On({"CONNECTED"}, {"SCAN_FAIL"})
    /\ queue' = Rest
    /\ waitq' = mgmt_post_scan_done(waitq, FALSE) /\ scan_blocked' = FALSE
    /\ UNCHANGED <<smvars, roamvars, cfg, macvars, call, bounds>>

\* The link is lost: the manager reconnects, unless the reason forbids it.
LinkLost ==
    /\ On({"CONNECTED"}, Disconnects)
    /\ LET sa == Head(queue).ev = "SA_QUERY_FAIL"
           q == IF sa THEN Cut(Rest, link # "down") ELSE Rest
           up == link # "down" /\ ~sa
       IN \/ /\ sa \/ Head(queue).flag
             /\ RoamLimit > 1
             /\ retry_count' = RoamLimit - 1 /\ delayed' = delayed
             /\ SM_SCAN(q, timers)
             /\ link' = IF up THEN link ELSE "down"
             /\ UNCHANGED <<roamvars, cfg, waitq>>
          \/ /\ sa \/ Head(queue).flag
             /\ RoamLimit = 1
             /\ retry_count' = 0 /\ GivenUp(q, up)
          \/ /\ ~sa /\ ~Head(queue).flag
             /\ SM_IDLE(q, waitq, up)
             /\ UNCHANGED <<retry_count, roamvars, cfg, scanning>>
    /\ UNCHANGED <<dhcp_count, scan_blocked, call, bounds>>

RoamingStart ==
    /\ On({"CONNECTED"}, {"ROAMING_START"})
    /\ queue' = Rest
    /\ preroam' = cfg.net
    /\ timers' \in {timers, [timers EXCEPT !["link"] = @ + 1]}
    /\ UNCHANGED <<state, retry_count, delayed, dhcp_count, polling_scan, scan_blocked,
                   cfg, waitq, macvars, call, bounds>>

\* Messages a state does not expect, or names and leaves alone.
Handled == [
    IDLE |-> {"SCAN_CMD", "CONNECT_CMD", "AUTO_CONNECT_CMD", "SCAN_DONE", "DISCONNECT_CMD"},
    SCAN |-> {"SCAN_CMD", "CONNECT_CMD", "DISCONNECT_CMD", "CONNECT_FAIL", "SCAN_DONE",
              "SCAN_FAIL"},
    CONNECT |-> {"SCAN_CMD", "CONNECT_CMD", "DISCONNECT_CMD", "ASSOC_SUCCESS",
                 "CONNECT_FAIL"} \cup Disconnects,
    HANDSHAKE |-> {"SCAN_CMD", "CONNECT_CMD", "DISCONNECT_CMD", "CONNECT_FAIL",
                   "DHCP_START"} \cup Disconnects,
    DHCP |-> {"SCAN_CMD", "CONNECT_CMD", "DISCONNECT_CMD", "DHCP_SUCCESS", "DHCP_FAIL",
              "CONNECT_FAIL"} \cup Disconnects,
    CONNECTED |-> {"SCAN_CMD", "CONNECT_CMD", "DISCONNECT_CMD", "SCAN_DONE", "SCAN_FAIL",
                   "ROAMING_START"} \cup Disconnects]

Ignore ==
    /\ queue # <<>> /\ Head(queue).ev \notin Handled[state]
    /\ queue' = Rest
    /\ UNCHANGED <<smvars, roamvars, scan_blocked, cfg, waitq, macvars, call, bounds>>

-----------------------------------------------------------------------------
(* The timeouts.                                                           *)

mgmt_connect_retry ==
    /\ timers["retry"] > 0
    /\ retry_count' = (retry_count - 1) % RetryWord
    /\ delayed' = FALSE
    /\ SM_SCAN(queue, [timers EXCEPT !["retry"] = @ - 1])
    /\ UNCHANGED <<dhcp_count, roamvars, scan_blocked, cfg, waitq, link, call, bounds>>

mgmt_dhcp_polling ==
    /\ timers["dhcp"] > 0
    /\ \/ /\ queue' = Post(queue, Msg("DHCP_SUCCESS"))
          /\ timers' = [timers EXCEPT !["dhcp"] = @ - 1]
          /\ UNCHANGED dhcp_count
       \/ /\ dhcp_count' = (dhcp_count - 1) % DhcpWord
          /\ IF dhcp_count' # 0
             THEN /\ timers' \in Registered([timers EXCEPT !["dhcp"] = @ - 1], "dhcp")
                  /\ UNCHANGED queue
             ELSE /\ timers' = [timers EXCEPT !["dhcp"] = @ - 1]
                  /\ queue' = Post(queue, Msg("DHCP_FAIL"))
    /\ UNCHANGED <<state, retry_count, delayed, roamvars, scan_blocked, cfg, waitq,
                   macvars, call, bounds>>

\* The signal has recovered or roaming is over, or the poll is not registered
\* again, or a scan looks for a better AP.  Other polls change nothing.
mgmt_link_status_polling ==
    /\ timers["link"] > 0
    /\ \/ /\ preroam' \in {NoNet, preroam}
          /\ timers' = [timers EXCEPT !["link"] = @ - 1]
          /\ UNCHANGED <<polling_scan, scanning, events>>
       \/ /\ preroam # NoNet /\ events < MaxEvents
          /\ events' = events + 1 /\ polling_scan' = TRUE
          /\ scanning' \in {scanning, TRUE}
          /\ timers' \in {timers, [timers EXCEPT !["link"] = @ - 1]}
          /\ UNCHANGED preroam
    /\ UNCHANGED <<state, retry_count, delayed, dhcp_count, scan_blocked, cfg, queue,
                   waitq, link, call, calls>>

-----------------------------------------------------------------------------
(* The MAC and the key handshake.                                          *)

Report(m) ==
    /\ queue' = Post(queue, m)
    /\ UNCHANGED <<smvars, roamvars, scan_blocked, cfg, waitq, call, calls>>

MacScanEnds ==
    /\ scanning /\ scanning' = FALSE
    /\ \/ Report(Msg("SCAN_DONE"))
       \/ Report([Msg("SCAN_FAIL") EXCEPT !.flag = TRUE])
    /\ UNCHANGED <<link, events>>

MacJoinEnds ==
    /\ link = "joining"
    /\ \/ link' = "assoc" /\ Report(Msg("ASSOC_SUCCESS"))
       \/ link' = "down" /\ Report(Msg("CONNECT_FAIL"))
    /\ UNCHANGED <<scanning, events>>

\* The handshake runs in the manager's task, in HANDSHAKE only.
HandshakeEnds ==
    /\ link = "assoc" /\ state = "HANDSHAKE"
    /\ \/ link' = "open" /\ Report(Msg("DHCP_START"))
       \/ link' = "failed" /\ Report(Msg("CONNECT_FAIL"))
    /\ UNCHANGED <<scanning, events>>

\* The access point or the air ends the link.
MacDrops ==
    /\ "drop" \in Env /\ events < MaxEvents
    /\ link \in {"assoc", "failed", "open"} /\ link' = "down"
    /\ \E lost \in BOOLEAN : Report([Msg("DISCONNECT") EXCEPT !.flag = lost])
    /\ events' = events + 1
    /\ UNCHANGED scanning

\* The supplicant gets no answer to its SA query.
SaQueryFails ==
    /\ "drop" \in Env /\ events < MaxEvents
    /\ link = "open"
    /\ Report(Msg("SA_QUERY_FAIL"))
    /\ events' = events + 1
    /\ UNCHANGED macvars

MacRoams ==
    /\ "roam" \in Env /\ events < MaxEvents
    /\ link = "open"
    /\ Report(Msg("ROAMING_START"))
    /\ events' = events + 1
    /\ UNCHANGED macvars

-----------------------------------------------------------------------------
Caller(c) ==
    \/ wifi_management_connect(c) \/ wifi_management_disconnect(c)
    \/ wifi_management_scan(c) \/ wifi_management_sta_auto_connect(c)
Runs(c) ==
    \/ ConnectSend(c) \/ ConnectAnswer(c) \/ DisconnectSend(c) \/ DisconnectAnswer(c)
    \/ ScanSend(c) \/ ScanAnswer(c)
GivesUpWaiting(c) == ConnectTimeout(c) \/ DisconnectTimeout(c) \/ ScanTimeout(c)

Dispatch ==
    \/ ScanCmd \/ IdleConnectCmd \/ IdleAutoConnect \/ IdleScanDone \/ IdleDisconnectCmd
    \/ LinkIsOngoing \/ Abandon \/ ScanDone \/ ScanFail \/ AttemptEnds
    \/ AssocSuccess \/ DhcpStart \/ DhcpSuccess \/ ConnectedConnectCmd
    \/ ConnectedScanDone \/ ConnectedScanFail \/ LinkLost \/ RoamingStart \/ Ignore

Next ==
    \/ \E c \in Callers : Caller(c) \/ Runs(c) \/ GivesUpWaiting(c)
    \/ Dispatch
    \/ mgmt_connect_retry \/ mgmt_dhcp_polling \/ mgmt_link_status_polling
    \/ MacScanEnds \/ MacJoinEnds \/ HandshakeEnds \/ MacDrops \/ SaQueryFails
    \/ MacRoams

Spec == Init /\ [][Next]_vars

FairSpec ==
    /\ Spec
    /\ WF_vars(Dispatch) /\ WF_vars(mgmt_connect_retry) /\ WF_vars(mgmt_dhcp_polling)
    /\ WF_vars(MacScanEnds) /\ WF_vars(MacJoinEnds) /\ WF_vars(HandshakeEnds)

-----------------------------------------------------------------------------
(* Every variable has its type; the queues keep to their lengths.          *)
TypeOK ==
    /\ state \in States /\ delayed \in BOOLEAN
    /\ retry_count \in 0..RetryWord - 1 /\ dhcp_count \in 0..DhcpWord - 1
    /\ polling_scan \in BOOLEAN /\ preroam \in Nets \cup {NoNet}
    /\ scan_blocked \in BOOLEAN
    /\ cfg \in [net : Nets \cup {NoNet}, pin : Nets \cup {NoNet}, blocked : BOOLEAN]
    /\ timers \in [Timers -> Nat]
    /\ queue \in Seq(Message) /\ Len(queue) <= QueueLen
    /\ waitq \in Seq(Answer) /\ Len(waitq) <= WaitLen
    /\ scanning \in BOOLEAN
    /\ link \in {"down", "joining", "assoc", "failed", "open"}
    /\ call \in [Callers -> [pc : {"ready", "off", "connect", "connWait", "disc", "discWait",
                                   "scan", "scanWait"},
                             net : Nets \cup {NoNet}, blocked : BOOLEAN]]
    /\ calls \in 0..MaxCalls /\ events \in 0..MaxEvents

Posted(q, ev) == \E i \in DOMAIN q : q[i].ev = ev

(* A retry is pending only while an attempt is under way, at most once,    *)
(* and only while a retry is left: mgmt_connect_retry, which fires in      *)
(* whatever state the machine is in and decrements an unsigned counter,    *)
(* never takes the machine out of IDLE or CONNECTED and never wraps the    *)
(* counter.  The link is polled in CONNECTED only.                         *)
TimersMatchState ==
    /\ timers["retry"] > 0 => state \in Ongoing /\ retry_count > 0
    /\ timers["retry"] <= 1
    /\ timers["link"] > 0 => state = "CONNECTED"

(* The DHCP polling runs at most once, with polls left, and only as long   *)
(* as the attempt that started it: in DHCP, or in the CONNECTED that the   *)
(* verdict of an earlier polling, still queued, has led to.  However late  *)
(* the reports of the MAC are, no poll outlives its attempt and hits the   *)
(* next one.                                                               *)
DhcpTimerOwned ==
    /\ timers["dhcp"] <= 1
    /\ timers["dhcp"] > 0 => state \in {"DHCP", "CONNECTED"} /\ dhcp_count > 0

(* wifi_vif_is_sta_connected: CONNECTED is believed of an open link only,  *)
(* or the message that says otherwise is in the queue.  Reports of an      *)
(* attempt that was abandoned can carry the machine there all the same.    *)
ConnectedMeansLinked ==
    state = "CONNECTED" => link = "open" \/ \E ev \in Disconnects : Posted(queue, ev)

\* The successes that a waiting wifi_management_connect can be given.
Successes == {i \in DOMAIN waitq : waitq[i].evt = "CONN_DONE" /\ waitq[i].ok}

(* wifi_management_connect answers 0 when the station has joined a         *)
(* network, and not when the last retry has failed.                        *)
SuccessMeansJoined ==
    \A c \in Callers : call[c].pc = "connWait" =>
        \A i \in Successes : waitq[i].net # NoNet

(* The 0 that wifi_management_connect answers is about the network it      *)
(* asked for, and not about an attempt that somebody else asked for.       *)
SuccessOfThisCall ==
    \A c \in Callers : call[c].pc = "connWait" =>
        \A i \in Successes : waitq[i].net \in {NoNet, call[c].net}

(* When wifi_management_disconnect has returned 0 the station is off and   *)
(* stays off, or the command that takes it off is queued behind every      *)
(* other one: no retry, report or pending command connects it again.       *)
Connecting == {"CONNECT_CMD", "AUTO_CONNECT_CMD"}
DisconnectSticks ==
    \A c \in Callers : call[c].pc = "off" =>
        \/ /\ state = "IDLE" /\ link = "down"
           /\ \A i \in DOMAIN queue : queue[i].ev \notin Connecting
        \/ \E i \in DOMAIN queue :
              /\ queue[i].ev = "DISCONNECT_CMD"
              /\ \A j \in i + 1..Len(queue) : queue[j].ev \notin Connecting

(* A caller waiting for DISCONN_DONE will have it: its command is still    *)
(* queued or the answer is there, through retries, drops, roaming and      *)
(* waits that ended early, whose commands and answers are still about.     *)
DisconnectAnswered ==
    \A c \in Callers : call[c].pc = "discWait" =>
        \/ Posted(queue, "DISCONNECT_CMD")
        \/ \E i \in DOMAIN waitq : waitq[i].evt = "DISCONN_DONE"

(* Every attempt for whose timeouts there was memory ends in CONNECTED or  *)
(* IDLE, through retries, lost links and failed scans.                     *)
EveryAttemptResolves ==
    state \in Ongoing ~> state \notin Ongoing \/ timers["unset"] > 0

(* The same but for one case: DHCP_SUCCESS cancels a pending retry and     *)
(* leaves delayed_connect_retry set, so that the reconnection after the    *)
(* next loss of the link neither scans nor waits for a timeout.            *)
Stranded ==
    state = "SCAN" /\ delayed /\ timers["retry"] = 0 /\ retry_count = RoamLimit - 1
AttemptResolves ==
    state \in Ongoing ~> state \notin Ongoing \/ timers["unset"] > 0 \/ Stranded
=============================================================================
