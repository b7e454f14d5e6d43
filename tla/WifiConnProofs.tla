--------------------------- MODULE WifiConnProofs ---------------------------
(***************************************************************************)
(* Proofs about the timeouts of the Wi-Fi manager, for any callers, any    *)
(* radio and reports that come however late, any networks, queue lengths,  *)
(* retry limits and bounds, and registrations that find no memory.         *)
(***************************************************************************)
EXTENDS WifiConn, TLAPS

Events == Commands \cup Reports \cup OwnEvents
QueueOK(q) == q \in Seq(Message) /\ Len(q) <= QueueLen
WaitOK(w) == w \in Seq(Answer) /\ Len(w) <= WaitLen
CfgSet == [net : Nets \cup {NoNet}, pin : Nets \cup {NoNet}, blocked : BOOLEAN]
PcSet == {"ready", "off", "connect", "connWait", "disc", "discWait", "scan", "scanWait"}
CallSet == [pc : PcSet, net : Nets \cup {NoNet}, blocked : BOOLEAN]
Links == {"down", "joining", "assoc", "failed", "open"}

-----------------------------------------------------------------------------
(* The queues.                                                             *)

(* Msg builds a message of every event that carries nothing.               *)
LEMMA MsgType ==
    ASSUME NEW ev \in Events, NEW f \in BOOLEAN
    PROVE  Msg(ev) \in Message /\ [Msg(ev) EXCEPT !.flag = f] \in Message
BY DEF Msg, Message, Events

(* sys_task_post keeps the manager's queue within its length.              *)
LEMMA PostType ==
    ASSUME NEW q, QueueOK(q), NEW msg \in Message
    PROVE  QueueOK(Post(q, msg))
<1>1. QueueLen \in Nat /\ Len(q) \in Nat
  BY WifiAssumption DEF QueueOK
<1>2. CASE Len(q) < QueueLen
  <2>1. Append(q, msg) \in Seq(Message) /\ Len(Append(q, msg)) = Len(q) + 1
    BY DEF QueueOK
  <2> QED BY <1>1, <1>2, <2>1 DEF Post, QueueOK
<1>3. CASE ~(Len(q) < QueueLen)
  BY <1>3 DEF Post, QueueOK
<1> QED BY <1>2, <1>3

(* sys_queue_post keeps mgmt_wait_queue within its length.                 *)
LEMMA PostWaitType ==
    ASSUME NEW w, WaitOK(w), NEW a \in Answer
    PROVE  WaitOK(PostWait(w, a))
<1>1. WaitLen \in Nat /\ Len(w) \in Nat
  BY WifiAssumption DEF WaitOK
<1>2. CASE Len(w) < WaitLen
  <2>1. Append(w, a) \in Seq(Answer) /\ Len(Append(w, a)) = Len(w) + 1
    BY DEF WaitOK
  <2> QED BY <1>1, <1>2, <2>1 DEF PostWait, WaitOK
<1>3. CASE ~(Len(w) < WaitLen)
  BY <1>3 DEF PostWait, WaitOK
<1> QED BY <1>2, <1>3

(* wifi_netlink_disconnect_req posts at most one report.                   *)
LEMMA CutType ==
    ASSUME NEW q, QueueOK(q), NEW up
    PROVE  QueueOK(Cut(q, up))
BY PostType, MsgType DEF Cut, Events, Reports, Disconnects, Msg, Message

(* Taking the first message leaves a queue of messages.                    *)
LEMMA RestType ==
    ASSUME QueueOK(queue), queue # <<>>
    PROVE  QueueOK(Rest) /\ Head(queue) \in Message
<1>1. Tail(queue) \in Seq(Message) /\ Len(Tail(queue)) = Len(queue) - 1 /\ Head(queue) \in Message
  BY DEF QueueOK
<1>2. QueueLen \in Nat /\ Len(queue) \in Nat
  BY WifiAssumption DEF QueueOK
<1> QED BY <1>1, <1>2 DEF QueueOK, Rest

(* The three answers the manager gives.                                    *)
LEMMA AnswerType ==
    ASSUME NEW w, WaitOK(w), NEW ok \in BOOLEAN, NEW n \in Nets \cup {NoNet}
    PROVE  /\ WaitOK(mgmt_post_conn_done(w, ok, n))
           /\ WaitOK(mgmt_post_disconn_done(w))
           /\ WaitOK(mgmt_post_scan_done(w, ok))
           /\ WaitOK(PostWait(w, [evt |-> "CONN_DONE", ok |-> ok, net |-> n]))
<1>1. /\ [evt |-> "CONN_DONE", ok |-> ok, net |-> n] \in Answer
      /\ [evt |-> "DISCONN_DONE", ok |-> TRUE, net |-> NoNet] \in Answer
      /\ [evt |-> "SCAN_DONE", ok |-> ok, net |-> NoNet] \in Answer
  BY DEF Answer
<1> QED BY <1>1, PostWaitType DEF mgmt_post_conn_done, mgmt_post_disconn_done, mgmt_post_scan_done

(* TypeOK, with the sets above named.                                      *)
LEMMA TypeParts ==
    TypeOK <=> /\ state \in States /\ delayed \in BOOLEAN
               /\ retry_count \in 0..RetryWord - 1 /\ dhcp_count \in 0..DhcpWord - 1
               /\ polling_scan \in BOOLEAN /\ preroam \in Nets \cup {NoNet}
               /\ scan_blocked \in BOOLEAN /\ cfg \in CfgSet
               /\ timers \in [Timers -> Nat]
               /\ QueueOK(queue) /\ WaitOK(waitq)
               /\ scanning \in BOOLEAN /\ link \in Links
               /\ call \in [Callers -> CallSet]
               /\ calls \in 0..MaxCalls /\ events \in 0..MaxEvents
BY DEF TypeOK, QueueOK, WaitOK, CfgSet, CallSet, PcSet, Links

(* The same of the next state.                                             *)
LEMMA TypePartsNext ==
    TypeOK' <=> /\ state' \in States /\ delayed' \in BOOLEAN
                /\ retry_count' \in 0..RetryWord - 1 /\ dhcp_count' \in 0..DhcpWord - 1
                /\ polling_scan' \in BOOLEAN /\ preroam' \in Nets \cup {NoNet}
                /\ scan_blocked' \in BOOLEAN /\ cfg' \in CfgSet
                /\ timers' \in [Timers -> Nat]
                /\ QueueOK(queue') /\ WaitOK(waitq')
                /\ scanning' \in BOOLEAN /\ link' \in Links
                /\ call' \in [Callers -> CallSet]
                /\ calls' \in 0..MaxCalls /\ events' \in 0..MaxEvents
BY DEF TypeOK, QueueOK, WaitOK, CfgSet, CallSet, PcSet, Links

(* The initial state.                                                      *)
LEMMA InitType == Init => TypeOK
<1> SUFFICES ASSUME Init PROVE TypeOK
  OBVIOUS
<1>1. /\ RetryLimit \in Nat \ {0} /\ RetryWord \in Nat /\ RetryWord > RetryLimit
      /\ DhcpWord \in Nat /\ DhcpWord > DhcpLimit /\ DhcpLimit \in Nat
      /\ MaxCalls \in Nat /\ MaxEvents \in Nat /\ QueueLen \in Nat /\ WaitLen \in Nat
  BY WifiAssumption
<1>2. retry_count \in 0..RetryWord - 1 /\ dhcp_count \in 0..DhcpWord - 1
  BY <1>1 DEF Init
<1>3. QueueOK(queue) /\ WaitOK(<<>>)
  BY <1>1 DEF Init, QueueOK, WaitOK
<1>4. cfg \in CfgSet /\ call \in [Callers -> CallSet] /\ timers \in [Timers -> Nat]
  BY DEF Init, CfgSet, CallSet, PcSet
<1>5. WaitOK(waitq)
  BY <1>3, AnswerType DEF Init
<1>6. calls \in 0..MaxCalls /\ events \in 0..MaxEvents
  BY <1>1 DEF Init
<1> QED BY <1>2, <1>3, <1>4, <1>5, <1>6, TypeParts DEF Init, States, Links

-----------------------------------------------------------------------------
(* Entering a state.                                                       *)

(* SM_STATE(MAINTAIN_CONNECTION, IDLE)                                     *)
LEMMA IdleEntry ==
    ASSUME TypeOK, NEW q, QueueOK(q), NEW w, WaitOK(w), NEW up, SM_IDLE(q, w, up)
    PROVE  /\ state' \in States /\ delayed' \in BOOLEAN /\ timers' \in [Timers -> Nat]
           /\ QueueOK(queue') /\ WaitOK(waitq') /\ link' \in Links
<1>1. WaitOK(mgmt_post_disconn_done(w))
  BY AnswerType
<1> QED BY <1>1, CutType DEF SM_IDLE, States, Links

(* SM_STATE(MAINTAIN_CONNECTION, SCAN)                                     *)
LEMMA ScanEntry ==
    ASSUME TypeOK, NEW q, QueueOK(q), NEW tm \in [Timers -> Nat],
           delayed' \in BOOLEAN, SM_SCAN(q, tm)
    PROVE  /\ state' \in States /\ timers' \in [Timers -> Nat]
           /\ scanning' \in BOOLEAN /\ QueueOK(queue')
<1>1. Msg("SCAN_FAIL") \in Message
  BY MsgType DEF Events, Reports
<1>2. QueueOK(Post(q, Msg("SCAN_FAIL")))
  BY <1>1, PostType
<1>3. scanning \in BOOLEAN
  BY TypeParts
<1>4. timers' \in [Timers -> Nat]
  BY DEF SM_SCAN
<1> QED BY <1>2, <1>3, <1>4 DEF SM_SCAN, States

(* eloop_timeout_register, with memory and without.                        *)
LEMMA RegisteredType ==
    ASSUME NEW tm \in [Timers -> Nat], NEW t \in Timers \ {"unset"},
           NEW r \in Registered(tm, t)
    PROVE  /\ r \in [Timers -> Nat] /\ r[t] \in {tm[t], tm[t] + 1}
           /\ \A u \in Timers \ {"unset", t} : r[u] = tm[u]
BY DEF Registered, Timers

(* mgmt_register_delayed_connect_retry                                     *)
LEMMA RetryArmedType ==
    ASSUME NEW tm \in [Timers -> Nat], NEW r \in RetryArmed(tm)
    PROVE  /\ r \in [Timers -> Nat]
           /\ tm["retry"] <= 1 => r["retry"] <= 1
           /\ r["link"] = tm["link"] /\ r["dhcp"] = tm["dhcp"]
<1>1. CASE tm["retry"] > 0
  BY <1>1 DEF RetryArmed
<1>2. CASE ~(tm["retry"] > 0)
  <2>1. r \in Registered(tm, "retry") /\ tm["retry"] = 0
    BY <1>2 DEF RetryArmed, Timers
  <2>2. "retry" \in Timers \ {"unset"}
    BY DEF Timers
  <2> QED BY <2>1, <2>2, RegisteredType DEF Timers
<1> QED BY <1>1, <1>2

(* The retry counter after it is set for a new connection.                 *)
LEMMA RetryParam ==
    /\ RetryLimit - 1 \in 0..RetryWord - 1
    /\ RoamLimit - 1 \in 0..RetryWord - 1
    /\ 0 \in 0..RetryWord - 1
    /\ DhcpLimit \in 0..DhcpWord - 1
<1>1. /\ RetryLimit \in Nat \ {0} /\ RetryWord \in Nat /\ RetryWord > RetryLimit
      /\ RoamLimit \in Nat \ {0} /\ RetryWord > RoamLimit
      /\ DhcpWord \in Nat /\ DhcpWord > DhcpLimit /\ DhcpLimit \in Nat
  BY WifiAssumption
<1> QED BY <1>1

(* The retries are used up.                                                *)
LEMMA GivenUpType ==
    ASSUME TypeOK, NEW q, QueueOK(q), NEW up, GivenUp(q, up)
    PROVE  /\ state' \in States /\ delayed' \in BOOLEAN /\ timers' \in [Timers -> Nat]
           /\ QueueOK(queue') /\ WaitOK(waitq') /\ link' \in Links
           /\ cfg' \in CfgSet /\ preroam' \in Nets \cup {NoNet}
           /\ scanning' \in BOOLEAN /\ polling_scan' \in BOOLEAN
<1>1. cfg \in CfgSet /\ WaitOK(waitq) /\ preroam \in Nets \cup {NoNet}
      /\ scanning \in BOOLEAN /\ polling_scan \in BOOLEAN
  BY TypeParts
<1>2. Msg("CONNECT_CMD") \in Message
  BY MsgType DEF Events, Commands
<1>3. QueueOK(Rollback(q))
  BY <1>2, PostType DEF Rollback
<1>4. WaitOK(mgmt_post_conn_done(waitq, NoReason(Head(queue)), NoNet))
  <2>1. PICK b \in BOOLEAN : b = NoReason(Head(queue))
    BY DEF NoReason
  <2> QED BY <1>1, <2>1, AnswerType
<1>5. SM_IDLE(Rollback(q), mgmt_post_conn_done(waitq, NoReason(Head(queue)), NoNet), up)
  BY DEF GivenUp
<1>6. /\ state' \in States /\ delayed' \in BOOLEAN /\ timers' \in [Timers -> Nat]
      /\ QueueOK(queue') /\ WaitOK(waitq') /\ link' \in Links
  BY <1>3, <1>4, <1>5, IdleEntry
<1>7. cfg' \in CfgSet
  BY <1>1 DEF GivenUp, CfgSet
<1> QED BY <1>1, <1>6, <1>7 DEF GivenUp

(* An attempt fails: it is tried again later or given up.                  *)
LEMMA AttemptFailedType ==
    ASSUME TypeOK, NEW q, QueueOK(q), NEW up, AttemptFailed(q, up)
    PROVE  /\ state' \in States /\ delayed' \in BOOLEAN /\ timers' \in [Timers -> Nat]
           /\ QueueOK(queue') /\ WaitOK(waitq') /\ link' \in Links
           /\ cfg' \in CfgSet /\ preroam' \in Nets \cup {NoNet}
           /\ scanning' \in BOOLEAN /\ polling_scan' \in BOOLEAN
           /\ retry_count' \in 0..RetryWord - 1
<1> USE TypeParts
<1>1. CASE GiveUp(q, up)
  BY <1>1, GivenUpType DEF GiveUp
<1>2. CASE /\ delayed' = TRUE
           /\ \E tm \in RetryArmed(timers) : SM_SCAN(q, tm)
           /\ link' = IF up THEN link ELSE "down"
           /\ UNCHANGED <<retry_count, roamvars, cfg, waitq>>
  <2>1. PICK tm \in RetryArmed(timers) : SM_SCAN(q, tm)
    BY <1>2
  <2>2. tm \in [Timers -> Nat]
    BY <2>1, RetryArmedType
  <2>3. /\ state' \in States /\ timers' \in [Timers -> Nat]
        /\ scanning' \in BOOLEAN /\ QueueOK(queue')
    BY <1>2, <2>1, <2>2, ScanEntry
  <2> QED BY <1>2, <2>3 DEF roamvars, Links
<1> QED BY <1>1, <1>2 DEF AttemptFailed

-----------------------------------------------------------------------------
(* The steps keep the types.                                               *)

(* The calls other tasks make.                                             *)
LEMMA CallerType ==
    ASSUME TypeOK, NEW c \in Callers,
           Caller(c) \/ Runs(c) \/ GivesUpWaiting(c)
    PROVE  TypeOK'
<1> USE TypeParts, TypePartsNext
<1>w. WaitOK(<<>>) /\ MaxCalls \in Nat
  BY WifiAssumption DEF WaitOK
<1>t. waitq # <<>> => WaitOK(Tail(waitq))
  <2>1. WaitLen \in Nat /\ Len(waitq) \in Nat
    BY WifiAssumption DEF WaitOK
  <2>2. waitq # <<>> => Tail(waitq) \in Seq(Answer) /\ Len(Tail(waitq)) = Len(waitq) - 1
    BY DEF WaitOK
  <2> QED BY <2>1, <2>2 DEF WaitOK
<1>b. ASSUME NEW what \in PcSet, NEW n \in Nets \cup {NoNet}, NEW b \in BOOLEAN,
             Begin(c, what, n, b)
      PROVE  calls' \in 0..MaxCalls /\ call' \in [Callers -> CallSet] /\ WaitOK(waitq')
  BY <1>b, <1>w DEF Begin, CallSet
<1>s. ASSUME NEW msg \in Message, NEW next \in PcSet, Sent(c, msg, next)
      PROVE  call' \in [Callers -> CallSet] /\ QueueOK(queue')
  BY <1>s, PostType DEF Sent, CallSet, PcSet
<1>f. ASSUME NEW evt, NEW next \in PcSet, Fetch(c, evt, next)
      PROVE  call' \in [Callers -> CallSet] /\ WaitOK(waitq')
  BY <1>f, <1>t DEF Fetch, CallSet
<1>1. CASE wifi_management_connect(c)
  <2>1. calls' \in 0..MaxCalls /\ call' \in [Callers -> CallSet] /\ WaitOK(waitq')
    BY <1>1, <1>b DEF wifi_management_connect, PcSet
  <2> QED BY <1>1, <2>1 DEF wifi_management_connect, smvars, roamvars, macvars
<1>2. CASE ConnectSend(c)
  <2>1. [ev |-> "CONNECT_CMD", net |-> call[c].net, flag |-> call[c].blocked] \in Message
    BY DEF Message, Commands, CallSet
  <2>2. call' \in [Callers -> CallSet] /\ QueueOK(queue')
    BY <1>2, <1>s, <2>1 DEF ConnectSend, PcSet
  <2> QED BY <1>2, <2>2 DEF ConnectSend, smvars, roamvars, macvars, bounds
<1>3. CASE ConnectAnswer(c)
  <2>1. call' \in [Callers -> CallSet] /\ WaitOK(waitq')
    BY <1>3, <1>f DEF ConnectAnswer, PcSet
  <2> QED BY <1>3, <2>1 DEF ConnectAnswer, smvars, roamvars, macvars, bounds
<1>4. CASE ConnectTimeout(c)
  <2>1. call' \in [Callers -> CallSet]
    BY <1>4 DEF ConnectTimeout, CallSet, PcSet
  <2> QED BY <1>4, <2>1 DEF ConnectTimeout, smvars, roamvars, macvars, bounds
<1>5. CASE wifi_management_disconnect(c)
  <2>1. calls' \in 0..MaxCalls /\ call' \in [Callers -> CallSet] /\ WaitOK(waitq')
    BY <1>5, <1>b DEF wifi_management_disconnect, PcSet
  <2> QED BY <1>5, <2>1 DEF wifi_management_disconnect, smvars, roamvars, macvars
<1>6. CASE DisconnectSend(c)
  <2>1. Msg("DISCONNECT_CMD") \in Message
    BY MsgType DEF Events, Commands
  <2>2. call' \in [Callers -> CallSet] /\ QueueOK(queue')
    BY <1>6, <1>s, <2>1 DEF DisconnectSend, PcSet
  <2> QED BY <1>6, <2>2 DEF DisconnectSend, smvars, roamvars, macvars, bounds
<1>7. CASE DisconnectAnswer(c)
  <2>1. call' \in [Callers -> CallSet] /\ WaitOK(waitq')
    BY <1>7, <1>f DEF DisconnectAnswer, PcSet
  <2> QED BY <1>7, <2>1 DEF DisconnectAnswer, smvars, roamvars, macvars, bounds
<1>8. CASE DisconnectTimeout(c)
  <2>1. call' \in [Callers -> CallSet]
    BY <1>8 DEF DisconnectTimeout, CallSet, PcSet
  <2> QED BY <1>8, <2>1 DEF DisconnectTimeout, smvars, roamvars, macvars, bounds
<1>9. CASE wifi_management_scan(c)
  <2>1. PICK b \in BOOLEAN : Begin(c, "scan", NoNet, b) /\ scan_blocked' = b
    BY <1>9 DEF wifi_management_scan
  <2>2. calls' \in 0..MaxCalls /\ call' \in [Callers -> CallSet] /\ WaitOK(waitq')
    BY <2>1, <1>b DEF PcSet
  <2> QED BY <1>9, <2>1, <2>2 DEF wifi_management_scan, smvars, roamvars, macvars
<1>10. CASE ScanSend(c)
  <2>1. Msg("SCAN_CMD") \in Message
    BY MsgType DEF Events, Commands
  <2>2. call' \in [Callers -> CallSet] /\ QueueOK(queue')
    BY <1>10, <1>s, <2>1 DEF ScanSend, PcSet
  <2>3. scan_blocked' \in BOOLEAN
    BY <1>10 DEF ScanSend
  <2> QED BY <1>10, <2>2, <2>3 DEF ScanSend, smvars, roamvars, macvars, bounds
<1>11. CASE ScanAnswer(c)
  <2>1. call' \in [Callers -> CallSet] /\ WaitOK(waitq')
    BY <1>11, <1>f DEF ScanAnswer, PcSet
  <2> QED BY <1>11, <2>1 DEF ScanAnswer, smvars, roamvars, macvars, bounds
<1>12. CASE ScanTimeout(c)
  <2>1. call' \in [Callers -> CallSet]
    BY <1>12 DEF ScanTimeout, CallSet, PcSet
  <2> QED BY <1>12, <2>1 DEF ScanTimeout, smvars, roamvars, macvars, bounds
<1>13. CASE wifi_management_sta_auto_connect(c)
  <2>1. Msg("AUTO_CONNECT_CMD") \in Message
    BY MsgType DEF Events, Commands
  <2>2. QueueOK(queue')
    BY <1>13, <2>1, PostType DEF wifi_management_sta_auto_connect
  <2>3. call' \in [Callers -> CallSet] /\ calls' \in 0..MaxCalls
    BY <1>13, <1>w DEF wifi_management_sta_auto_connect, CallSet, PcSet
  <2> QED BY <1>13, <2>2, <2>3 DEF wifi_management_sta_auto_connect, smvars, roamvars, macvars
<1> QED BY <1>1, <1>2, <1>3, <1>4, <1>5, <1>6, <1>7, <1>8, <1>9, <1>10, <1>11, <1>12, <1>13
        DEF Caller, Runs, GivesUpWaiting

(* The messages the manager handles.                                       *)
LEMMA DispatchType == TypeOK /\ Dispatch => TypeOK'
<1> SUFFICES ASSUME TypeOK, Dispatch PROVE TypeOK'
  OBVIOUS
<1> USE TypeParts, TypePartsNext
<1>q. queue # <<>>
  BY DEF Dispatch, ScanCmd, IdleConnectCmd, IdleAutoConnect, IdleScanDone, IdleDisconnectCmd,
         LinkIsOngoing, Abandon, ScanDone, ScanFail, AttemptEnds, AssocSuccess, DhcpStart,
         DhcpSuccess, ConnectedConnectCmd, ConnectedScanDone, ConnectedScanFail, LinkLost,
         RoamingStart, Ignore, On
<1>r. QueueOK(Rest) /\ Head(queue) \in Message
  BY <1>q, RestType
<1>a. /\ WaitOK(mgmt_post_conn_done(waitq, TRUE, cfg.net))
      /\ WaitOK(mgmt_post_disconn_done(waitq))
      /\ \A ok \in BOOLEAN : WaitOK(mgmt_post_scan_done(waitq, ok))
      /\ WaitOK(PostWait(waitq, [evt |-> "CONN_DONE", ok |-> FALSE, net |-> NoNet]))
  <2>1. cfg.net \in Nets \cup {NoNet}
    BY DEF CfgSet
  <2> QED BY <2>1, AnswerType
<1>m. \A ev \in Events : QueueOK(Post(Rest, Msg(ev)))
  BY <1>r, MsgType, PostType
<1>c. \A up : QueueOK(Cut(Rest, up))
  BY <1>r, CutType
<1>1. CASE ScanCmd
  BY <1>1, <1>r, <1>a DEF ScanCmd, smvars, roamvars, bounds
<1>2. CASE IdleConnectCmd
  <2>1. cfg' \in CfgSet
    BY <1>2, <1>r DEF IdleConnectCmd, Requested, Message, CfgSet
  <2>2. /\ state' \in States /\ timers' \in [Timers -> Nat]
        /\ scanning' \in BOOLEAN /\ QueueOK(queue')
    BY <1>2, <1>r, ScanEntry DEF IdleConnectCmd
  <2> QED BY <1>2, <2>1, <2>2, RetryParam DEF IdleConnectCmd, roamvars, bounds
<1>3. CASE IdleAutoConnect
  <2>1. CASE SM_IDLE(Rest, waitq, link # "down") /\ UNCHANGED <<cfg, retry_count, scanning>>
    <3>1. /\ state' \in States /\ delayed' \in BOOLEAN /\ timers' \in [Timers -> Nat]
          /\ QueueOK(queue') /\ WaitOK(waitq') /\ link' \in Links
      BY <2>1, <1>r, IdleEntry
    <3> QED BY <1>3, <2>1, <3>1 DEF IdleAutoConnect, roamvars, bounds
  <2>2. CASE /\ \E n \in Nets : cfg' = [cfg EXCEPT !.net = n]
             /\ retry_count' = RoamLimit - 1 /\ delayed' = delayed
             /\ SM_SCAN(Rest, timers)
             /\ UNCHANGED <<waitq, link>>
    <3>1. /\ state' \in States /\ timers' \in [Timers -> Nat]
          /\ scanning' \in BOOLEAN /\ QueueOK(queue')
      BY <2>2, <1>r, ScanEntry
    <3>2. cfg' \in CfgSet
      BY <2>2 DEF CfgSet
    <3> QED BY <1>3, <2>2, <3>1, <3>2, RetryParam DEF IdleAutoConnect, roamvars, bounds
  <2> QED BY <1>3, <2>1, <2>2 DEF IdleAutoConnect
<1>4. CASE IdleScanDone
  BY <1>4, <1>r, <1>a DEF IdleScanDone, smvars, roamvars, macvars, bounds
<1>5. CASE IdleDisconnectCmd
  BY <1>5, <1>r, <1>a DEF IdleDisconnectCmd, smvars, roamvars, macvars, bounds
<1>6. CASE LinkIsOngoing
  <2>1. cfg' \in CfgSet
    BY <1>6 DEF LinkIsOngoing, CfgSet
  <2> QED BY <1>6, <2>1, <1>r, <1>a DEF LinkIsOngoing, smvars, roamvars, macvars, bounds
<1>7. CASE Abandon
  <2>1. /\ state' \in States /\ delayed' \in BOOLEAN /\ timers' \in [Timers -> Nat]
        /\ QueueOK(queue') /\ WaitOK(waitq') /\ link' \in Links
    BY <1>7, <1>r, IdleEntry DEF Abandon
  <2> QED BY <1>7, <2>1 DEF Abandon, roamvars, bounds
<1>8. CASE ScanDone
  <2>1. cfg' \in CfgSet
    BY <1>8 DEF ScanDone, CfgSet
  <2>2. QueueOK(queue')
    BY <1>8, <1>r, <1>m DEF ScanDone, Events, Reports
  <2> QED BY <1>8, <2>1, <2>2 DEF ScanDone, States, Links, roamvars, bounds
<1>9. CASE ScanFail
  <2>1. CASE /\ timers' \in RetryArmed(timers) /\ queue' = Rest
             /\ UNCHANGED <<state, retry_count, delayed, roamvars, cfg, waitq, macvars>>
    <3>1. timers' \in [Timers -> Nat]
      BY <2>1, RetryArmedType
    <3> QED BY <1>9, <2>1, <3>1, <1>r DEF ScanFail, roamvars, macvars, bounds
  <2>2. CASE GiveUp(Rest, link # "down")
    <3>1. /\ state' \in States /\ delayed' \in BOOLEAN /\ timers' \in [Timers -> Nat]
          /\ QueueOK(queue') /\ WaitOK(waitq') /\ link' \in Links
          /\ cfg' \in CfgSet /\ preroam' \in Nets \cup {NoNet}
          /\ scanning' \in BOOLEAN /\ polling_scan' \in BOOLEAN
      BY <2>2, <1>r, GivenUpType DEF GiveUp
    <3> QED BY <1>9, <2>2, <3>1 DEF ScanFail, GiveUp, bounds
  <2> QED BY <1>9, <2>1, <2>2 DEF ScanFail
<1>10. CASE AttemptEnds
  <2>1. \E q, up : QueueOK(q) /\ AttemptFailed(q, up)
    BY <1>10, <1>r, <1>c DEF AttemptEnds
  <2>2. /\ state' \in States /\ delayed' \in BOOLEAN /\ timers' \in [Timers -> Nat]
        /\ QueueOK(queue') /\ WaitOK(waitq') /\ link' \in Links
        /\ cfg' \in CfgSet /\ preroam' \in Nets \cup {NoNet}
        /\ scanning' \in BOOLEAN /\ polling_scan' \in BOOLEAN
        /\ retry_count' \in 0..RetryWord - 1
    BY <2>1, AttemptFailedType
  <2> QED BY <1>10, <2>2 DEF AttemptEnds, bounds
<1>11. CASE AssocSuccess
  BY <1>11, <1>r DEF AssocSuccess, States, roamvars, macvars, bounds
<1>12. CASE DhcpStart
  <2>1. timers' \in [Timers -> Nat]
    BY <1>12, RegisteredType DEF DhcpStart, Timers
  <2> QED BY <1>12, <2>1, <1>r, RetryParam DEF DhcpStart, States, roamvars, macvars, bounds
<1>13. CASE DhcpSuccess
  <2>1. cfg' \in CfgSet
    BY <1>13 DEF DhcpSuccess, CfgSet
  <2>2. QueueOK(queue')
    BY <1>13, <1>r, <1>m DEF DhcpSuccess, Events, OwnEvents
  <2>3. timers' \in [Timers -> Nat]
    BY <1>13 DEF DhcpSuccess, Timers
  <2> QED BY <1>13, <2>1, <2>2, <2>3, <1>a DEF DhcpSuccess, States, macvars, bounds
<1>14. CASE ConnectedConnectCmd
  <2>1. cfg' \in CfgSet
    BY <1>14, <1>r DEF ConnectedConnectCmd, Requested, Message, CfgSet
  <2>2. [t \in Timers |-> 0] \in [Timers -> Nat]
    OBVIOUS
  <2>3. /\ state' \in States /\ timers' \in [Timers -> Nat]
        /\ scanning' \in BOOLEAN /\ QueueOK(queue')
    BY <1>14, <1>c, <2>2, ScanEntry DEF ConnectedConnectCmd
  <2> QED BY <1>14, <2>1, <2>3, <1>a, RetryParam DEF ConnectedConnectCmd, Links, roamvars, bounds
<1>15. CASE ConnectedScanDone
  <2>1. QueueOK(queue')
    BY <1>15, <1>r, <1>m DEF ConnectedScanDone, Events, Commands
  <2> QED BY <1>15, <2>1, <1>a DEF ConnectedScanDone, smvars, macvars, bounds
<1>16. CASE ConnectedScanFail
  BY <1>16, <1>r, <1>a DEF ConnectedScanFail, smvars, roamvars, macvars, bounds
<1>17. CASE LinkLost
  <2> DEFINE sa == Head(queue).ev = "SA_QUERY_FAIL"
             q == IF sa THEN Cut(Rest, link # "down") ELSE Rest
             up == link # "down" /\ ~sa
  <2>q. QueueOK(q)
    BY <1>r, <1>c
  <2>1. CASE /\ retry_count' = RoamLimit - 1 /\ delayed' = delayed
             /\ SM_SCAN(q, timers)
             /\ link' = IF up THEN link ELSE "down"
             /\ UNCHANGED <<roamvars, cfg, waitq>>
    <3>1. /\ state' \in States /\ timers' \in [Timers -> Nat]
          /\ scanning' \in BOOLEAN /\ QueueOK(queue')
      BY <2>1, <2>q, ScanEntry
    <3> QED BY <1>17, <2>1, <3>1, RetryParam DEF LinkLost, Links, roamvars, bounds
  <2>2. CASE retry_count' = 0 /\ GivenUp(q, up)
    <3>1. /\ state' \in States /\ delayed' \in BOOLEAN /\ timers' \in [Timers -> Nat]
          /\ QueueOK(queue') /\ WaitOK(waitq') /\ link' \in Links
          /\ cfg' \in CfgSet /\ preroam' \in Nets \cup {NoNet}
          /\ scanning' \in BOOLEAN /\ polling_scan' \in BOOLEAN
      BY <2>2, <2>q, GivenUpType
    <3> QED BY <1>17, <2>2, <3>1, RetryParam DEF LinkLost, bounds
  <2>3. CASE SM_IDLE(q, waitq, up) /\ UNCHANGED <<retry_count, roamvars, cfg, scanning>>
    <3>1. /\ state' \in States /\ delayed' \in BOOLEAN /\ timers' \in [Timers -> Nat]
          /\ QueueOK(queue') /\ WaitOK(waitq') /\ link' \in Links
      BY <2>3, <2>q, IdleEntry
    <3> QED BY <1>17, <2>3, <3>1 DEF LinkLost, roamvars, bounds
  <2> QED BY <1>17, <2>1, <2>2, <2>3 DEF LinkLost
<1>18. CASE RoamingStart
  <2>1. timers' \in [Timers -> Nat]
    BY <1>18 DEF RoamingStart, Timers
  <2>2. cfg.net \in Nets \cup {NoNet}
    BY DEF CfgSet
  <2> QED BY <1>18, <2>1, <2>2, <1>r DEF RoamingStart, macvars, bounds
<1>19. CASE Ignore
  BY <1>19, <1>r DEF Ignore, smvars, roamvars, macvars, bounds
<1> QED BY <1>1, <1>2, <1>3, <1>4, <1>5, <1>6, <1>7, <1>8, <1>9, <1>10, <1>11, <1>12,
           <1>13, <1>14, <1>15, <1>16, <1>17, <1>18, <1>19 DEF Dispatch

(* The timeouts and the radio.                                             *)
LEMMA TimeoutType ==
    TypeOK /\ (mgmt_connect_retry \/ mgmt_dhcp_polling \/ mgmt_link_status_polling) => TypeOK'
<1> SUFFICES ASSUME TypeOK,
                    mgmt_connect_retry \/ mgmt_dhcp_polling \/ mgmt_link_status_polling
             PROVE  TypeOK'
  OBVIOUS
<1> USE TypeParts, TypePartsNext
<1>c. /\ RetryWord \in Nat \ {0} /\ DhcpWord \in Nat \ {0} /\ MaxEvents \in Nat
  BY WifiAssumption
<1>1. CASE mgmt_connect_retry
  <2>1. [timers EXCEPT !["retry"] = @ - 1] \in [Timers -> Nat]
    BY <1>1 DEF mgmt_connect_retry, Timers
  <2>2. /\ state' \in States /\ timers' \in [Timers -> Nat]
        /\ scanning' \in BOOLEAN /\ QueueOK(queue')
    BY <1>1, <2>1, ScanEntry DEF mgmt_connect_retry
  <2>3. retry_count' \in 0..RetryWord - 1
    BY <1>1, <1>c DEF mgmt_connect_retry
  <2> QED BY <1>1, <2>2, <2>3 DEF mgmt_connect_retry, roamvars, bounds
<1>2. CASE mgmt_dhcp_polling
  <2>1. Msg("DHCP_SUCCESS") \in Message /\ Msg("DHCP_FAIL") \in Message
    BY MsgType DEF Events, OwnEvents
  <2>2. QueueOK(queue')
    BY <1>2, <2>1, PostType DEF mgmt_dhcp_polling
  <2>d. [timers EXCEPT !["dhcp"] = @ - 1] \in [Timers -> Nat] /\ "dhcp" \in Timers \ {"unset"}
    BY <1>2 DEF mgmt_dhcp_polling, Timers
  <2>3. timers' \in [Timers -> Nat]
    BY <1>2, <2>d, RegisteredType DEF mgmt_dhcp_polling
  <2>4. dhcp_count' \in 0..DhcpWord - 1
    BY <1>2, <1>c DEF mgmt_dhcp_polling
  <2> QED BY <1>2, <2>2, <2>3, <2>4 DEF mgmt_dhcp_polling, roamvars, macvars, bounds
<1>3. CASE mgmt_link_status_polling
  <2>u. UNCHANGED <<state, retry_count, delayed, dhcp_count, scan_blocked, cfg, queue, waitq,
                    link, call, calls>>
    BY <1>3 DEF mgmt_link_status_polling
  <2>1. CASE /\ preroam' \in {NoNet, preroam}
             /\ timers' = [timers EXCEPT !["link"] = @ - 1]
             /\ UNCHANGED <<polling_scan, scanning, events>>
    <3>1. timers["link"] > 0
      BY <1>3 DEF mgmt_link_status_polling
    <3>2. timers' \in [Timers -> Nat]
      BY <2>1, <3>1 DEF Timers
    <3> QED BY <2>u, <2>1, <3>2
  <2>2. CASE /\ events < MaxEvents
             /\ events' = events + 1 /\ polling_scan' = TRUE
             /\ scanning' \in {scanning, TRUE}
             /\ timers' \in {timers, [timers EXCEPT !["link"] = @ - 1]}
             /\ UNCHANGED preroam
    <3>1. events' \in 0..MaxEvents
      BY <2>2, <1>c
    <3>2. timers["link"] > 0
      BY <1>3 DEF mgmt_link_status_polling
    <3>3. timers' \in [Timers -> Nat]
      BY <2>2, <3>2 DEF Timers
    <3> QED BY <2>u, <2>2, <3>1, <3>3
  <2> QED BY <1>3, <2>1, <2>2 DEF mgmt_link_status_polling
<1> QED BY <1>1, <1>2, <1>3

(* What the MAC and the handshake report.                                  *)
Radio == \/ MacScanEnds \/ MacJoinEnds \/ HandshakeEnds
         \/ MacDrops \/ SaQueryFails \/ MacRoams
LEMMA RadioType == TypeOK /\ Radio => TypeOK'
<1> SUFFICES ASSUME TypeOK, Radio PROVE TypeOK'
  OBVIOUS
<1> USE TypeParts, TypePartsNext
<1>1. \E msg \in Message : Report(msg)
  BY MsgType DEF Radio, MacScanEnds, MacJoinEnds, HandshakeEnds, MacDrops, SaQueryFails,
                 MacRoams, Events, Reports, Disconnects
<1>2. QueueOK(queue') /\ UNCHANGED <<smvars, roamvars, scan_blocked, cfg, waitq, call, calls>>
  BY <1>1, PostType DEF Report
<1>3. MaxEvents \in Nat
  BY WifiAssumption
<1>4. link' \in Links
  BY DEF Radio, MacScanEnds, MacJoinEnds, HandshakeEnds, MacDrops, SaQueryFails, MacRoams,
         macvars, Links
<1>5. scanning' \in BOOLEAN
  BY DEF Radio, MacScanEnds, MacJoinEnds, HandshakeEnds, MacDrops, SaQueryFails, MacRoams,
         macvars
<1>6. events' \in 0..MaxEvents
  <2>1. events' = events \/ (events < MaxEvents /\ events' = events + 1)
    <3>1. MacScanEnds \/ MacJoinEnds \/ HandshakeEnds => events' = events
      BY DEF MacScanEnds, MacJoinEnds, HandshakeEnds
    <3>2. MacDrops \/ SaQueryFails \/ MacRoams => events < MaxEvents /\ events' = events + 1
      BY DEF MacDrops, SaQueryFails, MacRoams
    <3> QED BY <3>1, <3>2 DEF Radio
  <2> QED BY <1>3, <2>1
<1> QED BY <1>2, <1>4, <1>5, <1>6 DEF smvars, roamvars

(* Every variable has its type and the two queues of the manager never     *)
(* exceed their lengths, whatever callers and radio do.                    *)
THEOREM TypeCorrect == Spec => []TypeOK
<1>1. Init => TypeOK
  BY InitType
<1>2. TypeOK /\ [Next]_vars => TypeOK'
  <2> SUFFICES ASSUME TypeOK, [Next]_vars PROVE TypeOK'
    OBVIOUS
  <2>1. CASE UNCHANGED vars
    BY <2>1, TypeParts, TypePartsNext DEF vars, smvars, roamvars, macvars, bounds
  <2>2. CASE Next
    BY <2>2, CallerType, DispatchType, TimeoutType, RadioType DEF Next, Radio
  <2> QED BY <2>1, <2>2
<1> QED BY <1>1, <1>2, PTL DEF Spec

-----------------------------------------------------------------------------
(* Timeouts.                                                               *)

(* IDLE is entered without timeouts.                                       *)
LEMMA IdleTimers ==
    ASSUME NEW q, NEW w, NEW up, SM_IDLE(q, w, up)
    PROVE  TimersMatchState'
BY DEF SM_IDLE, TimersMatchState, Timers

(* SCAN is entered without the polling of the link.                        *)
LEMMA ScanTimers ==
    ASSUME NEW q, NEW tm \in [Timers -> Nat], SM_SCAN(q, tm),
           tm["retry"] <= 1, tm["retry"] > 0 => retry_count' > 0
    PROVE  TimersMatchState'
BY DEF SM_SCAN, TimersMatchState, Timers, Ongoing

(* A failed attempt arms the retry once, and only with a retry left.       *)
LEMMA FailedTimers ==
    ASSUME TypeOK, TimersMatchState, NEW q, NEW up, AttemptFailed(q, up)
    PROVE  TimersMatchState'
<1>1. timers \in [Timers -> Nat] /\ retry_count \in Nat
  BY TypeParts
<1>2. CASE GiveUp(q, up)
  BY <1>2, IdleTimers DEF GiveUp, GivenUp
<1>3. CASE /\ retry_count > 0
           /\ \E tm \in RetryArmed(timers) : SM_SCAN(q, tm)
           /\ UNCHANGED retry_count
  <2>1. PICK tm \in RetryArmed(timers) : SM_SCAN(q, tm)
    BY <1>3
  <2>2. tm \in [Timers -> Nat] /\ tm["retry"] <= 1
    BY <1>1, <2>1, RetryArmedType DEF TimersMatchState
  <2> QED BY <1>1, <1>3, <2>1, <2>2, ScanTimers
<1> QED BY <1>2, <1>3 DEF AttemptFailed

(* Each message leaves the timeouts in step with the state.                *)
LEMMA DispatchTimers == TypeOK /\ TimersMatchState /\ Dispatch => TimersMatchState'
<1> SUFFICES ASSUME TypeOK, TimersMatchState, Dispatch PROVE TimersMatchState'
  OBVIOUS
<1>t. timers \in [Timers -> Nat] /\ retry_count \in Nat
  BY TypeParts
<1>1. CASE UNCHANGED <<state, retry_count, timers>>
  BY <1>1 DEF TimersMatchState
<1>2. CASE IdleConnectCmd
  <2>1. timers["retry"] = 0
    BY <1>2, <1>t DEF IdleConnectCmd, On, TimersMatchState, Ongoing, Timers
  <2> QED BY <1>2, <1>t, <2>1, ScanTimers DEF IdleConnectCmd
<1>3. CASE IdleAutoConnect
  <2>1. timers["retry"] = 0
    BY <1>3, <1>t DEF IdleAutoConnect, On, TimersMatchState, Ongoing, Timers
  <2> QED BY <1>3, <1>t, <2>1, ScanTimers, IdleTimers DEF IdleAutoConnect
<1>4. CASE Abandon
  BY <1>4, IdleTimers DEF Abandon
<1>5. CASE ScanDone
  BY <1>5, <1>t DEF ScanDone, On, TimersMatchState, Ongoing, Timers
<1>6. CASE ScanFail
  <2>1. CASE GiveUp(Rest, link # "down")
    BY <2>1, IdleTimers DEF GiveUp, GivenUp
  <2>2. CASE /\ retry_count > 0 /\ timers' \in RetryArmed(timers)
             /\ UNCHANGED <<state, retry_count>>
    <3>1. timers'["retry"] <= 1 /\ timers'["link"] = timers["link"]
      BY <1>t, <2>2, RetryArmedType DEF TimersMatchState
    <3> QED BY <1>6, <1>t, <2>2, <3>1 DEF ScanFail, On, TimersMatchState, Ongoing
  <2> QED BY <1>6, <2>1, <2>2 DEF ScanFail
<1>7. CASE AttemptEnds
  BY <1>7, FailedTimers DEF AttemptEnds
<1>8. CASE AssocSuccess
  BY <1>8, <1>t DEF AssocSuccess, On, TimersMatchState, Ongoing, Timers
<1>9. CASE DhcpStart
  <2>1. timers'["retry"] = timers["retry"] /\ timers'["link"] = timers["link"]
    BY <1>9, <1>t, RegisteredType DEF DhcpStart, Timers
  <2> QED BY <1>9, <2>1 DEF DhcpStart, On, TimersMatchState, Ongoing
<1>10. CASE DhcpSuccess
  BY <1>10, <1>t DEF DhcpSuccess, On, TimersMatchState, Ongoing, Timers
<1>11. CASE ConnectedConnectCmd
  <2>1. [t \in Timers |-> 0] \in [Timers -> Nat] /\ [t \in Timers |-> 0]["retry"] = 0
    BY DEF Timers
  <2> QED BY <1>11, <2>1, ScanTimers DEF ConnectedConnectCmd
<1>12. CASE LinkLost
  <2>1. timers["retry"] = 0
    BY <1>12, <1>t DEF LinkLost, On, TimersMatchState, Ongoing, Timers
  <2>2. (\E q : SM_SCAN(q, timers)) \/ (\E q, w, up : SM_IDLE(q, w, up))
    BY <1>12 DEF LinkLost, GivenUp
  <2> QED BY <1>t, <2>1, <2>2, ScanTimers, IdleTimers
<1>13. CASE RoamingStart
  BY <1>13, <1>t DEF RoamingStart, On, TimersMatchState, Ongoing, Timers
<1>14. ScanCmd \/ IdleScanDone \/ IdleDisconnectCmd \/ LinkIsOngoing \/ ConnectedScanDone
          \/ ConnectedScanFail \/ Ignore => UNCHANGED <<state, retry_count, timers>>
  BY DEF ScanCmd, IdleScanDone, IdleDisconnectCmd, LinkIsOngoing, ConnectedScanDone,
         ConnectedScanFail, Ignore, smvars
<1> QED BY <1>1, <1>2, <1>3, <1>4, <1>5, <1>6, <1>7, <1>8, <1>9, <1>10, <1>11, <1>12, <1>13,
           <1>14 DEF Dispatch

(* mgmt_connect_retry finds an attempt under way and a retry left: it never *)
(* restarts a station that was taken off or is connected, and its unsigned  *)
(* counter never wraps; at most one retry is pending; the link is polled in *)
(* CONNECTED only.  For any callers, queue lengths, limits and radio.       *)
THEOREM TimersSound == Spec => []TimersMatchState
<1>1. Init => TimersMatchState
  BY DEF Init, TimersMatchState, Timers
<1>2. TypeOK /\ TimersMatchState /\ [Next]_vars => TimersMatchState'
  <2> SUFFICES ASSUME TypeOK, TimersMatchState, [Next]_vars PROVE TimersMatchState'
    OBVIOUS
  <2>t. timers \in [Timers -> Nat] /\ retry_count \in Nat
    BY TypeParts
  <2>1. CASE UNCHANGED <<state, retry_count, timers>>
    BY <2>1 DEF TimersMatchState
  <2>2. CASE Dispatch
    BY <2>2, DispatchTimers
  <2>3. CASE mgmt_connect_retry
    <3>1. [timers EXCEPT !["retry"] = @ - 1] \in [Timers -> Nat]
          /\ [timers EXCEPT !["retry"] = @ - 1]["retry"] = 0
      BY <2>3, <2>t DEF mgmt_connect_retry, TimersMatchState, Timers
    <3>2. SM_SCAN(queue, [timers EXCEPT !["retry"] = @ - 1])
      BY <2>3 DEF mgmt_connect_retry
    <3> DEFINE tm == [timers EXCEPT !["retry"] = @ - 1]
    <3> HIDE DEF tm
    <3>3. tm \in [Timers -> Nat] /\ tm["retry"] = 0 /\ SM_SCAN(queue, tm)
      BY <3>1, <3>2 DEF tm
    <3> QED BY <3>3, ScanTimers
  <2>4. CASE mgmt_dhcp_polling
    <3>1. timers'["retry"] = timers["retry"] /\ timers'["link"] = timers["link"]
      BY <2>4, <2>t DEF mgmt_dhcp_polling, Registered, Timers
    <3> QED BY <2>4, <3>1 DEF mgmt_dhcp_polling, TimersMatchState
  <2>5. CASE mgmt_link_status_polling
    <3>1. timers'["retry"] = timers["retry"] /\ state' = state /\ retry_count' = retry_count
      BY <2>5, <2>t DEF mgmt_link_status_polling, Timers
    <3> QED BY <2>5, <2>t, <3>1 DEF mgmt_link_status_polling, TimersMatchState
  <2>6. CASE Radio
    BY <2>6, <2>1 DEF Radio, MacScanEnds, MacJoinEnds, HandshakeEnds, MacDrops, SaQueryFails,
                      MacRoams, Report, smvars
  <2>7. CASE \E c \in Callers : Caller(c) \/ Runs(c) \/ GivesUpWaiting(c)
    BY <2>7, <2>1 DEF Caller, Runs, GivesUpWaiting, wifi_management_connect, ConnectSend,
         ConnectAnswer, ConnectTimeout, wifi_management_disconnect, DisconnectSend,
         DisconnectAnswer, DisconnectTimeout, wifi_management_scan, ScanSend, ScanAnswer,
         ScanTimeout, wifi_management_sta_auto_connect, smvars
  <2>8. CASE UNCHANGED vars
    BY <2>8, <2>1 DEF vars, smvars
  <2> QED BY <2>2, <2>3, <2>4, <2>5, <2>6, <2>7, <2>8 DEF Next, Radio
<1> QED BY <1>1, <1>2, TypeCorrect, PTL DEF Spec
-----------------------------------------------------------------------------
(* The DHCP polling.                                                       *)

(* IDLE is entered without it, ...                                         *)
LEMMA IdleDhcp ==
    ASSUME NEW q, NEW w, NEW up, SM_IDLE(q, w, up)
    PROVE  DhcpTimerOwned'
BY DEF SM_IDLE, DhcpTimerOwned, Timers

(* ... and so is SCAN.                                                     *)
LEMMA ScanDhcp ==
    ASSUME NEW q, NEW tm \in [Timers -> Nat], SM_SCAN(q, tm)
    PROVE  DhcpTimerOwned'
BY DEF SM_SCAN, DhcpTimerOwned, Timers

(* Outside DHCP and CONNECTED no polling is pending.                       *)
LEMMA NoPolling ==
    ASSUME TypeOK, DhcpTimerOwned, state \notin {"DHCP", "CONNECTED"}
    PROVE  timers["dhcp"] = 0
<1>1. timers["dhcp"] \in Nat
  BY TypeParts DEF Timers
<1> QED BY <1>1 DEF DhcpTimerOwned

(* Each message keeps the polling to its attempt.                          *)
LEMMA DispatchDhcp == TypeOK /\ DhcpTimerOwned /\ Dispatch => DhcpTimerOwned'
<1> SUFFICES ASSUME TypeOK, DhcpTimerOwned, Dispatch PROVE DhcpTimerOwned'
  OBVIOUS
<1>t. timers \in [Timers -> Nat] /\ dhcp_count \in Nat
  BY TypeParts
<1>s. ASSUME UNCHANGED dhcp_count, timers'["dhcp"] = timers["dhcp"],
             state' = state \/ state' \in {"DHCP", "CONNECTED"} \/ timers["dhcp"] = 0
      PROVE  DhcpTimerOwned'
  <2>1. timers'["dhcp"] <= 1
    BY <1>s DEF DhcpTimerOwned
  <2>2. timers'["dhcp"] > 0 => state' \in {"DHCP", "CONNECTED"} /\ dhcp_count' > 0
    BY <1>s DEF DhcpTimerOwned
  <2> QED BY <2>1, <2>2 DEF DhcpTimerOwned
<1>1. CASE IdleConnectCmd
  BY <1>1, <1>t, ScanDhcp DEF IdleConnectCmd
<1>2. CASE IdleAutoConnect
  BY <1>2, <1>t, ScanDhcp, IdleDhcp DEF IdleAutoConnect
<1>3. CASE Abandon
  BY <1>3, IdleDhcp DEF Abandon
<1>4. CASE ScanDone \/ AssocSuccess
  <2>1. timers["dhcp"] = 0
    BY <1>4, NoPolling DEF ScanDone, AssocSuccess, On
  <2> QED BY <1>4, <1>s, <2>1 DEF ScanDone, AssocSuccess
<1>5. CASE ScanFail
  <2>1. CASE GiveUp(Rest, link # "down")
    BY <2>1, IdleDhcp DEF GiveUp, GivenUp
  <2>2. CASE timers' \in RetryArmed(timers) /\ UNCHANGED state
    <3>1. timers'["dhcp"] = timers["dhcp"]
      BY <1>t, <2>2, RetryArmedType
    <3> QED BY <1>5, <1>s, <2>2, <3>1 DEF ScanFail
  <2> QED BY <1>5, <2>1, <2>2 DEF ScanFail
<1>6. CASE AttemptEnds
  <2>1. PICK q, up : AttemptFailed(q, up)
    BY <1>6 DEF AttemptEnds
  <2>2. CASE GiveUp(q, up)
    BY <2>2, IdleDhcp DEF GiveUp, GivenUp
  <2>3. CASE \E tm \in RetryArmed(timers) : SM_SCAN(q, tm)
    BY <1>t, <2>3, RetryArmedType, ScanDhcp
  <2> QED BY <2>1, <2>2, <2>3 DEF AttemptFailed
<1>7. CASE DhcpStart
  <2>1. timers["dhcp"] = 0
    BY <1>7, NoPolling DEF DhcpStart, On
  <2>2. timers'["dhcp"] \in {0, 1}
    BY <1>7, <1>t, <2>1, RegisteredType DEF DhcpStart, Timers
  <2>3. state' = "DHCP" /\ dhcp_count' > 0
    BY <1>7, WifiAssumption DEF DhcpStart
  <2> QED BY <2>2, <2>3 DEF DhcpTimerOwned
<1>8. CASE DhcpSuccess
  <2>1. timers'["dhcp"] = timers["dhcp"] /\ state' = "CONNECTED" /\ UNCHANGED dhcp_count
    BY <1>8, <1>t DEF DhcpSuccess, Timers
  <2> QED BY <1>s, <2>1
<1>9. CASE ConnectedConnectCmd
  <2>1. [t \in Timers |-> 0] \in [Timers -> Nat]
    OBVIOUS
  <2> QED BY <1>9, <2>1, ScanDhcp DEF ConnectedConnectCmd
<1>10. CASE LinkLost
  <2>1. (\E q : SM_SCAN(q, timers)) \/ (\E q, w, up : SM_IDLE(q, w, up))
    BY <1>10 DEF LinkLost, GivenUp
  <2> QED BY <1>t, <2>1, ScanDhcp, IdleDhcp
<1>11. CASE RoamingStart
  <2>1. timers'["dhcp"] = timers["dhcp"] /\ UNCHANGED <<state, dhcp_count>>
    BY <1>11, <1>t DEF RoamingStart, Timers
  <2> QED BY <1>s, <2>1
<1>12. CASE ScanCmd \/ IdleScanDone \/ IdleDisconnectCmd \/ LinkIsOngoing \/ ConnectedScanDone
              \/ ConnectedScanFail \/ Ignore
  <2>1. UNCHANGED <<state, dhcp_count, timers>>
    BY <1>12 DEF ScanCmd, IdleScanDone, IdleDisconnectCmd, LinkIsOngoing, ConnectedScanDone,
                 ConnectedScanFail, Ignore, smvars
  <2> QED BY <1>s, <2>1
<1> QED BY <1>1, <1>2, <1>3, <1>4, <1>5, <1>6, <1>7, <1>8, <1>9, <1>10, <1>11, <1>12
        DEF Dispatch

(* A poll that finds no address is registered again while polls are left.  *)
LEMMA PollingDhcp == TypeOK /\ DhcpTimerOwned /\ mgmt_dhcp_polling => DhcpTimerOwned'
<1> SUFFICES ASSUME TypeOK, DhcpTimerOwned, mgmt_dhcp_polling PROVE DhcpTimerOwned'
  OBVIOUS
<1>t. timers \in [Timers -> Nat] /\ dhcp_count \in 0..DhcpWord - 1 /\ DhcpWord \in Nat
  BY TypeParts, WifiAssumption
<1>1. timers["dhcp"] = 1 /\ state \in {"DHCP", "CONNECTED"} /\ dhcp_count > 0 /\ state' = state
  BY <1>t DEF mgmt_dhcp_polling, DhcpTimerOwned, Timers
<1>2. CASE timers' = [timers EXCEPT !["dhcp"] = @ - 1]
  <2>1. timers'["dhcp"] = 0
    BY <1>t, <1>1, <1>2 DEF Timers
  <2> QED BY <2>1 DEF DhcpTimerOwned
<1>3. CASE /\ dhcp_count' = (dhcp_count - 1) % DhcpWord /\ dhcp_count' # 0
           /\ timers' \in Registered([timers EXCEPT !["dhcp"] = @ - 1], "dhcp")
  <2>1. dhcp_count' > 0
    BY <1>t, <1>1, <1>3
  <2>2. timers'["dhcp"] \in {0, 1}
    BY <1>t, <1>1, <1>3 DEF Registered, Timers
  <2> QED BY <1>1, <2>1, <2>2 DEF DhcpTimerOwned
<1> QED BY <1>2, <1>3 DEF mgmt_dhcp_polling

(* At most one DHCP polling is pending, it has polls left, and it belongs  *)
(* to the attempt under way: however late the MAC reports and whatever     *)
(* the callers do meanwhile, mgmt_dhcp_polling never fires in IDLE, SCAN,  *)
(* CONNECT or HANDSHAKE, and its 8-bit counter never wraps.                *)
THEOREM DhcpPollingOwned == Spec => []DhcpTimerOwned
<1>1. Init => DhcpTimerOwned
  BY DEF Init, DhcpTimerOwned, Timers
<1>2. TypeOK /\ DhcpTimerOwned /\ [Next]_vars => DhcpTimerOwned'
  <2> SUFFICES ASSUME TypeOK, DhcpTimerOwned, [Next]_vars PROVE DhcpTimerOwned'
    OBVIOUS
  <2>t. timers \in [Timers -> Nat]
    BY TypeParts
  <2>1. CASE UNCHANGED <<state, dhcp_count, timers>>
    BY <2>1 DEF DhcpTimerOwned
  <2>2. CASE Dispatch
    BY <2>2, DispatchDhcp
  <2>3. CASE mgmt_connect_retry
    <3>1. [timers EXCEPT !["retry"] = @ - 1] \in [Timers -> Nat]
      BY <2>3, <2>t DEF mgmt_connect_retry, Timers
    <3>2. PICK tm \in [Timers -> Nat] : tm = [timers EXCEPT !["retry"] = @ - 1]
      BY <3>1
    <3> QED BY <2>3, <3>2, ScanDhcp DEF mgmt_connect_retry
  <2>4. CASE mgmt_dhcp_polling
    BY <2>4, PollingDhcp
  <2>5. CASE mgmt_link_status_polling
    <3>1. timers'["dhcp"] = timers["dhcp"] /\ UNCHANGED <<state, dhcp_count>>
      BY <2>5, <2>t DEF mgmt_link_status_polling, Timers
    <3> QED BY <3>1 DEF DhcpTimerOwned
  <2>6. CASE Radio
    BY <2>6, <2>1 DEF Radio, MacScanEnds, MacJoinEnds, HandshakeEnds, MacDrops, SaQueryFails,
                      MacRoams, Report, smvars
  <2>7. CASE \E c \in Callers : Caller(c) \/ Runs(c) \/ GivesUpWaiting(c)
    BY <2>7, <2>1 DEF Caller, Runs, GivesUpWaiting, wifi_management_connect, ConnectSend,
         ConnectAnswer, ConnectTimeout, wifi_management_disconnect, DisconnectSend,
         DisconnectAnswer, DisconnectTimeout, wifi_management_scan, ScanSend, ScanAnswer,
         ScanTimeout, wifi_management_sta_auto_connect, smvars
  <2>8. CASE UNCHANGED vars
    BY <2>8, <2>1 DEF vars, smvars
  <2> QED BY <2>2, <2>3, <2>4, <2>5, <2>6, <2>7, <2>8 DEF Next, Radio
<1> QED BY <1>1, <1>2, TypeCorrect, PTL DEF Spec
=============================================================================
