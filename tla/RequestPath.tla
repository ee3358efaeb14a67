---------------------------- MODULE RequestPath ----------------------------
(***************************************************************************)
(* One Service behind the controller's proxy, and the requests that are    *)
(* routed to it at the same time: retryMiddleware around makeHandler       *)
(* around Proxy.ServeHTTP (retry.go, controller.go, route/, proxy/).       *)
(* A request picks a pod by round robin over the addresses that are not    *)
(* marked bad, takes one of the transports (HTTP/1.1, h2c, the automatic   *)
(* choice between them with its cached verdict, or one of the two          *)
(* WebSocket tunnels), and is retried only when the dial failed.           *)
(*                                                                         *)
(* Time is abstracted: a bad mark (2 s), a verdict (TTL) and a negative    *)
(* WebSocket verdict (10 min) expire at any moment.  An attempt that was   *)
(* sent is answered or fails at any moment (a reset, a timeout).           *)
(***************************************************************************)
EXTENDS Integers, FiniteSets, Sequences, SequencesExt

CONSTANTS Reqs,       \* the requests, each used again once it has ended
          Pods,       \* the addresses of the Service's pods
          Routes,     \* the address list is one of these, and stays
          Starts,     \* what each pod speaks at first, of "h1", "h2" and "ws"
                      \* (extended CONNECT); nothing if it is down
          Protos,     \* what the version a pod is replaced by may speak
          Configs,    \* [scheme, auto, wsup, kinds]: appProtocol, the two
                      \* switches, and the kinds of request each of Reqs is
          Watched,    \* the request whose reachable addresses are remembered
          MaxRetry,   \* maxRetry of retryMiddleware
          Wrap,       \* the round-robin counter is kept modulo Wrap (2^32)
          MaxRolls    \* bound: changes of pods

NoPod == "nopod"

\* plain: no body.  body: one the transport streams.  upgrade: an HTTP/1.1
\* Upgrade.  ws: an extended CONNECT that wsh2.Normalize has turned into an
\* upgrade with the client's stream parked in the context.
Kinds == {"plain", "body", "upgrade", "ws"}

ASSUME ConfigAssumption ==
    /\ MaxRetry \in Nat \ {0} /\ Wrap \in Nat \ {0} /\ MaxRolls \in Nat
    /\ IsFiniteSet(Reqs) /\ IsFiniteSet(Pods) /\ NoPod \notin Pods
    /\ Routes \subseteq Seq(Pods)
    /\ Starts \subseteq [Pods -> SUBSET {"h1", "h2", "ws"}]
    /\ Protos \subseteq SUBSET {"h1", "h2", "ws"}

ASSUME RequestAssumption ==
    Watched \in Reqs /\ \A c \in Configs : c.kinds \in [Reqs -> SUBSET Kinds]

\* A round finds every pod: no more addresses than attempts.
ASSUME PodsWithinRetries == Cardinality(Pods) <= MaxRetry

VARIABLES cfg, route, cur, bad, proto, verdict, probing, wsneg, gauge,
          req, rolls

shared == <<route, cur, proto, rolls>>
vars == <<cfg, route, cur, bad, proto, verdict, probing, wsneg, gauge,
          req, rolls>>

Wires == {"h1", "h2", "warm", "probe", "wsh1", "wsh2"}

\* What a request keeps while it is served; all of it is dropped at the end,
\* but for gaveup: it ended with the 503 of no address or the 502 after the
\* last retry.  good (history, of Watched): the addresses that were listed, up
\* and not marked since the request arrived, emptied when any mark expires.
\* got (history, of requests that are not plain): a pod may have processed
\* it.  sent: not yet, on a live connection,
\* or on one whose pod has stopped.  tun: what is still open or running of a
\* tunnel, "xc" marking the extended CONNECT one; "upfull" and "downfull": the
\* copy to the pod, or to the client, is in a Write that its peer does not take.
Idle == [pc |-> "idle", kind |-> "plain", i |-> 0, pod |-> NoPod,
         sent |-> "no", body |-> "none", prober |-> FALSE,
         got |-> FALSE, good |-> {}, tun |-> {}, gaveup |-> FALSE]

TypeOK ==
    /\ cfg \in Configs /\ route \in Routes /\ cur \in 0..(Wrap - 1)
    /\ bad \subseteq Pods
    /\ proto \in [Pods -> SUBSET {"h1", "h2", "ws"}]
    /\ verdict \in {"none", "h2c", "h1"} /\ probing \in BOOLEAN
    /\ wsneg \subseteq Pods \cup {"svc"}
    /\ gauge \in Int /\ rolls \in 0..MaxRolls
    /\ req \in [Reqs ->
         [pc : {"idle", "serve", "cold", "backoff", "tunnel"} \cup Wires,
          kind : Kinds, i : 0..(MaxRetry - 1), pod : Pods \cup {NoPod},
          sent : {"no", "yes", "dead"}, body : {"none", "unread", "read", "closed"},
          prober : BOOLEAN, got : BOOLEAN, good : SUBSET Pods,
          tun : SUBSET {"up", "main", "stream", "conn", "xc", "eof", "gone",
                        "upfull", "downfull"},
          gaveup : BOOLEAN]]

Init ==
    /\ cfg \in Configs /\ route \in Routes /\ cur = 0
    /\ bad = {} /\ proto \in Starts
    /\ verdict = "none" /\ probing = FALSE /\ wsneg = {} /\ gauge = 0
    /\ req = [r \in Reqs |-> Idle] /\ rolls = 0

(***************************************************************************)
(* Choosing a pod.  A list of one address is used even when it is marked   *)
(* (an ExternalName target is such a list).                                *)
(***************************************************************************)
IsBad(p) == p \in bad

NextCur == (cur + 1) % Wrap

Get ==
    LET l == Len(route)
        p == NextCur % l
        Try(k) == route[((p + k) % l) + 1]
        ok == {k \in 0..(l - 1) : ~ IsBad(Try(k))}
    IN CASE l = 1 -> route[1]
         [] l > 1 /\ ok = {} -> NoPod
         [] OTHER -> Try(CHOOSE k \in ok : \A j \in ok : k <= j)

\* No address, no port or no route at all for the Service: nothing.
Lookup == IF route = << >> THEN NoPod ELSE Get

Up(p) == proto[p] # {}

Reachable(rt, b, pr) ==
    {p \in ToSet(rt) : pr[p] # {} /\ (p \notin b \/ Len(rt) = 1)}

Narrow(G) == [r \in Reqs |-> [req[r] EXCEPT !.good = @ \cap G]]

(***************************************************************************)
(* The end of a request, and of the RoundTrip it is in: the deferred       *)
(* release of the probe marker.                                            *)
(***************************************************************************)
End(r) == req' = [req EXCEPT ![r] = Idle]
GiveUp(r) == req' = [req EXCEPT ![r] = [Idle EXCEPT !.gaveup = TRUE]]
Released(r) == probing /\ ~ req[r].prober

Arrive(r) ==
    /\ req[r].pc = "idle"
    /\ \E k \in cfg.kinds[r] :
         req' = [req EXCEPT ![r] =
                  [Idle EXCEPT !.pc = "serve", !.kind = k,
                     !.body = IF k = "body" THEN "unread" ELSE "none",
                     !.good = IF r = Watched THEN Reachable(route, bad, proto)
                              ELSE {}]]
    /\ UNCHANGED <<cfg, shared, bad, verdict, probing, wsneg, gauge>>

(***************************************************************************)
(* makeHandler, Proxy.ServeHTTP, gateway.RoundTrip and the first half of   *)
(* autoH2CTransport.RoundTrip: which transport the request takes.          *)
(***************************************************************************)
Key(p) == IF cfg.auto THEN "svc" ELSE p

wsH2CEligible(p) ==
    /\ \/ cfg.scheme = "h2c"
       \/ cfg.scheme = "http" /\ cfg.auto /\ verdict = "h2c"
    /\ Key(p) \notin wsneg

AutoRoute(k) ==
    CASE k = "upgrade" -> "h1"
      [] k # "upgrade" /\ verdict = "h2c" -> "warm"
      [] k # "upgrade" /\ verdict = "h1" -> "h1"
      [] k = "body" /\ verdict = "none" -> "h1"
      [] OTHER -> "cold"

H2CRoundTrip(k) == IF k = "upgrade" THEN "h1" ELSE "h2"

Gateway(k) ==
    CASE cfg.scheme = "h2c" -> H2CRoundTrip(k)
      [] cfg.scheme = "http" /\ cfg.auto -> AutoRoute(k)
      [] OTHER -> "h1"

ServeHTTP(k, p) ==
    CASE k # "ws" -> Gateway(k)
      [] k = "ws" /\ cfg.wsup /\ wsH2CEligible(p) -> "wsh2"
      [] OTHER -> "wsh1"

Serve(r) ==
    /\ req[r].pc = "serve"
    /\ cur' = IF Len(route) > 1 THEN NextCur ELSE cur
    /\ IF Lookup = NoPod
       THEN GiveUp(r)
       ELSE req' = [req EXCEPT ![r].pod = Lookup,
                               ![r].pc = ServeHTTP(req[r].kind, Lookup)]
    /\ UNCHANGED <<cfg, route, proto, rolls, bad, verdict, probing, wsneg,
                   gauge>>

ColdHerd(r) ==
    /\ req[r].pc = "cold"
    /\ probing' = TRUE
    /\ req' = [req EXCEPT ![r].pc = "probe", ![r].prober = TRUE]
    /\ UNCHANGED <<cfg, shared, bad, verdict, wsneg, gauge>>

\* No fresh verdict: one bodyless request probes, the others use HTTP/1.1.
Cold(r) ==
    /\ req[r].pc = "cold"
    /\ probing' = TRUE
    /\ req' = [req EXCEPT ![r].pc = IF probing THEN "h1" ELSE "probe",
                          ![r].prober = ~ probing]
    /\ UNCHANGED <<cfg, shared, bad, verdict, wsneg, gauge>>

(***************************************************************************)
(* The dial.  A pod that is up accepts; the transport then streams the     *)
(* body.  The dedicated connection of an HTTP/1.1 tunnel is counted.       *)
(***************************************************************************)
Dialing(r) == req[r].pc \in Wires /\ req[r].sent = "no"

\* trackBodyRead.Read
Stream(body) == IF body = "unread" THEN "read" ELSE body

BackendConnections(r) == IF req[r].pc = "wsh1" THEN gauge + 1 ELSE gauge

Connect(r) ==
    /\ Dialing(r) /\ Up(req[r].pod)
    /\ req' = [req EXCEPT ![r].sent = "yes", ![r].body = Stream(@)]
    /\ gauge' = BackendConnections(r)
    /\ UNCHANGED <<cfg, shared, bad, verdict, probing, wsneg>>

canRequestRetry(r) == req[r].body # "read"

DialErrorUnmarked(r) ==
    /\ Dialing(r) /\ ~ Up(req[r].pod)
    /\ probing' = Released(r)
    /\ req' = [req EXCEPT ![r].pc = "backoff", ![r].prober = FALSE,
                 ![r].pod = NoPod,
                 ![r].body = IF @ = "unread" THEN "closed" ELSE @]
    /\ UNCHANGED <<cfg, shared, bad, verdict, wsneg, gauge>>

MarkBad(p) == bad' = bad \cup {p}

\* The dial fails: the address is marked bad, the verdict stays, ReverseProxy
\* closes the body, and the panic of the error handler (or of the tunnel)
\* brings the request back to the retry loop.
DialError(r) ==
    /\ Dialing(r) /\ ~ Up(req[r].pod)
    /\ MarkBad(req[r].pod)
    /\ probing' = Released(r)
    /\ IF canRequestRetry(r)
       THEN req' = [req EXCEPT ![r].pc = "backoff", ![r].prober = FALSE,
                      ![r].pod = NoPod,
                      ![r].body = IF @ = "unread" THEN "closed" ELSE @]
       ELSE End(r)
    /\ UNCHANGED <<cfg, shared, verdict, wsneg, gauge>>

BackoffUncounted(r) ==
    /\ req[r].pc = "backoff"
    /\ req' = [req EXCEPT ![r].pc = "serve"]
    /\ UNCHANGED <<cfg, shared, bad, verdict, probing, wsneg, gauge>>

BackoffElapsed(r) ==
    /\ req[r].pc = "backoff"
    /\ IF req[r].i + 1 < MaxRetry
       THEN req' = [req EXCEPT ![r].pc = "serve", ![r].i = @ + 1]
       ELSE GiveUp(r)
    /\ UNCHANGED <<cfg, shared, bad, verdict, probing, wsneg, gauge>>

(***************************************************************************)
(* The exchange.  A pod processes what it receives in a protocol it speaks *)
(* and whose body arrives; the answer may be lost after that.              *)
(***************************************************************************)
Wire(r) == IF req[r].pc \in {"h1", "wsh1"} THEN "h1" ELSE "h2"
Sent(r) == req[r].pc \in Wires /\ req[r].sent # "no"
Live(r) == Sent(r) /\ req[r].sent = "yes"
Understood(r) ==
    /\ Wire(r) \in proto[req[r].pod] /\ req[r].body # "closed"
    /\ req[r].pc = "wsh2" => "ws" \in proto[req[r].pod]

Processed(r) == req[r].kind # "plain"

\* The pod answers.  A successful probe is the only thing that stores a
\* positive verdict; a tunnel's answer may also be a refusal, which is relayed.
Respond(r) ==
    /\ Live(r) /\ Understood(r)
    /\ verdict' = IF req[r].pc = "probe" THEN "h2c" ELSE verdict
    /\ probing' = Released(r)
    /\ End(r)
    /\ gauge' = IF req[r].pc = "wsh1" THEN gauge - 1 ELSE gauge
    /\ UNCHANGED <<cfg, shared, bad, wsneg>>

TunnelOverH1 == {"up", "main", "stream", "conn"}
TunnelOverH2C == {"main", "stream", "xc"}

\* The parked stream is handed to the tunnel: two copies over a connection of
\* its own (HTTP/1.1), or one copy beside the transport's own streaming (h2c).
Accept(r) ==
    /\ Live(r) /\ Understood(r) /\ req[r].pc \in {"wsh1", "wsh2"}
    /\ req' = [req EXCEPT ![r].pc = "tunnel", ![r].got = Processed(r),
                 ![r].sent = "no", ![r].pod = NoPod, ![r].good = {},
                 ![r].tun = IF req[r].pc = "wsh1" THEN TunnelOverH1
                                                  ELSE TunnelOverH2C]
    /\ UNCHANGED <<cfg, shared, bad, verdict, probing, wsneg, gauge>>

\* The peer speaks h2 without extended CONNECT: refused before anything is
\* written, so the parked stream is whole and the HTTP/1.1 tunnel takes over.
NotSupported(r) ==
    /\ Live(r) /\ req[r].pc = "wsh2"
    /\ proto[req[r].pod] \cap {"h2", "ws"} = {"h2"}
    /\ wsneg' = wsneg \cup {Key(req[r].pod)}
    /\ req' = [req EXCEPT ![r].pc = "wsh1", ![r].sent = "no"]
    /\ UNCHANGED <<cfg, shared, bad, verdict, probing, gauge>>

LateErrorReplayed(r) ==
    /\ Sent(r)
    /\ IF req[r].pc \in {"probe", "warm"}
       THEN /\ verdict' = "h1"
            /\ req' = [req EXCEPT ![r].pc = "h1", ![r].sent = "no"]
            /\ UNCHANGED probing
       ELSE /\ verdict' = verdict
            /\ probing' = Released(r)
            /\ End(r)
    /\ gauge' = IF req[r].pc = "wsh1" THEN gauge - 1 ELSE gauge
    /\ UNCHANGED <<cfg, shared, bad, wsneg>>

LateErrorKeepsVerdict(r) ==
    /\ Sent(r)
    /\ IF req[r].pc = "probe" \/ (req[r].pc = "warm" /\ req[r].kind # "body")
       THEN /\ verdict' = "h1"
            /\ req' = [req EXCEPT ![r].pc = "h1", ![r].sent = "no"]
            /\ UNCHANGED probing
       ELSE /\ verdict' = verdict
            /\ probing' = Released(r)
            /\ End(r)
    /\ gauge' = IF req[r].pc = "wsh1" THEN gauge - 1 ELSE gauge
    /\ UNCHANGED <<cfg, shared, bad, wsneg>>

\* An error after the connection was made: replayed over HTTP/1.1 only in the
\* automatic mode and without a body, never brought to the retry loop.  The
\* pod may have processed the request before it failed.
LateError(r) ==
    /\ Sent(r)
    /\ IF req[r].pc = "probe" \/ (req[r].pc = "warm" /\ req[r].kind # "body")
       THEN /\ verdict' = "h1"
            /\ req' = [req EXCEPT ![r].pc = "h1", ![r].sent = "no",
                         ![r].got = @ \/ (Understood(r) /\ Processed(r))]
            /\ UNCHANGED probing
       ELSE /\ verdict' = IF req[r].pc = "warm" THEN "none" ELSE verdict
            /\ probing' = Released(r)
            /\ End(r)
    /\ gauge' = IF req[r].pc = "wsh1" THEN gauge - 1 ELSE gauge
    /\ UNCHANGED <<cfg, shared, bad, wsneg>>

(***************************************************************************)
(* The tunnel (serveWSTunnel, tryWSTunnelH2C, wsh2.Copy).  The copy to the *)
(* pod ends with the client's stream, the copy to the client with the      *)
(* pod's connection; each closes what the other waits on.  But a copy that *)
(* is in its Write does not see its source end: only a close of what it    *)
(* writes to, or the peer that reads on, gets it out.                      *)
(***************************************************************************)
InTunnel(r) == req[r].pc = "tunnel"
Open(r, x) == x \in req[r].tun
Drop(r, S) == req' = [req EXCEPT ![r].tun = @ \ S]

trackCloseTwice(r) == gauge' = IF Open(r, "xc") THEN gauge ELSE gauge - 1

\* trackBackendConn.trackClose: a compare-and-swap, so only the first counts.
trackClose(r) == gauge' = IF Open(r, "conn") THEN gauge - 1 ELSE gauge

UpOver(r) ==
    IF Open(r, "upfull") THEN ~ Open(r, "conn")
    ELSE Open(r, "gone") \/ ~ Open(r, "stream")

CopyUpKeepsConn(r) ==
    /\ InTunnel(r) /\ Open(r, "up") /\ UpOver(r)
    /\ Drop(r, {"up", "upfull"})
    /\ UNCHANGED <<cfg, shared, bad, verdict, probing, wsneg, gauge>>

CopyUpEnds(r) ==
    /\ InTunnel(r) /\ Open(r, "up") /\ UpOver(r)
    /\ Drop(r, {"up", "upfull", "conn"})
    /\ trackClose(r)
    /\ UNCHANGED <<cfg, shared, bad, verdict, probing, wsneg>>

DownOver(r) ==
    IF Open(r, "downfull") THEN Open(r, "gone")
    ELSE \/ Open(r, "eof")
         \/ IF Open(r, "xc") THEN Open(r, "gone") ELSE ~ Open(r, "conn")

CopyDownEnds(r) ==
    /\ InTunnel(r) /\ Open(r, "main") /\ DownOver(r)
    /\ Drop(r, {"main", "downfull", "stream", "conn"})
    /\ trackClose(r)
    /\ UNCHANGED <<cfg, shared, bad, verdict, probing, wsneg>>

TunnelEnds(r) ==
    /\ InTunnel(r) /\ ~ Open(r, "main") /\ ~ Open(r, "up")
    /\ End(r)
    /\ trackClose(r)
    /\ UNCHANGED <<cfg, shared, bad, verdict, probing, wsneg>>

PodHangsUp(r) ==
    /\ InTunnel(r) /\ ~ Open(r, "eof")
    /\ req' = [req EXCEPT ![r].tun = @ \cup {"eof"}]
    /\ UNCHANGED <<cfg, shared, bad, verdict, probing, wsneg, gauge>>

\* A peer sends more than the other one takes, so that the copy stays in its
\* Write; a Write to a client that is gone fails.
ClientSends(r) ==
    /\ InTunnel(r) /\ Open(r, "up") /\ Open(r, "stream") /\ ~ Open(r, "gone")
    /\ req' = [req EXCEPT ![r].tun = @ \cup {"upfull"}]
    /\ UNCHANGED <<cfg, shared, bad, verdict, probing, wsneg, gauge>>

PodSends(r) ==
    /\ InTunnel(r) /\ Open(r, "main") /\ ~ Open(r, "eof")
    /\ IF Open(r, "gone")
       THEN Drop(r, {"main", "downfull", "stream", "conn"}) /\ trackClose(r)
       ELSE req' = [req EXCEPT ![r].tun = @ \cup {"downfull"}] /\ UNCHANGED gauge
    /\ UNCHANGED <<cfg, shared, bad, verdict, probing, wsneg>>

PeerReads(r) ==
    /\ InTunnel(r)
    /\ \E x \in req[r].tun \cap {"upfull", "downfull"} : Drop(r, {x})
    /\ UNCHANGED <<cfg, shared, bad, verdict, probing, wsneg, gauge>>

\* The client goes away.  A dial is abandoned without a mark, a backoff ends
\* the loop, and a cancelled exchange is an error like any other to autoH2C:
\* the verdict changes, and the replay over HTTP/1.1 fails at once.
Cancel(r) ==
    /\ req[r].pc # "idle"
    /\ IF InTunnel(r)
       THEN /\ req' = [req EXCEPT ![r].tun = @ \cup {"gone"}]
            /\ UNCHANGED <<verdict, probing, gauge>>
       ELSE /\ End(r)
            /\ probing' = Released(r)
            /\ gauge' = IF req[r].pc = "wsh1" /\ Sent(r) THEN gauge - 1 ELSE gauge
            /\ verdict' =
                 CASE Sent(r) /\ req[r].pc = "probe" -> "h1"
                   [] Sent(r) /\ req[r].pc = "warm" /\ req[r].kind # "body" -> "h1"
                   [] Sent(r) /\ req[r].pc = "warm" /\ req[r].kind = "body" -> "none"
                   [] OTHER -> verdict
    /\ UNCHANGED <<cfg, shared, bad, wsneg>>

(***************************************************************************)
(* The cluster and the clocks.                                             *)
(***************************************************************************)
BadExpires ==
    /\ bad # {}
    /\ bad' \in {bad \ {p} : p \in bad}
    /\ req' = Narrow({})
    /\ UNCHANGED <<cfg, shared, verdict, probing, wsneg, gauge>>

VerdictExpires ==
    /\ verdict # "none" /\ verdict' = "none"
    /\ UNCHANGED <<cfg, shared, bad, probing, wsneg, gauge, req>>

NegativeExpires ==
    /\ wsneg # {}
    /\ wsneg' \in {wsneg \ {k} : k \in wsneg}
    /\ UNCHANGED <<cfg, shared, bad, verdict, probing, gauge, req>>

Roll == rolls < MaxRolls /\ rolls' = rolls + 1

\* The connections to a pod die with it (a tunnel's: PodHangsUp).
Severed(q, p) ==
    IF q.pod = p /\ q.sent = "yes" THEN [q EXCEPT !.sent = "dead"] ELSE q

\* A pod stops, starts or is replaced by another version at its address.
PodChanges(p) ==
    /\ Roll
    /\ \E v \in (Protos \cup {{}}) \ {proto[p]} :
         /\ proto' = [proto EXCEPT ![p] = v]
         /\ req' = [r \in Reqs |->
                      Severed(Narrow(Reachable(route, bad, proto'))[r], p)]
    /\ UNCHANGED <<cfg, route, cur, bad, verdict, probing, wsneg, gauge>>

(***************************************************************************)
(* The specification.  Fair are the steps of the proxy itself, and the     *)
(* failure of an exchange that a timer ends: the response-header timeout   *)
(* of the HTTP/1.1 transport, the handshake timers of the tunnels, and     *)
(* TCP's own on a connection whose other end is gone.  Nothing bounds the  *)
(* wait for a pod that lives and is silent over h2c, or that does not take *)
(* a body: the response-header timer starts once that is written.  What    *)
(* peers do (answers, hang-ups, reading), arrivals, cancels, expiries and  *)
(* the cluster are not fair.                                               *)
(***************************************************************************)
Step(r) ==
    \/ Serve(r) \/ Cold(r) \/ Connect(r) \/ DialError(r)
    \/ BackoffElapsed(r)
    \/ Respond(r) \/ Accept(r) \/ NotSupported(r) \/ LateError(r)
    \/ CopyUpEnds(r) \/ CopyDownEnds(r) \/ TunnelEnds(r)

Peers(r) == PodHangsUp(r) \/ ClientSends(r) \/ PodSends(r) \/ PeerReads(r)

Environment ==
    \/ BadExpires \/ VerdictExpires \/ NegativeExpires
    \/ \E p \in Pods : PodChanges(p)

Next ==
    \/ \E r \in Reqs : Arrive(r) \/ Step(r) \/ Cancel(r) \/ Peers(r)
    \/ Environment

Timed(r) ==
    \/ req[r].pc \in {"h1", "wsh1", "wsh2"} /\ req[r].kind # "body"
    \/ req[r].sent = "dead"

Bounded(r) ==
    \/ Serve(r) \/ Cold(r) \/ Connect(r) \/ DialError(r)
    \/ BackoffElapsed(r)
    \/ Timed(r) /\ LateError(r)
    \/ CopyUpEnds(r) \/ CopyDownEnds(r) \/ TunnelEnds(r)

Spec == Init /\ [][Next]_vars /\ \A r \in Reqs : WF_vars(Bounded(r))

-----------------------------------------------------------------------------
(***************************************************************************)
(* Properties.                                                             *)
(***************************************************************************)

\* A request that must not be sent twice is not.  Once a pod may have
\* processed an upgrade, a WebSocket handshake or a request with a body, no
\* retry, probe or fallback puts it on a wire again; and a body that a
\* transport has streamed is never offered to another attempt (the reason for
\* isDialError, for canRequestRetry and for the body guards of autoH2C).
OnceOnly ==
    \A r \in Reqs :
      /\ req[r].got => InTunnel(r)
      /\ req[r].body = "read" => Sent(r)

\* The marker of the single-flight probe is held by exactly the request that
\* probes, through its fallback and through a failed dial, and nobody else
\* probes (probing.LoadOrStore and the deferred Delete).
ProbeOwned ==
    /\ probing <=> \E r \in Reqs : req[r].prober
    /\ \A r, s \in Reqs : req[r].prober /\ req[s].prober => r = s
    /\ \A r \in Reqs : req[r].pc = "probe" => req[r].prober

\* The gauge counts each dedicated connection from its dial to its first
\* close, although both copies and the deferred close all close it.
GaugeExact ==
    gauge = Cardinality({r \in Reqs : req[r].pc = "wsh1" /\ Sent(r)})
          + Cardinality({r \in Reqs : InTunnel(r) /\ Open(r, "conn")})

\* While some listed address has stayed up and unmarked since the request
\* arrived and no mark has expired, the request is not given up: neither the
\* fail-fast 503 nor the 502 after the last retry, however the other requests
\* move the round-robin counter and mark addresses.
ReachesHealthyPod ==
    [][\A r \in Reqs :
         /\ req[r].pc # "idle" /\ req[r].good # {}
         /\ req'[r].pc = "idle"
         => ~ req'[r].gaveup]_vars

\* Every request is answered, given up or turned into a tunnel, and a tunnel
\* whose client or pod goes away is torn down: both copies return and the
\* handler ends, whichever side was first.  What may hold one up for good is
\* only a peer that is still there and does nothing: a pod that leaves an h2c
\* exchange or a body without answer, or reads nothing of a tunnel and does not
\* hang up, and a client that reads nothing and does not leave.
Busy(r) ==
    IF InTunnel(r) THEN Open(r, "gone") \/ Open(r, "eof") ELSE req[r].pc # "idle"

HeldUp(r) ==
    IF InTunnel(r)
    THEN \/ Open(r, "upfull") /\ ~ Open(r, "eof")
         \/ Open(r, "downfull") /\ ~ Open(r, "gone")
    ELSE Live(r) /\ ~ Timed(r)

RequestsEnd == \A r \in Reqs : <>[]Busy(r) => <>[]HeldUp(r)

\* A stale positive verdict heals.  If from some point on all pods are up and
\* none speaks HTTP/2, and ordinary requests keep being sent, the positive
\* verdict is dropped for good, with bodies or without, whatever probes and
\* cancels were under way.
StaleVerdictHeals ==
    /\ <>[](\A p \in Pods : Up(p) /\ "h2" \notin proto[p])
    /\ []<><<\E r \in Reqs : req[r].kind \in {"plain", "body"} /\ Connect(r)>>_vars
    => <>[](verdict # "h2c")
=============================================================================
