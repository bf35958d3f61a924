---------------------------- MODULE RemoteFetch ----------------------------
(***************************************************************************)
(* AcquireRemote (internal/ingestion/remote.go), as acquireURI (source.go) *)
(* calls it: fetching a URL by hand-made redirects.  Every destination is  *)
(* admitted before it is contacted: a literal address by the registry of   *)
(* special-purpose addresses, a name by all the addresses the resolver     *)
(* gives for it at that moment, the first of which is then the one that is *)
(* dialled.  Resolver and servers may answer anything, differently each    *)
(* time; the caller may cancel at any point.                               *)
(***************************************************************************)
EXTENDS Sequences, Integers

CONSTANTS
    Names,              \* host names
    Addresses,          \* IP addresses, as resolvers and URLs give them
    Rules,              \* specialPurposeAddressRules
    Urls,               \* the URLs there are
    Configs,            \* the RemoteConfigs callers pass
    Answers,            \* what a resolver may answer
    Replies,            \* what a server may reply
    defaultMaxRedirects,
    None                \* no Location, no target, no reply

(***************************************************************************)
(* Address : bits; mapped says that they are wrapped into an IPv4-mapped   *)
(*           IPv6 address; unicast that the address is of none of the      *)
(*           classes netip knows as private, loopback, multicast, ...      *)
(* Url     : parses is what parseRemoteURL finds out; safe is safeHostname *)
(* Config  : owned says that no caller's client is injected, timed that    *)
(*           the client has a timeout                                      *)
(* Reply   : length is the Content-Length, body the stream of its bytes    *)
(***************************************************************************)
Address == [bits : Seq({0, 1}), mapped : BOOLEAN, unicast : BOOLEAN]
Rule    == [prefix : Seq({0, 1}), reachable : BOOLEAN]
Url     == [parses : BOOLEAN, safe : BOOLEAN, host : Names \cup Addresses]
Config  == [enabled : BOOLEAN, maxBytes : Int, maxRedirects : Int,
            owned : BOOLEAN, timed : BOOLEAN]
Body    == [size : Nat, ending : {"eof", "fault", "hang"}]
Reply   == [status : {"ok", "redirect", "other"}, location : Urls \cup {None},
            length : Int, body : Body]

Unmap(a) == [bits |-> a.bits, mapped |-> FALSE, unicast |-> a.unicast]

ASSUME RemoteAssumption ==
    /\ Addresses \subseteq Address /\ Names \cap Addresses = {}
    /\ \A a \in Addresses : Unmap(a) \in Addresses
    /\ Rules \in Seq(Rule)
    /\ \A i, j \in DOMAIN Rules :
          Rules[i].prefix = Rules[j].prefix => Rules[i].reachable = Rules[j].reachable
    /\ Urls \subseteq Url
    /\ None \notin Urls \cup Names \cup Addresses \cup Replies
    /\ Configs \subseteq Config
    /\ Answers \subseteq Seq(Addresses)
    /\ Replies \subseteq Reply
    /\ defaultMaxRedirects \in Nat

VARIABLES
    config,         \* the argument
    url,            \* current
    redirects,
    target,         \* the address admitted, or the name for a caller's client
    answer,         \* what it was admitted by
    cancelled,      \* ctx.Done() is closed
    exchanges,      \* the exchanges that took place
    reply,          \* the last reply
    open,           \* response bodies not yet closed
    pc,
    outcome         \* what acquireURI returns

vars == <<config, url, redirects, target, answer, cancelled, exchanges, reply, open,
          pc, outcome>>

hop == <<url, redirects>>
admission == <<target, answer>>

Init ==
    /\ config \in Configs
    /\ url \in Urls
    /\ redirects = 0
    /\ target = None /\ answer = <<>>
    /\ cancelled = FALSE
    /\ exchanges = <<>>
    /\ reply = None
    /\ open = 0
    /\ pc = "start"
    /\ outcome = "pending"

Cancel ==
    /\ ~cancelled /\ pc # "returned"
    /\ cancelled' = TRUE
    /\ UNCHANGED <<config, hop, admission, exchanges, reply, open, pc, outcome>>

\* The category a host sees for an error of AcquireRemote.
publicRemoteError(err) ==
    CASE err = "disabled" -> "disabled"
      [] err = "limit"    -> "too large"
      [] err = "denied"   -> "policy"
      [] err = "cancelled" -> "cancellation"
      [] OTHER            -> "integrity"

Fail(err) == pc' = "returned" /\ outcome' = publicRemoteError(err)
Proceed(l) == pc' = l /\ UNCHANGED outcome

classifyRemoteFailure == IF cancelled THEN "cancelled" ELSE "failure"

-----------------------------------------------------------------------------
Covers(rule, a) ==
    /\ Len(rule.prefix) <= Len(a.bits)
    /\ \A i \in DOMAIN rule.prefix : rule.prefix[i] = a.bits[i]

\* The rules that speak of an address, and the most specific of them; of
\* two equal ones the first.
Covering(a) == {i \in DOMAIN Rules : Covers(Rules[i], a)}

Decisive(a) ==
    CHOOSE i \in Covering(a) :
        \A j \in Covering(a) \ {i} :
            \/ Len(Rules[j].prefix) < Len(Rules[i].prefix)
            \/ Len(Rules[j].prefix) = Len(Rules[i].prefix) /\ i < j

\* Mutation: the first rule that covers the address decides.
IsAllowedRemoteAddress_firstRule(a) ==
    LET first == CHOOSE i \in Covering(Unmap(a)) : \A j \in Covering(Unmap(a)) : i <= j
    IN  IF Covering(Unmap(a)) # {} THEN Rules[first].reachable ELSE a.unicast

IsAllowedRemoteAddress(a) ==
    IF Covering(Unmap(a)) # {} THEN Rules[Decisive(Unmap(a))].reachable ELSE a.unicast

-----------------------------------------------------------------------------
Start ==
    /\ pc = "start"
    /\ IF ~config.enabled THEN Fail("disabled")
       ELSE IF config.maxBytes < 0 THEN Fail("policy")
       ELSE IF ~url.parses THEN Fail("denied")
       ELSE Proceed("admitting")
    /\ UNCHANGED <<config, hop, admission, cancelled, exchanges, reply, open>>

Admitted(t, by) == target' = t /\ answer' = by /\ Proceed("exchanging")

\* admitRemoteURL up to the lookup.
Admit ==
    /\ pc = "admitting"
    /\ IF ~url.safe THEN Fail("denied") /\ UNCHANGED admission
       ELSE IF url.host \in Addresses
       THEN IF IsAllowedRemoteAddress(url.host)
            THEN Admitted(Unmap(url.host), <<url.host>>)
            ELSE Fail("denied") /\ UNCHANGED admission
       ELSE IF ~config.owned THEN Admitted(url.host, <<>>)
       ELSE Proceed("resolving") /\ UNCHANGED admission
    /\ UNCHANGED <<config, hop, cancelled, exchanges, reply, open>>

\* Mutation: only the address that will be dialled is looked at.
Judge_first(addresses) ==
    /\ answer' = addresses
    /\ IF addresses = <<>> THEN Fail(classifyRemoteFailure) /\ UNCHANGED target
       ELSE IF ~IsAllowedRemoteAddress(Head(addresses)) THEN Fail("denied") /\ UNCHANGED target
       ELSE target' = Unmap(Head(addresses)) /\ Proceed("exchanging")

\* Mutation: a lookup that fails is repeated.
Judge_again(addresses) ==
    /\ answer' = addresses
    /\ IF addresses = <<>> THEN Proceed("admitting") /\ UNCHANGED target
       ELSE IF \E i \in DOMAIN addresses : ~IsAllowedRemoteAddress(addresses[i])
       THEN Fail("denied") /\ UNCHANGED target
       ELSE target' = Unmap(Head(addresses)) /\ Proceed("exchanging")

\* A lookup that fails counts as an empty answer; one address that is not
\* allowed denies them all.
Judge(addresses) ==
    /\ answer' = addresses
    /\ IF addresses = <<>> THEN Fail(classifyRemoteFailure) /\ UNCHANGED target
       ELSE IF \E i \in DOMAIN addresses : ~IsAllowedRemoteAddress(addresses[i])
       THEN Fail("denied") /\ UNCHANGED target
       ELSE target' = Unmap(Head(addresses)) /\ Proceed("exchanging")

Resolve ==
    /\ pc = "resolving"
    /\ \E addresses \in Answers : Judge(addresses)
    /\ UNCHANGED <<config, hop, cancelled, exchanges, reply, open>>

\* remoteRoundTrip: one request, to the admitted address, without the
\* client's own redirects.
Exchange ==
    /\ pc = "exchanging"
    /\ \/ Fail(classifyRemoteFailure) /\ reply' = None /\ UNCHANGED open
       \/ reply' \in Replies /\ open' = open + 1 /\ Proceed("answered")
    /\ exchanges' = Append(exchanges, [url |-> url, target |-> target,
                                       answer |-> answer, reply |-> reply'])
    /\ UNCHANGED <<config, hop, admission, cancelled>>

-----------------------------------------------------------------------------
maxRedirects == IF config.maxRedirects <= 0 THEN defaultMaxRedirects ELSE config.maxRedirects

\* Close the body; then follow the location.
Redirect ==
    /\ pc = "answered" /\ reply.status = "redirect"
    /\ open' = open - 1
    /\ IF redirects >= maxRedirects \/ reply.location = None
       THEN Fail("denied") /\ UNCHANGED hop
       ELSE IF ~reply.location.parses
       THEN Fail("denied") /\ UNCHANGED hop
       ELSE /\ url' = reply.location /\ redirects' = redirects + 1
            /\ Proceed("admitting")
    /\ UNCHANGED <<config, admission, cancelled, exchanges, reply>>

\* Mutation: the body of a refused reply is left open.
Examine_unclosed ==
    /\ pc = "answered" /\ reply.status # "redirect"
    /\ IF reply.status = "other" THEN Fail("denied") /\ UNCHANGED open
       ELSE IF reply.length > config.maxBytes THEN Fail("limit") /\ UNCHANGED open
       ELSE Proceed("reading") /\ UNCHANGED open
    /\ UNCHANGED <<config, hop, admission, cancelled, exchanges, reply>>

\* consumeRemoteResponse before it reads: the status, and the length as a hint.
Examine ==
    /\ pc = "answered" /\ reply.status # "redirect"
    /\ IF reply.status = "other" THEN Fail("denied") /\ open' = open - 1
       ELSE IF reply.length > config.maxBytes THEN Fail("limit") /\ open' = open - 1
       ELSE Proceed("reading") /\ UNCHANGED open
    /\ UNCHANGED <<config, hop, admission, cancelled, exchanges, reply>>

\* readRemoteBody, of which WatchedRead shows that it decides like this.  The
\* client's timeout ends a body with a deadline error of its own.
Reading == INSTANCE Acquisition WITH limit <- config.maxBytes, stream <- reply.body

MayGet(got) ==
    \/ Reading!Justified(got)
    \/ config.timed /\ got = "cancelled"

\* Mutation: what was read before the context ended is used.
Consume_late ==
    /\ pc = "reading"
    /\ open' = open - 1
    /\ \E got \in {"ok", "limit", "integrity", "cancelled"} :
          /\ MayGet(got)
          /\ IF got # "ok" THEN Fail(got)
             ELSE IF url.parses /\ url.safe THEN pc' = "returned" /\ outcome' = "ok"
             ELSE Fail("denied")
    /\ UNCHANGED <<config, hop, admission, cancelled, exchanges, reply>>

\* Mutation: the length is believed, and the stream cut there.
Consume_byHint ==
    /\ pc = "reading"
    /\ open' = open - 1
    /\ \E got \in {"ok", "limit", "integrity", "cancelled"} :
          /\ MayGet(got) \/ (reply.length >= 0 /\ got = "ok")
          /\ cancelled => got = "cancelled"
          /\ IF got # "ok" THEN Fail(got)
             ELSE IF url.parses /\ url.safe THEN pc' = "returned" /\ outcome' = "ok"
             ELSE Fail("denied")
    /\ UNCHANGED <<config, hop, admission, cancelled, exchanges, reply>>

\* The body is read and closed; then CanonicalURLDisplay has its say.
Consume ==
    /\ pc = "reading"
    /\ open' = open - 1
    /\ \E got \in {"ok", "limit", "integrity", "cancelled"} :
          /\ MayGet(got)
          /\ cancelled => got = "cancelled"
          /\ IF got # "ok" THEN Fail(got)
             ELSE IF url.parses /\ url.safe THEN pc' = "returned" /\ outcome' = "ok"
             ELSE Fail("denied")
    /\ UNCHANGED <<config, hop, admission, cancelled, exchanges, reply>>

Step == Start \/ Admit \/ Resolve \/ Exchange \/ Redirect \/ Examine \/ Consume

\* Nothing ends the wait for a server that never sends its headers, or for
\* the rest of a body, but the client's timeout and the context.
Hung == /\ ~cancelled /\ ~config.timed
        /\ \/ pc = "exchanging"
           \/ /\ pc = "reading" /\ reply.body.ending = "hang"
              /\ reply.body.size <= config.maxBytes

\* The call is over, or its server never answers.
Rest == (pc = "returned" \/ Hung) /\ UNCHANGED vars

Next == Cancel \/ Step \/ Rest

Spec == Init /\ [][Next]_vars

\* What the call does by itself, a lookup included: acquireURI passes no
\* resolver, and the default one gives up by its own time limits.
Work == Start \/ Admit \/ Resolve \/ Redirect \/ Examine \/ Consume

\* client.Do honours the request's context and the client's timeout.
GivenUp == (cancelled \/ config.timed) /\ Exchange

\* The call runs, and an exchange that is given up comes back.  Nothing makes a
\* server answer, and nothing makes a context end.
FairSpec == Spec /\ WF_vars(Work) /\ WF_vars(GivenUp)

-----------------------------------------------------------------------------
TypeOK ==
    /\ config \in Configs /\ url \in Urls /\ redirects \in Nat
    /\ target \in Names \cup Addresses \cup {None}
    /\ answer \in Seq(Addresses)
    /\ cancelled \in BOOLEAN
    /\ reply \in Replies \cup {None}
    /\ open \in Int
    /\ pc \in {"start", "admitting", "resolving", "exchanging", "answered", "reading", "returned"}
    /\ outcome \in {"pending", "ok", "disabled", "too large", "policy", "cancellation", "integrity"}

\* What the registry says of an address, whatever the order of the table.
Reachable(a) ==
    LET Longest(i) == \A j \in Covering(a) : Len(Rules[j].prefix) <= Len(Rules[i].prefix)
    IN  IF Covering(a) = {} THEN a.unicast
        ELSE \A i \in Covering(a) : Longest(i) => Rules[i].reachable

\* An exchange with an address admitted for its host, or with the host
\* itself by way of a caller's client.
Entitled(e, owned) ==
    /\ e.url.parses /\ e.url.safe
    /\ IF e.target \in Addresses
       THEN /\ ~e.target.mapped
            /\ \E j \in DOMAIN e.answer : e.target = Unmap(e.answer[j])
            /\ \A j \in DOMAIN e.answer : Reachable(Unmap(e.answer[j]))
            /\ e.url.host \in Addresses => e.answer = <<e.url.host>>
       ELSE ~owned /\ e.target = e.url.host

(* Nothing is contacted without authority, and nothing but what was        *)
(* admitted for that very hop: an address, unwrapped and allowed, that the *)
(* name had at that moment together with none that is not allowed; or,     *)
(* for a caller's client, the name itself (spec.md NFR-005 and its edge    *)
(* cases: each destination is re-evaluated; remote.go:92-97, 133-182).     *)
DestinationsAdmitted ==
    \A i \in DOMAIN exchanges : config.enabled /\ Entitled(exchanges[i], config.owned)

(* A chain of redirects ends: one exchange more than there may be          *)
(* redirects, whatever the servers reply (remote.go:87-92, 105-107).       *)
TravelIsBounded == Len(exchanges) <= maxRedirects + 1

(* At most one response body is open, none while the next destination is   *)
(* being admitted, and none when the call has returned, on whichever path  *)
(* (remote.go:104, 231-238, 290).                                          *)
BodiesClosed == open = (IF pc \in {"answered", "reading"} THEN 1 ELSE 0)

LeadsTo(r, next) == r # None /\ r.status = "redirect" /\ r.location = next

(* What is delivered is the whole of the last reply, within the limit, and *)
(* described by the URL it came from; the chain leads there from the first *)
(* URL by the locations the servers gave, one by one (remote.go:102-124, 239-275).   *)
OnlyFinalRepresentation ==
    /\ \A i \in DOMAIN exchanges : i > 1 => LeadsTo(exchanges[i - 1].reply, exchanges[i].url)
    /\ outcome = "ok" =>
          LET e == exchanges[Len(exchanges)]
          IN  /\ e.url = url /\ e.reply.status = "ok"
              /\ e.reply.body.ending = "eof" /\ e.reply.body.size <= config.maxBytes

(* A failure is what it says.  A refusal on policy grounds has a ground in *)
(* the destination that was being admitted or the reply that came, a size  *)
(* failure in that reply, and a cancellation in the context or in the      *)
(* client's timeout while the body is read; so a chain of allowed          *)
(* destinations that all answer is never refused, nor called unsafe for    *)
(* another destination's sake (spec.md FR-011, remote.go:298-303).         *)
FailuresHaveCause ==
    LET replied == reply # None /\ Len(exchanges) > redirects
    IN  /\ outcome = "policy" =>
              \/ ~url.parses \/ ~url.safe
              \/ url.host \in Addresses /\ ~Reachable(Unmap(url.host))
              \/ url.host \in Names /\ \E j \in DOMAIN answer : ~Reachable(Unmap(answer[j]))
              \/ replied /\ reply.status = "other"
              \/ replied /\ reply.status = "redirect"
                    /\ \/ redirects = maxRedirects \/ reply.location = None
                       \/ ~reply.location.parses
        /\ outcome = "too large" =>
              replied /\ (reply.length > config.maxBytes \/ reply.body.size > config.maxBytes)
        /\ outcome = "cancellation" =>
              cancelled \/ (config.timed /\ replied /\ reply.status = "ok")

(* Once the context has ended no bytes are delivered, even those of a body *)
(* that had been read to its end (remote.go:292-294).                      *)
CancelledFetchFails == [][cancelled /\ outcome = "pending" => outcome' # "ok"]_vars

(* NFR-007: a fetch comes to an end, under redirects without end, silent   *)
(* servers and changing answers, once its client has a timeout or its      *)
(* context ends.  Without either it may hang, on a server that sends no    *)
(* headers or on a body that never ends within the limit, and on nothing   *)
(* else (remote.go:92-125, 217, 277-296).                                  *)
FetchReturns == <>[](pc = "returned" \/ Hung)
=============================================================================
