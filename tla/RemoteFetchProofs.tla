------------------------- MODULE RemoteFetchProofs -------------------------
(***************************************************************************)
(* RemoteFetch for every registry, every resolver, every server and every  *)
(* configuration: what is contacted, what is delivered, and why a fetch    *)
(* fails.                                                                  *)
(***************************************************************************)
EXTENDS RemoteFetch, SequenceTheorems, WellFoundedInduction, TLAPS

\* A set of natural numbers that is not empty has a least one.
LEMMA LeastNat ==
    ASSUME NEW T \in SUBSET Nat, T # {}
    PROVE  \E x \in T : \A y \in T : x <= y
<1>1. PICK x \in T : \A y \in T : ~(<<y, x>> \in OpToRel(<, Nat))
  BY NatLessThanWellFounded, WFMin
<1>2. \A y \in T : ~(y < x)
  BY <1>1 DEF OpToRel
<1>3. QED
  BY <1>2

LEMMA RulesAreRules ==
    ASSUME NEW i \in DOMAIN Rules
    PROVE  /\ i \in Nat
           /\ Rules[i].prefix \in Seq({0, 1})
           /\ Len(Rules[i].prefix) \in Nat
           /\ Rules[i].reachable \in BOOLEAN
<1>1. i \in Nat /\ Rules[i] \in Rule
  BY RemoteAssumption
<1>2. QED
  BY <1>1 DEF Rule

\* An address that a rule speaks of has a decisive rule.
LEMMA DecisiveExists ==
    ASSUME NEW a \in Address, Covering(a) # {}
    PROVE  /\ Decisive(a) \in Covering(a)
           /\ \A j \in Covering(a) : Len(Rules[j].prefix) <= Len(Rules[Decisive(a)].prefix)
<1> DEFINE L(i) == Len(Rules[i].prefix)
           Slack == {Len(a.bits) - L(i) : i \in Covering(a)}
<1>1. \A i \in Covering(a) : i \in Nat /\ L(i) \in Nat /\ L(i) <= Len(a.bits) /\ Len(a.bits) \in Nat
  BY RulesAreRules DEF Covering, Covers, Address
<1>2. PICK m \in Slack : \A n \in Slack : m <= n
  <2>1. PICK c : c \in Covering(a)
    OBVIOUS
  <2>2. Len(a.bits) - L(c) \in Slack
    BY <2>1
  <2>3. \A i \in Covering(a) : Len(a.bits) - L(i) \in Nat
    <3> HIDE DEF L
    <3>1. QED
      BY <1>1
  <2>4. Slack \in SUBSET Nat
    BY <2>3, Zenon
  <2> HIDE DEF Slack
  <2>5. QED
    BY <2>2, <2>4, LeastNat
<1> DEFINE Longest == {i \in Covering(a) : Len(a.bits) - L(i) = m}
<1>3. PICK i \in Longest : \A j \in Longest : i <= j
  <2>1. Longest \in SUBSET Nat /\ Longest # {}
    BY <1>1, <1>2
  <2> HIDE DEF Longest
  <2>2. QED
    BY <2>1, LeastNat
<1>4. \A j \in Covering(a) \ {i} : L(j) < L(i) \/ (L(j) = L(i) /\ i < j)
  <2> SUFFICES ASSUME NEW j \in Covering(a) \ {i}
               PROVE  L(j) < L(i) \/ (L(j) = L(i) /\ i < j)
    OBVIOUS
  <2>1. Len(a.bits) - L(i) = m /\ m <= Len(a.bits) - L(j)
    BY <1>2, <1>3
  <2>2. L(j) = L(i) => j \in Longest
    BY <2>1
  <2>3. i \in Covering(a) /\ (L(j) = L(i) => i <= j)
    BY <1>3, <2>2
  <2> HIDE DEF L, Longest
  <2>4. QED
    BY <2>1, <2>3, <1>1
<1>5. /\ Decisive(a) \in Covering(a)
      /\ \A j \in Covering(a) \ {Decisive(a)} :
            L(j) < L(Decisive(a)) \/ (L(j) = L(Decisive(a)) /\ Decisive(a) < j)
  BY <1>3, <1>4 DEF Decisive
<1>6. QED
  BY <1>1, <1>5

\* Two rules of one length that speak of one address are one rule.
LEMMA SamePrefix ==
    ASSUME NEW a \in Address, NEW i \in Covering(a), NEW j \in Covering(a),
           Len(Rules[i].prefix) = Len(Rules[j].prefix)
    PROVE  Rules[i].reachable = Rules[j].reachable
<1>1. i \in DOMAIN Rules /\ j \in DOMAIN Rules
  BY DEF Covering
<1>2. Rules[i].prefix \in Seq({0, 1}) /\ Rules[j].prefix \in Seq({0, 1})
  BY <1>1, RulesAreRules
<1>3. \A k \in 1..Len(Rules[i].prefix) : Rules[i].prefix[k] = Rules[j].prefix[k]
  BY <1>2 DEF Covering, Covers
<1>4. Rules[i].prefix = Rules[j].prefix
  BY <1>2, <1>3, SeqEqual
<1>5. QED
  BY <1>1, <1>4, RemoteAssumption

(* The walk through the registry that keeps the longest match so far       *)
(* allows exactly the addresses whose most specific rule says so.          *)
LEMMA RegistryIsMostSpecific ==
    ASSUME NEW a \in Addresses
    PROVE  IsAllowedRemoteAddress(a) <=> Reachable(Unmap(a))
<1>1. Unmap(a) \in Address /\ Unmap(a).unicast \in BOOLEAN
  BY RemoteAssumption DEF Unmap, Address
<1>2. CASE Covering(Unmap(a)) = {}
  BY <1>1, <1>2 DEF IsAllowedRemoteAddress, Reachable, Unmap
<1>3. CASE Covering(Unmap(a)) # {}
  <2> DEFINE d == Decisive(Unmap(a))
  <2>1. /\ d \in Covering(Unmap(a))
        /\ \A j \in Covering(Unmap(a)) : Len(Rules[j].prefix) <= Len(Rules[d].prefix)
    BY <1>1, <1>3, DecisiveExists
  <2>2. \A j \in Covering(Unmap(a)) : Len(Rules[j].prefix) \in Nat
    BY RulesAreRules DEF Covering
  <2> HIDE DEF d
  <2>3. \A i \in Covering(Unmap(a)) :
           (\A j \in Covering(Unmap(a)) : Len(Rules[j].prefix) <= Len(Rules[i].prefix))
              => Rules[i].reachable = Rules[d].reachable
    <3> SUFFICES ASSUME NEW i \in Covering(Unmap(a)),
                        \A j \in Covering(Unmap(a)) : Len(Rules[j].prefix) <= Len(Rules[i].prefix)
                 PROVE  Rules[i].reachable = Rules[d].reachable
      OBVIOUS
    <3>1. Len(Rules[i].prefix) = Len(Rules[d].prefix)
      BY <2>1, <2>2
    <3>2. QED
      BY <3>1, <2>1, <1>1, SamePrefix
  <2>4. Reachable(Unmap(a)) <=> Rules[d].reachable
    BY <1>3, <2>1, <2>3 DEF Reachable
  <2>5. QED
    BY <1>3, <2>4 DEF IsAllowedRemoteAddress, d
<1>4. QED
  BY <1>2, <1>3

-----------------------------------------------------------------------------
LEMMA UrlFacts ==
    ASSUME NEW u \in Urls
    PROVE  /\ u.parses \in BOOLEAN /\ u.safe \in BOOLEAN
           /\ u.host \in Names \cup Addresses /\ u # None
BY RemoteAssumption DEF Url

LEMMA ReplyFacts ==
    ASSUME NEW r \in Replies
    PROVE  /\ r.status \in {"ok", "redirect", "other"} /\ r.location \in Urls \cup {None}
           /\ r.length \in Int /\ r.body \in Body
           /\ r.body.size \in Nat /\ r.body.ending \in {"eof", "fault", "hang"} /\ r # None
BY RemoteAssumption DEF Reply, Body

LEMMA ConfigFacts ==
    ASSUME NEW c \in Configs
    PROVE  /\ c.enabled \in BOOLEAN /\ c.maxBytes \in Int /\ c.maxRedirects \in Int
           /\ c.owned \in BOOLEAN /\ c.timed \in BOOLEAN
BY RemoteAssumption DEF Config

LEMMA HostFacts ==
    /\ \A a \in Addresses : Unmap(a) \in Addresses /\ Unmap(a).mapped = FALSE /\ a \notin Names
    /\ None \notin Names \cup Addresses
    /\ \A s \in Answers : s \in Seq(Addresses)
    /\ defaultMaxRedirects \in Nat
BY RemoteAssumption DEF Unmap

Exchanged == [url : Urls, target : Names \cup Addresses, answer : Seq(Addresses),
              reply : Replies \cup {None}]

Contacting == {"resolving", "exchanging", "answered", "reading"}

\* What has been established when the call is at a given place.
Gates ==
    /\ exchanges \in Seq(Exchanged)
    /\ pc \notin {"start", "returned"} => config.enabled /\ config.maxBytes >= 0 /\ url.parses
    /\ pc \in Contacting => url.safe
    /\ pc = "resolving" => config.owned /\ url.host \in Names
    /\ pc = "exchanging" =>
          /\ target # None
          /\ Entitled([url |-> url, target |-> target, answer |-> answer, reply |-> None], config.owned)
    /\ outcome = "pending" <=> pc # "returned"

\* One exchange for each redirect, and one more once there is a reply.
Counts ==
    /\ redirects <= maxRedirects
    /\ pc = "start" => exchanges = <<>> /\ redirects = 0
    /\ pc # "returned" => Len(exchanges) = redirects + open
    /\ Len(exchanges) \in redirects..redirects + 1

\* The last exchange led to where the call is.
Trail ==
    /\ pc \in {"answered", "reading"} =>
          /\ reply \in Replies
          /\ exchanges[Len(exchanges)].url = url /\ exchanges[Len(exchanges)].reply = reply
    /\ pc = "reading" => reply.status = "ok"
    /\ pc \in {"admitting", "resolving", "exchanging"} /\ exchanges # <<>> =>
          LeadsTo(exchanges[Len(exchanges)].reply, url)

FetchInv == /\ TypeOK /\ Gates /\ Counts /\ Trail /\ BodiesClosed
            /\ DestinationsAdmitted /\ OnlyFinalRepresentation /\ FailuresHaveCause

LEMMA MaxRedirectsNat ==
    ASSUME config \in Configs
    PROVE  maxRedirects \in Nat
BY ConfigFacts, HostFacts DEF maxRedirects

LEMMA InitFetch ==
    ASSUME Init
    PROVE  FetchInv
<1> USE DEF Init
<1>1. TypeOK
  <2>1. answer \in Seq(Addresses)
    BY EmptySeq
  <2>2. redirects \in Nat /\ open \in Int
    OBVIOUS
  <2>3. cancelled \in BOOLEAN
    OBVIOUS
  <2>4. target \in Names \cup Addresses \cup {None} /\ reply \in Replies \cup {None}
    OBVIOUS
  <2>5. config \in Configs /\ url \in Urls
    OBVIOUS
  <2>6. QED
    BY <2>1, <2>2, <2>3, <2>4, <2>5 DEF TypeOK
<1>2. Gates /\ Trail /\ BodiesClosed
  BY DEF Gates, Trail, BodiesClosed, Contacting
<1>3. Counts
  BY MaxRedirectsNat DEF Counts
<1>4. DestinationsAdmitted /\ OnlyFinalRepresentation /\ FailuresHaveCause
  BY DEF DestinationsAdmitted, OnlyFinalRepresentation, FailuresHaveCause
<1>5. QED
  BY <1>1, <1>2, <1>3, <1>4 DEF FetchInv
-----------------------------------------------------------------------------
\* What an error becomes.
LEMMA FailFacts ==
    ASSUME NEW err \in {"disabled", "limit", "denied", "cancelled", "failure", "policy", "integrity"}
    PROVE  /\ publicRemoteError(err) \in {"disabled", "too large", "policy", "cancellation", "integrity"}
           /\ publicRemoteError(err) = "policy" <=> err = "denied"
           /\ publicRemoteError(err) = "too large" <=> err = "limit"
           /\ publicRemoteError(err) = "cancellation" <=> err = "cancelled"
BY DEF publicRemoteError

\* A step that contacts nobody and delivers nothing keeps the exchanges
\* and what is known about them.
LEMMA NoExchange ==
    ASSUME FetchInv, UNCHANGED <<config, exchanges>>, outcome' # "ok"
    PROVE  DestinationsAdmitted' /\ OnlyFinalRepresentation'
BY DEF FetchInv, DestinationsAdmitted, OnlyFinalRepresentation

LEMMA CancelKeeps ==
    ASSUME FetchInv, Cancel
    PROVE  FetchInv'
<1> USE DEF Cancel, FetchInv, hop, admission
<1>1. TypeOK'
  BY DEF TypeOK
<1>2. Gates' /\ Trail' /\ BodiesClosed'
  BY DEF Gates, Trail, BodiesClosed
<1>3. Counts'
  BY DEF Counts, maxRedirects
<1>4. DestinationsAdmitted' /\ OnlyFinalRepresentation'
  BY DEF DestinationsAdmitted, OnlyFinalRepresentation
<1>5. FailuresHaveCause'
  BY DEF Gates, FailuresHaveCause
<1>6. QED
  BY <1>1, <1>2, <1>3, <1>4, <1>5

Errors == {"disabled", "limit", "denied", "cancelled", "failure", "policy", "integrity"}

\* A step that ends the call with an error keeps the invariant, if the
\* body is closed and the error has a cause.
LEMMA FailKeeps ==
    ASSUME FetchInv, pc # "returned", NEW err \in Errors, Fail(err),
           UNCHANGED <<config, url, redirects, target, cancelled, exchanges, reply>>,
           answer' \in Seq(Addresses), open' = 0, FailuresHaveCause'
    PROVE  FetchInv'
<1>0. /\ pc' = "returned" /\ outcome' # "pending" /\ outcome' # "ok"
      /\ outcome' \in {"disabled", "too large", "policy", "cancellation", "integrity"}
  BY FailFacts DEF Fail, Errors
<1> USE DEF FetchInv
<1>1. TypeOK'
  <2>1. redirects' \in Nat
    BY DEF TypeOK
  <2>2. open' \in Int
    OBVIOUS
  <2>3. config' \in Configs /\ url' \in Urls
    BY DEF TypeOK
  <2>4. target' \in Names \cup Addresses \cup {None} /\ reply' \in Replies \cup {None}
    BY DEF TypeOK
  <2>5. cancelled' \in BOOLEAN
    BY DEF TypeOK
  <2>6. QED
    BY <1>0, <2>1, <2>2, <2>3, <2>4, <2>5 DEF TypeOK
<1>2. Gates' /\ Trail' /\ BodiesClosed'
  BY <1>0 DEF Gates, Trail, BodiesClosed, Contacting
<1>3. Counts'
  BY <1>0 DEF Counts, maxRedirects
<1>4. DestinationsAdmitted' /\ OnlyFinalRepresentation'
  BY <1>0, NoExchange
<1>5. QED
  BY <1>1, <1>2, <1>3, <1>4

Places == {"admitting", "resolving", "exchanging", "reading"}

\* So does one that goes on, if what its place takes for granted holds.
LEMMA ProceedKeeps ==
    ASSUME FetchInv, pc # "returned", NEW l \in Places, Proceed(l),
           UNCHANGED <<config, url, redirects, cancelled, exchanges, reply, open>>,
           target' \in Names \cup Addresses \cup {None}, answer' \in Seq(Addresses),
           Gates', Trail', BodiesClosed'
    PROVE  FetchInv'
<1>0. pc' \in Places /\ pc' # "returned" /\ outcome' = outcome /\ outcome' = "pending"
  BY DEF FetchInv, Gates, Proceed, Places
<1> USE DEF FetchInv
<1>1. TypeOK'
  BY <1>0 DEF TypeOK, Places
<1>2. Counts'
  BY <1>0 DEF Counts, maxRedirects, Places
<1>3. DestinationsAdmitted' /\ OnlyFinalRepresentation'
  BY <1>0, NoExchange
<1>4. FailuresHaveCause'
  BY <1>0 DEF FailuresHaveCause
<1>5. QED
  BY <1>1, <1>2, <1>3, <1>4

LEMMA StartKeeps ==
    ASSUME FetchInv, Start
    PROVE  FetchInv'
<1>0. /\ pc = "start" /\ open = 0 /\ answer \in Seq(Addresses) /\ exchanges = <<>>
      /\ UNCHANGED <<config, url, redirects, target, answer, cancelled, exchanges, reply, open>>
      /\ target \in Names \cup Addresses \cup {None}
  BY DEF FetchInv, Start, TypeOK, BodiesClosed, hop, admission, Counts
<1>1. CASE \E err \in {"disabled", "policy"} : Fail(err)
  <2>1. PICK err \in {"disabled", "policy"} : Fail(err)
    BY <1>1
  <2>2. outcome' \notin {"policy", "too large", "cancellation"}
    BY <2>1 DEF Fail, publicRemoteError
  <2>3. FailuresHaveCause'
    BY <2>2 DEF FailuresHaveCause
  <2>4. QED
    BY <1>0, <2>1, <2>3, FailKeeps DEF Errors
<1>2. CASE Fail("denied") /\ ~url.parses
  <2>1. outcome' = "policy"
    BY <1>2 DEF Fail, publicRemoteError
  <2>2. FailuresHaveCause'
    BY <1>0, <1>2, <2>1 DEF FailuresHaveCause
  <2>3. QED
    BY <1>0, <1>2, <2>2, FailKeeps DEF Errors
<1>3. CASE Proceed("admitting") /\ config.enabled /\ config.maxBytes >= 0 /\ url.parses
  <2>1. Gates'
    BY <1>0, <1>3 DEF FetchInv, Gates, Proceed, Contacting
  <2>2. Trail' /\ BodiesClosed'
    BY <1>0, <1>3 DEF Trail, BodiesClosed, Proceed
  <2>3. QED
    BY <1>0, <1>3, <2>1, <2>2, ProceedKeeps DEF Places
<1>4. config.maxBytes \in Int
  BY ConfigFacts DEF FetchInv, TypeOK
<1>5. QED
  BY <1>1, <1>2, <1>3, <1>4 DEF Start

LEMMA AdmitKeeps ==
    ASSUME FetchInv, Admit
    PROVE  FetchInv'
<1>0. /\ pc = "admitting" /\ open = 0 /\ answer \in Seq(Addresses)
      /\ UNCHANGED <<config, url, redirects, cancelled, exchanges, reply, open>>
      /\ target \in Names \cup Addresses \cup {None}
      /\ config.enabled /\ config.maxBytes >= 0 /\ url.parses /\ outcome = "pending"
  BY DEF FetchInv, Admit, TypeOK, BodiesClosed, hop, Gates
<1>1. url.host \in Names \cup Addresses
  BY UrlFacts DEF FetchInv, TypeOK
<1>2. CASE /\ Fail("denied") /\ UNCHANGED <<target, answer>>
           /\ ~url.safe \/ (url.host \in Addresses /\ ~IsAllowedRemoteAddress(url.host))
  <2>1. outcome' = "policy"
    BY <1>2 DEF Fail, publicRemoteError
  <2>2. ~url.safe \/ (url.host \in Addresses /\ ~Reachable(Unmap(url.host)))
    BY <1>2, RegistryIsMostSpecific
  <2>3. FailuresHaveCause'
    BY <1>0, <2>1, <2>2 DEF FailuresHaveCause
  <2>4. QED
    BY <1>0, <1>2, <2>3, FailKeeps DEF Errors
<1>3. CASE /\ url.safe /\ url.host \in Addresses /\ IsAllowedRemoteAddress(url.host)
           /\ Admitted(Unmap(url.host), <<url.host>>)
  <2>1. /\ Reachable(Unmap(url.host)) /\ target' \in Addresses /\ ~target'.mapped
        /\ target' # None /\ target' = Unmap(url.host)
    BY <1>3, RegistryIsMostSpecific, HostFacts DEF Admitted
  <2>2. answer' = <<url.host>> /\ answer' \in Seq(Addresses) /\ pc' = "exchanging" /\ outcome' = "pending"
    BY <1>0, <1>3 DEF Admitted, Proceed
  <2>3. DOMAIN answer' = {1} /\ answer'[1] = url.host
    BY <2>2
  <2> DEFINE e == [url |-> url', target |-> target', answer |-> answer', reply |-> None]
  <2>4. Entitled(e, config'.owned)
    BY <1>0, <1>3, <2>1, <2>2, <2>3 DEF Entitled
  <2>5. Gates'
    BY <1>0, <1>3, <2>1, <2>2, <2>4 DEF FetchInv, Gates, Contacting
  <2>6. Trail' /\ BodiesClosed'
    BY <1>0, <2>2 DEF FetchInv, Trail, BodiesClosed
  <2>7. QED
    BY <1>0, <1>3, <2>1, <2>2, <2>5, <2>6, ProceedKeeps DEF Places, Admitted
<1>4. CASE /\ url.safe /\ url.host \notin Addresses /\ ~config.owned
           /\ Admitted(url.host, <<>>)
  <2>1. target' = url.host /\ answer' = <<>> /\ pc' = "exchanging" /\ outcome' = "pending"
    BY <1>0, <1>4 DEF Admitted, Proceed
  <2>2. answer' \in Seq(Addresses) /\ target' \in Names /\ target' # None
    BY <1>1, <1>4, <2>1, EmptySeq, HostFacts
  <2> DEFINE e == [url |-> url', target |-> target', answer |-> answer', reply |-> None]
  <2>3. Entitled(e, config'.owned)
    BY <1>0, <1>4, <2>1 DEF Entitled
  <2>4. Gates'
    BY <1>0, <1>4, <2>1, <2>2, <2>3 DEF FetchInv, Gates, Contacting
  <2>5. Trail' /\ BodiesClosed'
    BY <1>0, <2>1 DEF FetchInv, Trail, BodiesClosed
  <2>6. QED
    BY <1>0, <1>4, <2>1, <2>2, <2>4, <2>5, ProceedKeeps DEF Places, Admitted
<1>5. CASE /\ url.safe /\ url.host \notin Addresses /\ config.owned
           /\ Proceed("resolving") /\ UNCHANGED <<target, answer>>
  <2>1. pc' = "resolving" /\ outcome' = "pending" /\ url.host \in Names
    BY <1>0, <1>1, <1>5 DEF Proceed
  <2>2. Gates'
    BY <1>0, <1>5, <2>1 DEF FetchInv, Gates, Contacting
  <2>3. Trail' /\ BodiesClosed'
    BY <1>0, <2>1 DEF FetchInv, Trail, BodiesClosed
  <2>4. QED
    BY <1>0, <1>5, <2>2, <2>3, ProceedKeeps DEF Places
<1>6. QED
  BY <1>2, <1>3, <1>4, <1>5 DEF Admit, admission

LEMMA ResolveKeeps ==
    ASSUME FetchInv, Resolve
    PROVE  FetchInv'
<1>0. PICK addresses \in Answers : Judge(addresses)
  BY DEF Resolve
<1>1. addresses \in Seq(Addresses) /\ \A i \in DOMAIN addresses : addresses[i] \in Addresses
  BY HostFacts
<1>2. \A i \in DOMAIN addresses :
         IsAllowedRemoteAddress(addresses[i]) <=> Reachable(Unmap(addresses[i]))
  BY <1>1, RegistryIsMostSpecific
<1>3. /\ pc = "resolving" /\ answer' = addresses /\ open = 0 /\ answer' \in Seq(Addresses)
      /\ UNCHANGED <<config, url, redirects, cancelled, exchanges, reply, open>>
      /\ config.enabled /\ config.maxBytes >= 0 /\ url.parses /\ url.safe
      /\ outcome = "pending" /\ url.host \in Names
  BY <1>0, <1>1 DEF Resolve, Judge, hop, FetchInv, Gates, Contacting, BodiesClosed
<1>4. CASE Fail(classifyRemoteFailure) /\ UNCHANGED target
  <2>1. /\ classifyRemoteFailure \in Errors
        /\ outcome' \in {"cancellation", "integrity"} /\ (outcome' = "cancellation" => cancelled)
    BY <1>4 DEF Fail, publicRemoteError, classifyRemoteFailure, Errors
  <2>2. FailuresHaveCause'
    BY <1>3, <2>1 DEF FailuresHaveCause
  <2>3. QED
    BY <1>3, <1>4, <2>1, <2>2, FailKeeps
<1>5. CASE /\ Fail("denied") /\ UNCHANGED target
           /\ \E i \in DOMAIN addresses : ~IsAllowedRemoteAddress(addresses[i])
  <2>1. outcome' = "policy" /\ url'.host \in Names
    BY <1>3, <1>5 DEF Fail, publicRemoteError
  <2>2. \E i \in DOMAIN answer' : ~Reachable(Unmap(answer'[i]))
    BY <1>2, <1>3, <1>5
  <2>3. FailuresHaveCause'
    BY <2>1, <2>2 DEF FailuresHaveCause
  <2>4. QED
    BY <1>3, <1>5, <2>3, FailKeeps DEF Errors
<1>6. CASE /\ addresses # <<>> /\ target' = Unmap(Head(addresses)) /\ Proceed("exchanging")
           /\ \A i \in DOMAIN addresses : IsAllowedRemoteAddress(addresses[i])
  <2>1. /\ 1 \in DOMAIN addresses /\ Head(addresses) = addresses[1]
    BY <1>1, <1>6, EmptySeq
  <2>2. /\ target' \in Addresses /\ ~target'.mapped /\ target' # None
        /\ target' = Unmap(addresses[1])
    BY <1>1, <1>6, <2>1, HostFacts
  <2>3. /\ \E j \in DOMAIN answer' : target' = Unmap(answer'[j])
        /\ \A j \in DOMAIN answer' : Reachable(Unmap(answer'[j]))
    BY <1>2, <1>3, <1>6, <2>1, <2>2
  <2>4. url.host \notin Addresses
    BY <1>3, HostFacts
  <2> DEFINE e == [url |-> url', target |-> target', answer |-> answer', reply |-> None]
  <2>5. Entitled(e, config'.owned)
    BY <1>3, <2>2, <2>3, <2>4 DEF Entitled
  <2>6. pc' = "exchanging" /\ outcome' = "pending"
    BY <1>3, <1>6 DEF Proceed
  <2>7. Gates'
    BY <1>3, <2>2, <2>5, <2>6 DEF FetchInv, Gates, Contacting
  <2>8. Trail' /\ BodiesClosed'
    BY <1>3, <2>6 DEF FetchInv, Trail, BodiesClosed
  <2>9. QED
    BY <1>3, <1>6, <2>2, <2>7, <2>8, ProceedKeeps DEF Places
<1>7. QED
  BY <1>0, <1>4, <1>5, <1>6 DEF Judge

LEMMA ExchangeKeeps ==
    ASSUME FetchInv, Exchange
    PROVE  FetchInv'
<1> DEFINE x == [url |-> url, target |-> target, answer |-> answer, reply |-> reply']
           n == Len(exchanges)
<1>0. /\ pc = "exchanging" /\ open = 0 /\ answer \in Seq(Addresses) /\ target # None
      /\ target \in Names \cup Addresses /\ url \in Urls
      /\ UNCHANGED <<config, url, redirects, target, answer, cancelled>>
      /\ config.enabled /\ config.maxBytes >= 0 /\ url.parses /\ url.safe
      /\ outcome = "pending"
      /\ Entitled([url |-> url, target |-> target, answer |-> answer, reply |-> None], config.owned)
  BY DEF FetchInv, Exchange, TypeOK, BodiesClosed, hop, admission, Gates, Contacting
<1>1. /\ exchanges \in Seq(Exchanged) /\ n \in Nat /\ DOMAIN exchanges = 1..n
      /\ n = redirects /\ redirects \in Nat /\ redirects <= maxRedirects
  BY <1>0, LenProperties DEF FetchInv, Gates, Counts, TypeOK
<1>2. \/ pc' = "returned" /\ reply' = None /\ open' = 0
         /\ outcome' \in {"cancellation", "integrity"} /\ (outcome' = "cancellation" => cancelled)
      \/ pc' = "answered" /\ reply' \in Replies /\ open' = 1 /\ outcome' = "pending"
  <2>1. publicRemoteError(classifyRemoteFailure) \in {"cancellation", "integrity"}
        /\ (publicRemoteError(classifyRemoteFailure) = "cancellation" => cancelled)
    BY DEF publicRemoteError, classifyRemoteFailure
  <2>2. QED
    BY <1>0, <2>1 DEF Exchange, Fail, Proceed
<1>3. x \in Exchanged
  BY <1>0, <1>2 DEF Exchanged
<1>4. /\ exchanges' \in Seq(Exchanged) /\ Len(exchanges') = n + 1 /\ exchanges' # <<>>
      /\ \A i \in 1..n : exchanges'[i] = exchanges[i]
      /\ exchanges'[n + 1] = x /\ DOMAIN exchanges' = 1..(n + 1)
  <2>1. exchanges' = Append(exchanges, x)
    BY DEF Exchange
  <2> HIDE DEF x
  <2>2. QED
    BY <1>1, <1>3, <2>1, AppendProperties, LenProperties
<1>5. x.url = url /\ x.reply = reply' /\ Entitled(x, config.owned)
  BY <1>0 DEF Entitled
<1> HIDE DEF x, n
<1>6. TypeOK'
  <2>1. open' \in Int /\ redirects' \in Nat
    BY <1>0, <1>1, <1>2
  <2>2. config' \in Configs /\ cancelled' \in BOOLEAN
    BY <1>0 DEF FetchInv, TypeOK
  <2>3. QED
    BY <1>0, <1>2, <2>1, <2>2 DEF TypeOK
<1>7. Gates'
  BY <1>0, <1>2, <1>4 DEF Gates, Contacting
<1>8. Counts'
  BY <1>0, <1>1, <1>2, <1>4 DEF Counts, maxRedirects
<1>9. Trail'
  BY <1>0, <1>2, <1>4, <1>5 DEF Trail
<1>10. BodiesClosed'
  BY <1>2 DEF BodiesClosed
<1>11. DestinationsAdmitted'
  BY <1>0, <1>1, <1>4, <1>5 DEF FetchInv, DestinationsAdmitted
<1>12. OnlyFinalRepresentation'
  <2>1. n > 0 => LeadsTo(exchanges[n].reply, url)
    BY <1>0, <1>1, EmptySeq DEF FetchInv, Trail, n
  <2>2. ASSUME NEW i \in DOMAIN exchanges', i > 1
        PROVE  LeadsTo(exchanges'[i - 1].reply, exchanges'[i].url)
    <3>1. CASE i = n + 1
      BY <3>1, <2>1, <2>2, <1>1, <1>4, <1>5
    <3>2. CASE i \in 1..n
      BY <3>2, <2>2, <1>1, <1>4 DEF FetchInv, OnlyFinalRepresentation
    <3>3. QED
      BY <3>1, <3>2, <1>1, <1>4
  <2>3. QED
    BY <1>2, <2>2 DEF OnlyFinalRepresentation
<1>13. FailuresHaveCause'
  BY <1>0, <1>2 DEF FailuresHaveCause
<1>14. QED
  BY <1>6, <1>7, <1>8, <1>9, <1>10, <1>11, <1>12, <1>13 DEF FetchInv

\* What is known when a reply is being looked at.
LEMMA ReplyAtHand ==
    ASSUME FetchInv, pc \in {"answered", "reading"}
    PROVE  /\ reply \in Replies /\ reply # None /\ open = 1 /\ outcome = "pending"
           /\ answer \in Seq(Addresses) /\ target \in Names \cup Addresses \cup {None}
           /\ redirects \in Nat /\ maxRedirects \in Nat /\ redirects <= maxRedirects
           /\ Len(exchanges) = redirects + 1
           /\ config.maxBytes \in Int /\ config.maxBytes >= 0 /\ config.enabled
           /\ url.parses /\ url.safe
<1>1. open = 1 /\ reply \in Replies /\ outcome = "pending" /\ url.parses /\ url.safe
      /\ config.maxBytes >= 0 /\ config.enabled
  BY DEF FetchInv, BodiesClosed, Trail, Gates, Contacting
<1>2. redirects \in Nat /\ Len(exchanges) = redirects + 1 /\ redirects <= maxRedirects
  BY <1>1 DEF FetchInv, Counts, TypeOK
<1>3. answer \in Seq(Addresses) /\ target \in Names \cup Addresses \cup {None}
  BY DEF FetchInv, TypeOK
<1>4. config.maxBytes \in Int /\ maxRedirects \in Nat
  BY ConfigFacts, MaxRedirectsNat DEF FetchInv, TypeOK
<1>5. QED
  BY <1>1, <1>2, <1>3, <1>4, ReplyFacts

LEMMA RedirectKeeps ==
    ASSUME FetchInv, Redirect
    PROVE  FetchInv'
<1>0. /\ pc = "answered" /\ reply.status = "redirect" /\ open' = 0
      /\ UNCHANGED <<config, target, answer, cancelled, exchanges, reply>>
  BY ReplyAtHand DEF Redirect, admission
<1>1. CASE /\ Fail("denied") /\ UNCHANGED <<url, redirects>>
           /\ redirects >= maxRedirects \/ reply.location = None \/ ~reply.location.parses
  <2>1. outcome' = "policy"
    BY <1>1 DEF Fail, publicRemoteError
  <2>2. redirects = maxRedirects \/ reply.location = None \/ ~reply.location.parses
    BY <1>0, <1>1, ReplyAtHand
  <2>3. maxRedirects' = maxRedirects
    BY <1>0 DEF maxRedirects
  <2>4. reply' # None /\ Len(exchanges') > redirects'
    BY <1>0, <1>1, ReplyAtHand
  <2>5. FailuresHaveCause'
    BY <1>0, <1>1, <2>1, <2>2, <2>3, <2>4 DEF FailuresHaveCause
  <2>6. QED
    BY <1>0, <1>1, <2>5, ReplyAtHand, FailKeeps DEF Errors
<1>2. CASE /\ redirects < maxRedirects /\ reply.location # None /\ reply.location.parses
           /\ url' = reply.location /\ redirects' = redirects + 1 /\ Proceed("admitting")
  <2>1. pc' = "admitting" /\ outcome' = "pending" /\ url' \in Urls
    BY <1>0, <1>2, ReplyAtHand, ReplyFacts DEF Proceed
  <2>2. TypeOK'
    <3>1. redirects' \in Nat /\ open' \in Int
      BY <1>0, <1>2, ReplyAtHand
    <3>2. config' \in Configs /\ cancelled' \in BOOLEAN /\ reply' \in Replies \cup {None}
      BY <1>0 DEF FetchInv, TypeOK
    <3>3. target' \in Names \cup Addresses \cup {None} /\ answer' \in Seq(Addresses)
      BY <1>0, ReplyAtHand
    <3>4. QED
      BY <2>1, <3>1, <3>2, <3>3 DEF TypeOK
  <2>3. Gates'
    BY <1>0, <1>2, <2>1, ReplyAtHand DEF FetchInv, Gates, Contacting
  <2>4. Counts'
    <3>1. maxRedirects' = maxRedirects
      BY <1>0 DEF maxRedirects
    <3>2. QED
      BY <1>0, <1>2, <2>1, <3>1, ReplyAtHand DEF Counts
  <2>5. Trail' /\ BodiesClosed'
    BY <1>0, <1>2, <2>1, ReplyAtHand DEF FetchInv, Trail, BodiesClosed, LeadsTo
  <2>6. DestinationsAdmitted' /\ OnlyFinalRepresentation'
    BY <1>0, <2>1, NoExchange
  <2>7. FailuresHaveCause'
    BY <2>1 DEF FailuresHaveCause
  <2>8. QED
    BY <2>2, <2>3, <2>4, <2>5, <2>6, <2>7 DEF FetchInv
<1>3. QED
  BY <1>0, <1>1, <1>2, ReplyAtHand DEF Redirect, hop

LEMMA ExamineKeeps ==
    ASSUME FetchInv, Examine
    PROVE  FetchInv'
<1>0. /\ pc = "answered" /\ reply.status # "redirect"
      /\ UNCHANGED <<config, url, redirects, target, answer, cancelled, exchanges, reply>>
      /\ reply' # None /\ Len(exchanges') > redirects'
  BY ReplyAtHand DEF Examine, hop, admission
<1>1. CASE Fail("denied") /\ open' = 0 /\ reply.status = "other"
  <2>1. outcome' = "policy"
    BY <1>1 DEF Fail, publicRemoteError
  <2>2. FailuresHaveCause'
    BY <1>0, <1>1, <2>1 DEF FailuresHaveCause
  <2>3. QED
    BY <1>0, <1>1, <2>2, ReplyAtHand, FailKeeps DEF Errors
<1>2. CASE Fail("limit") /\ open' = 0 /\ reply.length > config.maxBytes
  <2>1. outcome' = "too large"
    BY <1>2 DEF Fail, publicRemoteError
  <2>2. FailuresHaveCause'
    BY <1>0, <1>2, <2>1 DEF FailuresHaveCause
  <2>3. QED
    BY <1>0, <1>2, <2>2, ReplyAtHand, FailKeeps DEF Errors
<1>3. CASE Proceed("reading") /\ UNCHANGED open /\ reply.status = "ok"
  <2>1. pc' = "reading" /\ outcome' = "pending"
    BY <1>0, <1>3, ReplyAtHand DEF Proceed
  <2>2. Gates'
    BY <1>0, <2>1, ReplyAtHand DEF FetchInv, Gates, Contacting
  <2>3. Trail' /\ BodiesClosed'
    BY <1>0, <1>3, <2>1 DEF FetchInv, Trail, BodiesClosed
  <2>4. QED
    BY <1>0, <1>3, <2>2, <2>3, ReplyAtHand, ProceedKeeps DEF Places
<1>4. reply.status \in {"ok", "redirect", "other"}
  BY <1>0, ReplyAtHand, ReplyFacts
<1>5. QED
  BY <1>0, <1>1, <1>2, <1>3, <1>4, ReplyAtHand DEF Examine

LEMMA ConsumeKeeps ==
    ASSUME FetchInv, Consume
    PROVE  FetchInv'
<1>0. /\ pc = "reading" /\ open' = 0 /\ reply.status = "ok"
      /\ UNCHANGED <<config, url, redirects, target, answer, cancelled, exchanges, reply>>
      /\ reply' # None /\ Len(exchanges') > redirects'
  BY ReplyAtHand DEF Consume, hop, admission, FetchInv, Trail
<1>1. PICK got \in {"ok", "limit", "integrity", "cancelled"} :
         /\ MayGet(got)
         /\ cancelled => got = "cancelled"
         /\ IF got # "ok" THEN Fail(got)
            ELSE IF url.parses /\ url.safe THEN pc' = "returned" /\ outcome' = "ok"
            ELSE Fail("denied")
  BY DEF Consume
<1>2. CASE got # "ok"
  <2>1. /\ outcome' \in {"too large", "integrity", "cancellation"}
        /\ outcome' = "too large" => got = "limit"
        /\ outcome' = "cancellation" => got = "cancelled"
    BY <1>1, <1>2 DEF Fail, publicRemoteError
  <2>2. got = "limit" => reply.body.size > config.maxBytes
    BY <1>1 DEF MayGet, Reading!Justified
  <2>3. got = "cancelled" => cancelled \/ config.timed
    BY <1>0, <1>1, ReplyAtHand, ReplyFacts DEF MayGet, Reading!Justified
  <2>4. FailuresHaveCause'
    BY <1>0, <2>1, <2>2, <2>3 DEF FailuresHaveCause
  <2>5. QED
    BY <1>0, <1>1, <1>2, <2>4, ReplyAtHand, FailKeeps DEF Errors
<1>3. CASE got = "ok"
  <2>1. pc' = "returned" /\ outcome' = "ok" /\ ~cancelled
    BY <1>0, <1>1, <1>3, ReplyAtHand
  <2>2. reply.body.ending = "eof" /\ reply.body.size <= config.maxBytes
    BY <1>1, <1>3 DEF MayGet, Reading!Justified
  <2>3. TypeOK'
    <3>1. redirects' \in Nat /\ open' \in Int
      BY <1>0, ReplyAtHand
    <3>2. config' \in Configs /\ url' \in Urls /\ cancelled' \in BOOLEAN
          /\ reply' \in Replies \cup {None}
      BY <1>0 DEF FetchInv, TypeOK
    <3>3. target' \in Names \cup Addresses \cup {None} /\ answer' \in Seq(Addresses)
      BY <1>0, ReplyAtHand
    <3>4. QED
      BY <2>1, <3>1, <3>2, <3>3 DEF TypeOK
  <2>4. Gates' /\ Trail' /\ BodiesClosed'
    BY <1>0, <2>1 DEF FetchInv, Gates, Trail, BodiesClosed, Contacting
  <2>5. Counts'
    BY <1>0, <2>1 DEF FetchInv, Counts, maxRedirects
  <2>6. DestinationsAdmitted'
    BY <1>0 DEF FetchInv, DestinationsAdmitted
  <2>7. OnlyFinalRepresentation'
    <3>1. exchanges[Len(exchanges)].url = url /\ exchanges[Len(exchanges)].reply = reply
      BY <1>0 DEF FetchInv, Trail
    <3>2. QED
      BY <1>0, <2>1, <2>2, <3>1 DEF FetchInv, OnlyFinalRepresentation
  <2>8. FailuresHaveCause'
    BY <2>1 DEF FailuresHaveCause
  <2>9. QED
    BY <2>3, <2>4, <2>5, <2>6, <2>7, <2>8 DEF FetchInv
<1>4. QED
  BY <1>2, <1>3

LEMMA StepKeeps ==
    ASSUME FetchInv, [Next]_vars
    PROVE  FetchInv'
<1>1. CASE UNCHANGED vars
  <2>1. maxRedirects' = maxRedirects
    BY <1>1 DEF vars, maxRedirects
  <2>2. TypeOK' /\ Gates'
    BY <1>1 DEF vars, FetchInv, TypeOK, Gates
  <2>3. Trail' /\ BodiesClosed'
    BY <1>1 DEF vars, FetchInv, Trail, BodiesClosed
  <2>4. Counts' /\ DestinationsAdmitted' /\ OnlyFinalRepresentation'
    BY <1>1, <2>1 DEF vars, FetchInv, Counts, DestinationsAdmitted, OnlyFinalRepresentation
  <2>5. FailuresHaveCause'
    BY <1>1, <2>1 DEF vars, FetchInv, FailuresHaveCause
  <2>6. QED
    BY <2>2, <2>3, <2>4, <2>5 DEF FetchInv
<1>2. CASE Cancel
  BY <1>2, CancelKeeps
<1>3. CASE Step
  BY <1>3, StartKeeps, AdmitKeeps, ResolveKeeps, ExchangeKeeps, RedirectKeeps,
     ExamineKeeps, ConsumeKeeps DEF Step
<1>4. QED
  BY <1>1, <1>2, <1>3 DEF Next, Rest

-----------------------------------------------------------------------------
(* The inductive invariant of a fetch (remote.go:72-303): every fact below *)
(* is one of its conjuncts or follows from it.                             *)
THEOREM FetchIsInvariant == Spec => []FetchInv
BY InitFetch, StepKeeps, PTL DEF Spec

(* Whatever resolver, servers and redirects answer, and whatever the       *)
(* registry of addresses holds, each exchange was with a destination       *)
(* admitted for that hop (remote.go:92-97, 133-182).                       *)
THEOREM EveryDestinationAdmitted == Spec => []DestinationsAdmitted
<1>1. FetchInv => DestinationsAdmitted
  BY DEF FetchInv
<1>2. QED
  BY <1>1, FetchIsInvariant, PTL

(* No chain of redirects is followed further than the configured number    *)
(* (remote.go:87-92).                                                      *)
THEOREM EveryChainIsBounded == Spec => []TravelIsBounded
<1>1. FetchInv => TravelIsBounded
  <2> SUFFICES ASSUME FetchInv PROVE TravelIsBounded
    OBVIOUS
  <2>1. maxRedirects \in Nat /\ redirects \in Nat /\ redirects <= maxRedirects
        /\ Len(exchanges) \in redirects..redirects + 1
    BY MaxRedirectsNat DEF FetchInv, TypeOK, Counts
  <2>2. QED
    BY <2>1 DEF TravelIsBounded
<1>2. QED
  BY <1>1, FetchIsInvariant, PTL

(* What is delivered is the last reply of a chain that the servers'        *)
(* locations spell out (remote.go:98-124, 231-238).                        *)
THEOREM OnlyTheFinalRepresentation == Spec => []OnlyFinalRepresentation
<1>1. FetchInv => OnlyFinalRepresentation
  BY DEF FetchInv
<1>2. QED
  BY <1>1, FetchIsInvariant, PTL

(* Wherever a fetch stands, the bodies of all replies but the one being    *)
(* read have been closed (remote.go:98-124).                               *)
THEOREM EveryBodyIsClosed == Spec => []BodiesClosed
<1>1. FetchInv => BodiesClosed
  BY DEF FetchInv
<1>2. QED
  BY <1>1, FetchIsInvariant, PTL

(* A policy, size or cancellation failure has a ground in what was being   *)
(* admitted, in the reply or in the context (remote.go:298-303).           *)
THEOREM EveryFailureHasCause == Spec => []FailuresHaveCause
<1>1. FetchInv => FailuresHaveCause
  BY DEF FetchInv
<1>2. QED
  BY <1>1, FetchIsInvariant, PTL

(* Once its context has ended a fetch delivers nothing (remote.go:292-294).*)
THEOREM NothingAfterCancellation == Spec => CancelledFetchFails
<1>1. FetchInv /\ [Next]_vars => [cancelled /\ outcome = "pending" => outcome' # "ok"]_vars
  <2> SUFFICES ASSUME FetchInv, Next, cancelled, outcome = "pending"
               PROVE  outcome' # "ok"
    BY DEF vars
  <2>1. CASE Cancel \/ Rest
    BY <2>1 DEF Cancel, Rest, vars
  <2>2. CASE Start \/ Admit \/ Resolve \/ Exchange \/ Redirect \/ Examine
    BY <2>2 DEF Start, Admit, Admitted, Resolve, Judge, Exchange, Redirect, Examine,
                Fail, Proceed, publicRemoteError
  <2>3. CASE Consume
    BY <2>3 DEF Consume, Fail, publicRemoteError
  <2>4. QED
    BY <2>1, <2>2, <2>3 DEF Next, Step
<1>2. QED
  BY <1>1, FetchIsInvariant, PTL DEF Spec, CancelledFetchFails
=============================================================================
