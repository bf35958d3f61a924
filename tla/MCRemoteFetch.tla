--------------------------- MODULE MCRemoteFetch ---------------------------
(***************************************************************************)
(* RemoteFetch with addresses of two bits, two names, and servers that     *)
(* redirect anywhere.                                                      *)
(***************************************************************************)
EXTENDS RemoteFetch

CONSTANTS alpha, beta

Hosts == {alpha, beta}

A(bits, unicast) == [bits |-> bits, mapped |-> FALSE, unicast |-> unicast]

\* Ordinary; private, in no rule; under the umbrella; excepted from it.
Ordinary == A(<<1, 1>>, TRUE)
Private  == A(<<1, 0>>, FALSE)
Covered  == A(<<0, 1>>, TRUE)
Excepted == A(<<0, 0>>, TRUE)
Wrapped(a) == [a EXCEPT !.mapped = TRUE]

SmallAddresses ==
    {Ordinary, Private, Covered, Excepted, Wrapped(Ordinary), Wrapped(Covered)}

Registry == << [prefix |-> <<0>>, reachable |-> FALSE],
               [prefix |-> <<0, 0>>, reachable |-> TRUE] >>

To(host) == [parses |-> TRUE, safe |-> TRUE, host |-> host]
SmallUrls == { To(alpha), To(beta), To(Wrapped(Ordinary)), To(Excepted), To(Covered),
               [To(alpha) EXCEPT !.parses = FALSE], [To(beta) EXCEPT !.safe = FALSE] }

SmallConfigs ==
    [enabled : {TRUE}, maxBytes : {1}, maxRedirects : {0, 1}, owned : BOOLEAN, timed : BOOLEAN]
    \cup {[enabled |-> e, maxBytes |-> m, maxRedirects |-> 0, owned |-> TRUE, timed |-> TRUE] :
            e \in BOOLEAN, m \in {-1}}
    \cup {[enabled |-> FALSE, maxBytes |-> 1, maxRedirects |-> 0, owned |-> TRUE, timed |-> TRUE]}

SmallAnswers == { <<>>, <<Ordinary>>, <<Excepted, Wrapped(Ordinary)>>, <<Wrapped(Ordinary), Private>>,
                  <<Private, Ordinary>>, <<Wrapped(Covered)>>, <<Excepted>> }

SmallBodies == [size : {0, 1, 2}, ending : {"eof", "fault", "hang"}]

SmallReplies ==
    { [status |-> "redirect", location |-> l, length |-> -1, body |-> [size |-> 0, ending |-> "eof"]] :
        l \in SmallUrls \cup {None} }
    \cup { [status |-> "ok", location |-> None, length |-> n, body |-> b] :
             n \in {-1, 1, 2}, b \in SmallBodies }
    \cup { [status |-> "other", location |-> To(alpha), length |-> 0, body |-> [size |-> 0, ending |-> "eof"]] }
=============================================================================
