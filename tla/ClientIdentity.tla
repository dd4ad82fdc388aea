--------------------------- MODULE ClientIdentity ---------------------------
(***************************************************************************)
(* The client a sign-in attempt is counted for (client_identity.py), and   *)
(* the way of the request to it: the visitor may begin a forwarding chain, *)
(* the edge appends the visitor's address and infrastructure behind it     *)
(* appends TRUSTED_PROXY_HOPS more, the web application forwards the chain *)
(* as it is and is the peer the API sees.  A visitor may also reach the    *)
(* API without any of them.                                                *)
(*                                                                         *)
(* An address is its family, its network (a /64 of IPv6) and its host.  A  *)
(* text is what a proxy or a visitor may write for it; junk is a text that *)
(* is no address, and blank is nothing but spaces.                         *)
(***************************************************************************)
EXTENDS Naturals, Sequences, FiniteSets

CONSTANTS
  Hops,        \* TRUSTED_PROXY_HOPS, true of the infrastructure
  Networks,    \* networks visitors have addresses of
  Own,         \* TRUSTED_PROXY_NETWORKS
  MaxForged    \* bound on the entries a visitor writes

ASSUME IdentityAssumption ==
  Hops \in Nat /\ MaxForged \in Nat /\ Own \notin Networks

VARIABLES
  client,      \* the address of the visitor
  chain,       \* X-Forwarded-For
  hop,         \* who has the request
  appended,    \* entries appended to what the visitor wrote
  identity     \* what it is attributed to

forwardVars == <<client, chain, hop, appended, identity>>

Address == [family : {4, 6}, network : Networks \cup {Own}, host : 1 .. 2]
Visitors == {a \in Address : a.network # Own}
Server == [family |-> 4, network |-> Own, host |-> 1]
None == [family |-> 0, network |-> Own, host |-> 0]  \* no address

(* mapped: an IPv4 address in the notation of IPv6.                        *)
Text == [kind : {"address", "junk", "blank"}, of : Address \cup {None},
         mapped : BOOLEAN, bracketed : BOOLEAN, port : BOOLEAN]

Plain(kind, a) == [kind |-> kind, of |-> a, mapped |-> FALSE, bracketed |-> FALSE, port |-> FALSE]
Junk == Plain("junk", None)
Blank == Plain("blank", None)

(* Colons make a port unrecognizable outside brackets.                     *)
Colons(text) == text.mapped \/ text.of.family = 6

(* What proxies write for an address.                                      *)
Spellings(a) ==
  {s \in Text :
     /\ s.kind = "address" /\ s.of = a
     /\ s.mapped => a.family = 4
     /\ s.bracketed => Colons(s)
     /\ s.port /\ Colons(s) => s.bracketed}

-----------------------------------------------------------------------------
_without_port(text) ==
  IF text.bracketed THEN [text EXCEPT !.bracketed = FALSE, !.port = FALSE]
  ELSE IF text.port /\ ~Colons(text) THEN [text EXCEPT !.port = FALSE]
  ELSE text

(* ip_address takes neither brackets nor a port; a mapped address is its   *)
(* IPv4 form.                                                              *)
_parse_address(text) ==
  LET bare == _without_port(text)
  IN IF bare.kind = "address" /\ ~bare.bracketed /\ ~bare.port THEN bare.of ELSE None

_is_trusted(address) == address.network = Own

_identity_of(address) ==
  IF address.family = 4 THEN <<4, address.network, address.host>> ELSE <<6, address.network>>

(* What is left of the header when it is split and stripped.               *)
Entries(forwarded_for) == {i \in DOMAIN forwarded_for : forwarded_for[i].kind # "blank"}

(* Mutant: the entry is counted from the left.                             *)
_first_client(forwarded_for) ==
  LET entries == Entries(forwarded_for)
      counted == {i \in entries : Cardinality({j \in entries : j <= i}) = Hops + 1}
  IN IF counted = {} THEN None ELSE _parse_address(forwarded_for[CHOOSE i \in counted : TRUE])

(* entries[-position], when there are as many.                             *)
_forwarded_client(forwarded_for) ==
  LET entries == Entries(forwarded_for)
      position == Hops + 1
      counted == {i \in entries : Cardinality({j \in entries : j >= i}) = position}
  IN IF counted = {} THEN None ELSE _parse_address(forwarded_for[CHOOSE i \in counted : TRUE])

resolve_client_identity(peer, forwarded_for) ==
  LET parsed_peer == _parse_address(peer)
      forwarded == _forwarded_client(forwarded_for)
  IN IF parsed_peer = None THEN peer
     ELSE IF _is_trusted(parsed_peer) /\ forwarded # None THEN _identity_of(forwarded)
     ELSE _identity_of(parsed_peer)

-----------------------------------------------------------------------------
ForwardInit ==
  /\ client \in Visitors
  /\ chain = <<>> /\ hop = "visitor" /\ appended = 0 /\ identity = None

(* The visitor writes an entry: any address in any notation, or junk.      *)
Forge ==
  /\ hop = "visitor" /\ Len(chain) < MaxForged
  /\ \E x \in Visitors \cup {Server} : \E text \in Spellings(x) \cup {Junk, Blank} :
       chain' = Append(chain, text)
  /\ UNCHANGED <<client, hop, appended, identity>>

AppendPeer ==
  /\ hop = "visitor"
  /\ \E text \in Spellings(client) : chain' = Append(chain, text)
  /\ hop' = "edge" /\ appended' = 1
  /\ UNCHANGED <<client, identity>>

AppendHop ==
  /\ hop = "edge" /\ appended <= Hops
  /\ chain' = Append(chain, Plain("address", Server))
  /\ appended' = appended + 1
  /\ UNCHANGED <<client, hop, identity>>

(* The API sees a peer as its sockets name it: IPv4, or mapped.            *)
Sockets(a) == {s \in Spellings(a) : ~s.bracketed /\ ~s.port}

Resolve ==
  /\ hop' = "api"
  /\ \/ /\ hop = "edge" /\ appended = Hops + 1
        /\ \E peer \in Sockets(Server) : identity' = resolve_client_identity(peer, chain)
     \/ /\ hop = "visitor"
        /\ \E peer \in Sockets(client) : identity' = resolve_client_identity(peer, chain)
  /\ UNCHANGED <<client, chain, appended>>

ForwardNext == Forge \/ AppendPeer \/ AppendHop \/ Resolve

ForwardSpec == ForwardInit /\ [][ForwardNext]_forwardVars

-----------------------------------------------------------------------------
(* "Counting from the right is what makes the entries a visitor supplied   *)
(* unreachable" and "an address with several spellings would otherwise     *)
(* hold several buckets": whatever the visitor wrote and whichever way the *)
(* request took, it is attributed to the address, or to the network of     *)
(* IPv6, that it was sent from.                                            *)
OneBucketPerClient ==
  hop = "api" =>
    identity = IF client.family = 4 THEN <<4, client.network, client.host>>
               ELSE <<6, client.network>>

=============================================================================
