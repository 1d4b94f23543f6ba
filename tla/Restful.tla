------------------------------ MODULE Restful ------------------------------
(***************************************************************************)
(* Requests as they travel between host, manager and applications: packed  *)
(* into bytes with numbers in network order, and matched by their URL,     *)
(* which is a sequence of segments here and one byte and a zero in a       *)
(* packet.                                                                 *)
(***************************************************************************)
EXTENDS Integers, Sequences, FiniteSets, SequencesExt, FiniteSetsExt

CONSTANT Urls          \* the URLs in use: byte -> sequence of segments

ASSUME UrlAssumption == DOMAIN Urls \subseteq 1..255

FixPart == 18          \* REQUEST_PACKET_FIX_PART_LEN
Version == 1           \* REQUES_PACKET_VER

\* htons, htonl and their inverses.
NetworkOrder(n, width) == [i \in 1..width |-> (n \div 256^(width - i)) % 256]
Number(bytes) ==
  LET value[i \in 0..Len(bytes)] == IF i = 0 THEN 0 ELSE value[i - 1] * 256 + bytes[i]
  IN value[Len(bytes)]

\* The fixed part, given the lengths it tells, and what follows.
Header(action, mid, sender, url_len, payload_len) ==
  <<Version, action>> \o NetworkOrder(0, 2) \o NetworkOrder(mid, 4) \o NetworkOrder(sender, 4)
    \o NetworkOrder(url_len, 2) \o NetworkOrder(payload_len, 4)
pack_request(r) ==
  Header(r.action, r.mid, r.sender, Len(r.url), Len(r.payload)) \o r.url \o r.payload

UrlEnd(p) == FixPart + Number(SubSeq(p, 13, 14))
\* The length of the payload is what is left after the URL, in 32 bits: with a URL
\* that ends outside of the packet it is one that makes the sum start over.
LengthsFit(p) ==
  Head(p) = Version /\ Len(p) >= FixPart /\ SubSeq(p, 15, 18) = NetworkOrder(Len(p) - UrlEnd(p), 4)
\* The last byte of the URL is looked for there nevertheless.
LooksOutside(p) == LengthsFit(p) /\ UrlEnd(p) > Len(p)
CanUnpack(p) == LengthsFit(p) /\ UrlEnd(p) <= Len(p) /\ p[UrlEnd(p)] = 0
unpack_request(p) ==
  [action |-> p[2], mid |-> Number(SubSeq(p, 5, 8)), sender |-> Number(SubSeq(p, 9, 12)),
   url |-> SubSeq(p, FixPart + 1, UrlEnd(p)), payload |-> SubSeq(p, UrlEnd(p) + 1, Len(p))]

\* The URL matches one that it starts with, the slash at either end left out.
check_url_start(url, leading) == Len(leading) > 0 /\ IsPrefix(leading, url)

\* A walk along a list that unlinks the elements at all places but K.
Keep(list, K) ==
  LET kept[i \in 0..Len(list)] ==
        IF i = 0 THEN <<>>
        ELSE IF i \in K THEN Append(kept[i - 1], list[i]) ELSE kept[i - 1]
  IN kept[Len(list)]
=============================================================================
