------------------------------ MODULE BgpWalk ------------------------------
(***************************************************************************)
(* The BGP walker of internal/discovery/bgp: the peer table of the         *)
(* device's vendor first, whose row index holds the address of the peer in *)
(* a form of its own, and RFC 4273's bgpPeerTable (IPv4 only) when that    *)
(* table gives no row or an error.                                         *)
(*                                                                         *)
(* A speaker is [vendor, peers, vendorRows, rfc, v2].  vendorRows          *)
(* holds [index, state], the index a sequence of numbers as the device     *)
(* sends it; rfc the set of peers in bgpPeerTable; v2 is UseBGPV2MIB.  An  *)
(* address is a sequence of 4 or 16 octets.                                *)
(***************************************************************************)
EXTENDS Integers, Sequences, FiniteSets

CONSTANTS Speakers, Established, InScope(_)

VARIABLES speaker, bgpPc, outcomes, bgpResult,
          warned          \* the Warn about a vendor table that returned an error

bgpVars == <<speaker, bgpPc, outcomes, bgpResult, warned>>

NoPeers == [edges |-> {}, oos |-> {}]

BgpInit ==
    /\ speaker \in Speakers
    /\ bgpPc = "start" /\ outcomes = {} /\ bgpResult = NoPeers /\ warned = FALSE

-----------------------------------------------------------------------------
(* the index of a row                                                      *)

\* InetAddressType: 4 octets of IPv4, 16 of IPv6, others are not read.
Want(type) == CASE type = 1 -> 4 [] type = 2 -> 16 [] OTHER -> -1

NoAddress == [ok |-> FALSE, ip |-> <<>>, next |-> 0]

\* want octets from position pos on.
OctetsAt(parts, pos, want) ==
    IF pos + want - 1 > Len(parts) \/ \E i \in pos..(pos + want - 1) : parts[i] \notin 0..255
    THEN NoAddress
    ELSE [ok |-> TRUE, ip |-> SubSeq(parts, pos, pos + want - 1), next |-> pos + want]

\* type, length and octets.
readInetAddrAt(parts, pos) ==
    IF pos + 1 > Len(parts) THEN NoAddress
    ELSE IF Want(parts[pos]) # parts[pos + 1] THEN NoAddress
    ELSE OctetsAt(parts, pos + 2, parts[pos + 1])

\* type and octets, the length being that of the type.
readInetAddrImplicitAt(parts, pos) ==
    IF pos > Len(parts) THEN NoAddress
    ELSE IF Want(parts[pos]) = -1 THEN NoAddress
    ELSE OctetsAt(parts, pos + 1, Want(parts[pos]))

\* Mutated form: the first of Juniper's two addresses is taken for the peer's.
decodeIndexLocal(vendor, parts) ==
    CASE vendor = "cisco"   -> readInetAddrAt(parts, 1)
      [] vendor = "juniper" -> readInetAddrImplicitAt(parts, 2)
      [] OTHER              -> readInetAddrAt(parts, 2)

\* The decoder of the vendor's table: arista and nokia skip an instance, juniper also
\* the local address.
decodeIndex(vendor, parts) ==
    CASE vendor = "cisco"   -> readInetAddrAt(parts, 1)
      [] vendor = "juniper" -> LET l == readInetAddrImplicitAt(parts, 2)
                               IN  IF l.ok THEN readInetAddrImplicitAt(parts, l.next) ELSE NoAddress
      [] OTHER              -> readInetAddrAt(parts, 2)

-----------------------------------------------------------------------------
(* what a device sends                                                     *)

IsAddress(ip) == ip \in Seq(0..255) /\ Len(ip) \in {4, 16}
Family(ip) == IF Len(ip) = 4 THEN 1 ELSE 2

\* The index ends with the address, and before it, from a place on, its family and length.
EndsWith(index, at, ip) ==
    /\ Len(index) = at + 1 + Len(ip) /\ index[at] = Family(ip) /\ index[at + 1] = Len(ip)
    /\ \A i \in 1..Len(ip) : index[at + 1 + i] = ip[i]

\* The same without the length, behind a local address of n octets.
EndsBoth(index, n, ip) ==
    /\ Len(index) = n + 3 + Len(ip) /\ index[n + 3] = Family(ip) /\ \A i \in 1..Len(ip) : index[n + 3 + i] = ip[i]
    /\ index[2] = (IF n = 4 THEN 1 ELSE 2) /\ \A i \in 3..(n + 2) : index[i] \in 0..255

\* The index of a peer by the vendor's MIB: cisco's is the address, the others start with
\* an instance, and juniper's holds both addresses.
IsIndexOf(vendor, ip, index) ==
    /\ index \in Seq(Nat)
    /\ \/ vendor = "cisco" /\ EndsWith(index, 1, ip)
       \/ vendor = "juniper" /\ \E n \in {4, 16} : EndsBoth(index, n, ip)
       \/ vendor \notin {"cisco", "juniper"} /\ EndsWith(index, 2, ip)

\* A vendor's table is empty or has a row of every peer, except that the index of some
\* row may not decode; bgpPeerTable has peers only.
ASSUME SpeakerAssumption ==
    \A s \in Speakers :
        /\ s.rfc \subseteq s.peers /\ \A p \in s.peers : IsAddress(p.ip)
        /\ \A r \in s.vendorRows :
             \/ ~decodeIndex(s.vendor, r.index).ok
             \/ \E p \in s.peers : r.state = p.state /\ IsIndexOf(s.vendor, p.ip, r.index)
        /\ \/ \E r \in s.vendorRows : ~decodeIndex(s.vendor, r.index).ok
           \/ s.vendorRows = {}
           \/ \A p \in s.peers : \E r \in s.vendorRows : r.state = p.state /\ IsIndexOf(s.vendor, p.ip, r.index)

-----------------------------------------------------------------------------
(* Walk                                                                    *)

Unspecified(ip) == \A i \in DOMAIN ip : ip[i] = 0
LinkLocal(ip) == IF Len(ip) = 4 THEN ip[1] = 169 /\ ip[2] = 254 ELSE ip[1] = 254 /\ ip[2] \in 128..191

\* buildPeerEdges: of the peers {[ip, state]}.
buildPeerEdges(peers) ==
    LET usable == {p.ip : p \in {x \in peers : /\ x.state = Established
                                               /\ ~Unspecified(x.ip) /\ ~LinkLocal(x.ip)}}
    IN  [edges |-> {ip \in usable : InScope(ip)}, oos |-> {ip \in usable : ~InScope(ip)}]

HasVendorTable == speaker.v2 /\ speaker.vendor \in {"cisco", "arista", "juniper", "nokia"}

\* No table for the vendor, or the kill switch.
NoVendorTable ==
    /\ bgpPc = "start" /\ ~HasVendorTable
    /\ bgpPc' = "fallback"
    /\ UNCHANGED <<speaker, outcomes, bgpResult, warned>>

\* The error is kept for the Warn after the fallback.
VendorWalkErrs ==
    /\ bgpPc = "start" /\ HasVendorTable
    /\ outcomes' = outcomes \cup {"vendor error"}
    /\ bgpPc' = "fallback"
    /\ UNCHANGED <<speaker, bgpResult, warned>>

Decoded(r) == decodeIndex(speaker.vendor, r.index)

\* One malformed_index for each row that the decoder rejects.
Malformed == IF \E r \in speaker.vendorRows : ~Decoded(r).ok THEN {"malformed_index"} ELSE {}

\* walkAndBuildVendorEdges: used alone as soon as one row decodes.
VendorWalk ==
    /\ bgpPc = "start" /\ HasVendorTable
    /\ LET peers == {[ip |-> Decoded(r).ip, state |-> r.state] :
                        r \in {x \in speaker.vendorRows : Decoded(x).ok}}
           built == buildPeerEdges(peers)
       IN  IF peers = {}
           THEN /\ outcomes' = outcomes \cup Malformed \cup
                     {IF speaker.vendorRows = {} THEN "vendor mib_unimplemented" ELSE "vendor walker_drift"}
                /\ bgpPc' = "fallback" /\ UNCHANGED bgpResult
           ELSE /\ outcomes' = outcomes \cup Malformed \cup
                     {IF built.edges # {} THEN "vendor edges" ELSE "vendor no_peers"}
                /\ bgpPc' = "returned" /\ bgpResult' = built
    /\ UNCHANGED <<speaker, warned>>

\* bgpPeerTable, always tried last; a stashed vendor error is promoted to a Warn.
FallbackWalk ==
    /\ bgpPc = "fallback"
    /\ LET built == buildPeerEdges(speaker.rfc) IN
       /\ bgpResult' = built
       /\ outcomes' = outcomes \cup
            {IF built.edges # {} THEN "edges" ELSE IF speaker.rfc # {} THEN "no_peers" ELSE "mib_unimplemented"}
    /\ warned' = ("vendor error" \in outcomes)
    /\ bgpPc' = "returned"
    /\ UNCHANGED speaker

FallbackErrs ==
    /\ bgpPc = "fallback"
    /\ outcomes' = outcomes \cup {"error"} /\ bgpPc' = "failed"
    /\ UNCHANGED <<speaker, bgpResult, warned>>

\* The next walk, of this speaker or another.
NextSpeaker ==
    /\ bgpPc \in {"returned", "failed"}
    /\ speaker' \in Speakers
    /\ bgpPc' = "start" /\ outcomes' = {} /\ bgpResult' = NoPeers /\ warned' = FALSE

BgpNext == NoVendorTable \/ VendorWalkErrs \/ VendorWalk \/ FallbackWalk \/ FallbackErrs \/ NextSpeaker
BgpSpec == BgpInit /\ [][BgpNext]_bgpVars

-----------------------------------------------------------------------------
\* Whatever form its vendor gives the index, every address a walk reports is that of an
\* established peer of the device, never the device's own.  A walk that returns leaves out
\* an established peer with a routable address only when a counter shows why: the peer's
\* row did not decode, or the vendor's table was not there and bgpPeerTable does not
\* know the peer.
PeersAreExact ==
    LET reported == bgpResult.edges \cup bgpResult.oos
    IN  /\ \A ip \in reported : \E p \in speaker.peers : p.ip = ip /\ p.state = Established
        /\ bgpPc = "returned" =>
             \A p \in speaker.peers :
                \/ p.state # Established \/ Unspecified(p.ip) \/ LinkLocal(p.ip) \/ p.ip \in reported
                \/ "malformed_index" \in outcomes
                \/ p \notin speaker.rfc /\ outcomes \cap {"edges", "no_peers", "mib_unimplemented"} # {}
=============================================================================
