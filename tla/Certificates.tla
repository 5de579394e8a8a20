---------------------------- MODULE Certificates ----------------------------
(***************************************************************************)
(* security/certificates: VerifiedPeer and VerifyIssued.                   *)
(*                                                                         *)
(* A certificate is [name, key, issuer : name, serial : Int, from, until : *)
(* Nat, usages : set, hosts : set, identities : Nat]; its record stands    *)
(* for its DER.  Parsing, encoding and digests are one to one.  Options    *)
(* are [now, usage, host]: now = 0 is the zero time, host = "none" no      *)
(* DNSName.  crypto/x509 and crypto/tls are external.                      *)
(***************************************************************************)
EXTENDS Naturals, Integers, FiniteSets, Sequences

CONSTANTS
    NoCertificate,   \* nil
    MaxIdentities    \* maxIdentities

ValidOptions(o) ==
    /\ o.now # 0
    /\ o.usage \in {"client", "server"}
    /\ o.usage = "server" => o.host # "none"

\* Slip: the end of the validity is not looked at.
ValidLeafForGood(c, o) ==
    /\ c.serial > 0
    /\ c.from <= o.now
    /\ o.usage \in c.usages
    /\ o.host = "none" \/ o.host \in c.hosts

ValidLeaf(c, o) ==
    /\ c.serial > 0
    /\ o.now \in c.from..c.until
    /\ o.usage \in c.usages
    /\ o.host = "none" \/ o.host \in c.hosts

\* metadata refuses a certificate with too many identities.
Described(c) == c.identities <= MaxIdentities

\* Evidence of a handshake: the leaf the peer sent, the first verified chain.
VerifiedPeer(state, o) ==
    /\ ValidOptions(o)
    /\ state.peer # NoCertificate
    /\ state.chain # <<>>
    /\ state.peer = state.chain[1]
    /\ ValidLeaf(state.peer, o)
    /\ Described(state.peer)

-----------------------------------------------------------------------------
(* x509.Certificate.Verify (external) *)

Signed(c, issuer) == c.issuer = issuer.name

InDate(c, now) == now \in c.from..c.until

\* Chains of a leaf with at most two intermediates, up to a root of the pool.
Chains(leaf, roots, intermediates, now) ==
    LET Usable(chain) ==
            /\ \A i \in DOMAIN chain : InDate(chain[i], now)
            /\ \A i \in 1..(Len(chain) - 1) : Signed(chain[i], chain[i + 1])
    IN  {chain \in {<<leaf, r>> : r \in roots}
                     \cup {<<leaf, i, r>> : i \in intermediates, r \in roots}
                     \cup {<<leaf, i, j, r>> : i, j \in intermediates, r \in roots} : Usable(chain)}

-----------------------------------------------------------------------------

\* The pin, if there is one, ends some verified chain.
PinMatches(pin, chains) == pin = NoCertificate \/ \E chain \in chains : chain[Len(chain)] = pin

VerifyIssued(leaf, o) ==
    /\ ValidOptions(o)
    /\ leaf # NoCertificate
    /\ ValidLeaf(leaf, o)
    /\ leaf.key = o.expectedKey
    /\ LET chains == Chains(leaf, o.roots, o.intermediates, o.now)
       IN  chains # {} /\ PinMatches(o.pin, chains)
    /\ Described(leaf)
=============================================================================
