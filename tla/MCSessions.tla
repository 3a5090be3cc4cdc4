----------------------------- MODULE MCSessions -----------------------------
(* Sessions on a small instance: requests, tokens and families are            *)
(* interchangeable, so their permutations are a symmetry.                     *)
EXTENDS Sessions, FiniteSets, TLC

Symmetry ==
    Permutations(Jti) \cup Permutations(Family) \cup Permutations(Proc)

\* The locals a request still reads in its phase.
Read(p) ==
    CASE pc[p] \in {"get", "logoutGet"} -> <<tok[p], since[p]>>
      [] pc[p] = "family" -> <<tok[p], since[p], row[p]>>
      [] pc[p] = "decide" -> <<tok[p], since[p], row[p], familyActive[p]>>
      [] pc[p] \in {"revoke", "create"} -> <<tok[p], since[p], row[p].family>>
      [] pc[p] \in {"endFamily", "logoutRevoke"} -> <<row[p].family>>
      [] pc[p] = "sign" -> <<minted[p]>>
      [] OTHER -> <<>>

\* Nothing depends on the answers already given, nor on a local that is not
\* read again: states that differ only in them are explored once.
View == <<now, table, pc, [p \in Proc |-> Read(p)]>>

\* Either one session, of three tokens while none can have expired and of two
\* after that, or two sessions of one token each, for as long as both may be live.
\* The states that break this are checked, and not explored any further.
FewTokens ==
    LET begun == {issued[j].family : j \in DOMAIN issued} IN
    /\ Cardinality(begun) = 2 => Cardinality(DOMAIN issued) = 2 /\ now < RefreshTokenExpiry
    /\ Cardinality(DOMAIN issued) = 3 => now < RefreshTokenExpiry

=============================================================================
