----------------------------- MODULE MCDIDPublish -----------------------------
EXTENDS DIDPublish, TLC

Symmetry == Permutations(Stores) \cup Permutations(Slots)

\* Races only: what two stores need to create, edit, publish and synchronize a
\* DID, without force, overwriting, deactivation and crashes; a submission may be
\* reported to have failed, with the transaction in the pool or without.  Fewer
\* steps allow larger bounds: two updates wait in the pool on top of the same
\* version.
RaceNext ==
    \/ \E h \in Handles :
          \/ NewDID(h, FALSE, TRUE)
          \/ EditSeal(h)
          \/ LoadDID(h)
          \/ PublishCheck(h, FALSE)
    \/ \E s \in Stores :
          \/ \E ok \in BOOLEAN : PublishSubmit(s, ok)
          \/ SyncTakeChain(s)
    \/ ChainStep

RaceSpec == Init /\ [][RaceNext]_vars

================================================================================
