-------------------------- MODULE AuthorityInvariant --------------------------
(***************************************************************************)
(* Why the proofs of readiness are sound: the inductive invariants behind  *)
(* BoundedStaleness and ReadyIsPublished.                                  *)
(***************************************************************************)
EXTENDS AuthorityConsumer

\* The water w includes the outbox row or page row e.
Includes(w, e) == e.inc < w.inc \/ (e.inc = w.inc /\ e.seq <= w.seq)

\* The water w includes every denial of session s.
Covers(w, s) == \A e \in outbox : e.session = s => Includes(w, e)

\* The outbox is a log: one row for a sequence, none past the source's water.
SourceIsLog ==
    /\ IsFiniteSet(outbox)
    /\ \A e \in outbox : Includes(source, e)
    /\ \A e, f \in outbox : e.inc = f.inc /\ e.seq = f.seq => e = f
    /\ \A s \in Session : denied_at[s] <= now

\* What a replica has applied, and its snapshot and page show, the source has
\* committed; and it dates nothing in the future.
FromThePast(r) ==
    /\ high_water[r].inc <= source.inc
    /\ high_water[r].inc = source.inc => high_water[r].seq <= source.seq
    /\ snap[r].water.inc <= source.inc
    /\ snap[r].water.inc = source.inc => snap[r].water.seq <= source.seq
    /\ \A p \in page[r] : Includes(source, p)
    /\ observed_at[r] <= now /\ last_probe[r] <= now

\* Whoever has applied every denial of a session knows until when it holds.
AppliedIsComplete(r) ==
    \A s \in Session :
        high_water[r] # NoWater /\ Covers(high_water[r], s) /\ denials[s] > now
            => denied[r][s] = denials[s]

SnapshotIsComplete(r) ==
    \A s \in Session :
        pc[r] = "load" /\ Covers(snap[r].water, s) /\ denials[s] > now
            => snap[r].denied[s] = denials[s]

\* A page goes on from the applied water and has every row from there to any of
\* its own rows, and the row that ends a session's denials carries the retention of now.
PageIsComplete(r) ==
    \A p \in page[r] :
        /\ pc[r] \in {"apply", "advance"}
        /\ p.inc = high_water[r].inc => high_water[r].seq <= p.seq
        /\ p.inc = high_water[r].inc =>
             \A e \in outbox :
                e.inc = p.inc /\ high_water[r].seq < e.seq /\ e.seq <= p.seq =>
                    \E q \in page[r] : q.inc = e.inc /\ q.seq = e.seq
        /\ \A e \in outbox :
             e.inc = p.inc /\ e.seq = p.seq => e.session = p.session
        /\ p.session \in Session /\ denials[p.session] > now
             /\ (\A e \in outbox : e.session = p.session => Includes(p, e))
             => p.retain_until = denials[p.session]

\* No proof is held while the applied water moves, and there is an applied
\* water wherever one is used.
Steady(r) ==
    /\ pc[r] \in {"observe", "snapshot", "load", "store", "replay", "apply",
                  "advance"}
         => last_probe[r] = NoProbe /\ mode[r] # "Ready"
    /\ pc[r] \in {"store", "probe", "highwater", "replay", "apply", "advance",
                  "publish", "mark"} => high_water[r].inc >= 1
    /\ pc[r] \in {"load", "store"} => snap[r].water.inc >= 1
    /\ last_probe[r] # NoProbe => high_water[r].inc >= 1
    /\ mode[r] = "Ready" => high_water[r].inc >= 1
    /\ retry[r] \/ required[r] \/ high_water[r].inc >= 1

NoProofWhileMoving == \A r \in Replica : Steady(r)

\* What was denied before the date of a proof is covered by the applied water.
ProofCovers(r) ==
    \A s \in Session :
        /\ denied_at[s] < last_probe[r] => Covers(high_water[r], s)
        /\ pc[r] \in {"publish", "mark"} /\ denied_at[s] < observed_at[r]
             => Covers(high_water[r], s)

Sound(r) ==
    /\ FromThePast(r)
    /\ AppliedIsComplete(r) /\ SnapshotIsComplete(r) /\ PageIsComplete(r)
    /\ ProofCovers(r)

\* The inductive invariant behind BoundedStaleness.
StalenessInv ==
    /\ TypeOK /\ SourceIsLog /\ NoProofWhileMoving
    /\ \A r \in Replica : Sound(r)

\* The fence has reached the water w, or has left its namespace for good.
Published(w) ==
    \/ fence.inc = w.inc /\ NotBehind(fence, w)
    \/ w.inc \in superseded

\* The inductive invariant behind ReadyIsPublished.
PublishedInv ==
    /\ TypeOK
    /\ NoProofWhileMoving
    /\ \A r \in Replica :
        mode[r] = "Ready" \/ pc[r] = "mark" => Published(high_water[r])

=============================================================================
