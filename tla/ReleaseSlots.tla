---------------------------- MODULE ReleaseSlots ----------------------------
(***************************************************************************)
(* What the installation ledger promises about the releases of an          *)
(* installation, without disk, lock, statuses or crashes: an installation  *)
(* has an active release, at most one release waiting to become active and *)
(* at most one to go back to, and each operation changes them in one step. *)
(* An uninstall is final or is taken back as a whole, and until that is    *)
(* settled nothing else changes.                                           *)
(***************************************************************************)
CONSTANTS Installations, AllReleases, None

VARIABLES
  slots,    \* installation -> its releases
  leaving   \* the installation just uninstalled, while that can be undone

slotVars == <<slots, leaving>>

Has(a, w, b) == [active |-> a, pending |-> w, previous |-> b]

With(i, s)    == [j \in DOMAIN slots \cup {i} |-> IF j = i THEN s ELSE slots[j]]
Without(S)    == [j \in DOMAIN slots \ S |-> slots[j]]

SlotInit ==
  /\ slots = [i \in {} |-> {}]
  /\ leaving = {}

\* Nothing is being uninstalled.
Settled == leaving = {} /\ leaving' = {}

\* A first installation.
Add(i, r) ==
  /\ Settled
  /\ i \notin DOMAIN slots
  /\ slots' = With(i, Has(r, None, None))

\* An update waits; only one can, and never the active release again.
Stage(i, r) ==
  /\ Settled
  /\ slots[i].pending = None
  /\ r # slots[i].active
  /\ slots' = With(i, Has(slots[i].active, r, slots[i].previous))

\* A bundled update takes effect at once; the old release is the way back.
Supersede(i, r) ==
  /\ Settled
  /\ r \notin {slots[i].active, slots[i].pending}
  /\ slots' = With(i, Has(r, slots[i].pending, slots[i].active))

Promote(i) ==
  /\ Settled
  /\ slots[i].pending # None
  /\ slots' = With(i, Has(slots[i].pending, None, slots[i].active))

Discard(i) ==
  /\ Settled
  /\ slots[i].pending # None
  /\ slots' = With(i, Has(slots[i].active, None, slots[i].previous))

\* Going back keeps the way forward, and drops what was waiting.
SwapBack(i) ==
  /\ Settled
  /\ slots[i].previous # None
  /\ slots' = With(i, Has(slots[i].previous, None, slots[i].active))

\* A development directory takes the place of all releases.
Rebind(i, d) ==
  /\ Settled
  /\ slots' = With(i, Has(d, None, None))

Remove(S) ==
  /\ Settled
  /\ slots' = Without(S)

Uninstall(i) ==
  /\ leaving = {}
  /\ leaving' = {<<i, slots[i]>>}
  /\ slots' = Without({i})

Settle ==
  /\ leaving' = {}
  /\ UNCHANGED slots

ComeBack ==
  /\ leaving' = {}
  /\ \E l \in leaving : slots' = With(l[1], l[2])

SlotNext ==
  \/ \E i \in Installations, r \in AllReleases : Add(i, r)
  \/ \E i \in DOMAIN slots :
       \/ Promote(i) \/ Discard(i) \/ SwapBack(i) \/ Uninstall(i)
       \/ \E r \in AllReleases : Stage(i, r) \/ Supersede(i, r) \/ Rebind(i, r)
  \/ \E S \in SUBSET DOMAIN slots : Remove(S)
  \/ Settle
  \/ ComeBack

SlotSpec == SlotInit /\ [][SlotNext]_slotVars

=============================================================================
