----------------------------- MODULE Catalogue ------------------------------
(***************************************************************************)
(* What the inventory API promises a client, one request at a time: a      *)
(* request changes the columns it names of the resources it names, at      *)
(* once, and leaves every other column and resource as it is.  Nothing is  *)
(* promised any more of an item for which two requests have overlapped.    *)
(***************************************************************************)
EXTENDS Sequences

CONSTANTS Items, Absent, Mixed, Amendments, Entries

VARIABLE shelf   \* the entry of an item, Absent, or Mixed

Present(S) == \A i \in S : shelf[i] \notin {Absent, Mixed}

\* An entry with the columns of p changed.
Over(p, entry) ==
  [c \in DOMAIN p \cup DOMAIN entry |-> IF c \in DOMAIN p THEN p[c] ELSE entry[c]]

Put(i, entry) == shelf[i] = Absent /\ shelf' = [shelf EXCEPT ![i] = entry]

Amend(f) ==
  /\ Present(DOMAIN f)
  /\ shelf' = [i \in Items |-> IF i \in DOMAIN f THEN Over(f[i], shelf[i]) ELSE shelf[i]]

\* Items of S become inactive, requests for those of T begin to overlap.
Withdraw(S, T) ==
  /\ Present(S)
  /\ shelf' = [i \in Items |-> IF i \in T THEN Mixed
                               ELSE IF i \in S THEN [shelf[i] EXCEPT !.active = FALSE]
                               ELSE shelf[i]]

Fingerprint(i) ==
  /\ Present({i})
  /\ shelf' = [shelf EXCEPT ![i] = [@ EXCEPT !.checksum = shelf'[i].checksum]]

\* Tags are added behind those an item has.
Label(i) ==
  /\ Present({i})
  /\ shelf'[i].tags # <<>>
  /\ SubSeq(shelf'[i].tags, 1, Len(shelf[i].tags)) = shelf[i].tags
  /\ shelf' = [shelf EXCEPT ![i] = [@ EXCEPT !.tags = shelf'[i].tags]]

CInit == shelf = [i \in Items |-> Absent]

CNext ==
  \/ \E i \in Items, entry \in Entries : Put(i, entry)
  \/ \E S \in SUBSET Items :
       \/ \E T \in SUBSET Items : Withdraw(S, T)
       \/ \E f \in [S -> Amendments] : Amend(f)
  \/ \E i \in Items : Fingerprint(i) \/ Label(i)

CSpec == CInit /\ [][CNext]_shelf
=============================================================================
