---------------------------- MODULE KeyRegistry ----------------------------
(***************************************************************************)
(* The registry of client keys as a value: what the commands of            *)
(* manage_client_api_keys.py make of it and what api_keys.py reads in it.  *)
(*                                                                         *)
(* A registry is the list of its entries, oldest first.  A raw key is a    *)
(* number, fresh for every entry (secrets.token_urlsafe).                  *)
(***************************************************************************)
EXTENDS Naturals, Sequences

CONSTANT KeyIds

Roles == {"submitter", "viewer"}

\* The tenant of an entry is left out: it goes with the entry.
Entry == [id : KeyIds, key : Nat, role : Roles, status : {"active", "revoked"}]

\* issue: nothing asks whether the id is taken.
Issue(reg, id, key, role) ==
  Append(reg, [id |-> id, key |-> key, role |-> role, status |-> "active"])

\* The commands stop at the first entry with the id.
IsFirst(reg, i, id) == reg[i].id = id /\ \A j \in 1..(i - 1) : reg[j].id # id
Known(reg, id) == \E i \in 1..Len(reg) : reg[i].id = id
First(reg, id) == CHOOSE i \in 1..Len(reg) : IsFirst(reg, i, id)

\* A fault: a status that nobody knows.
RevokeUnknown(reg, id) == [reg EXCEPT ![First(reg, id)].status = "inactive"]

Revoke(reg, id) == [reg EXCEPT ![First(reg, id)].status = "revoked"]

\* A fault: the old entry is left active.
RotateBeside(reg, id, newId, key) ==
  Append(reg, [reg[First(reg, id)] EXCEPT !.id = newId, !.key = key, !.status = "active"])

\* The replacement is a copy of the entry with an id and a key of its own.
Rotate(reg, id, newId, key) ==
  Append(Revoke(reg, id),
         [reg[First(reg, id)] EXCEPT !.id = newId, !.key = key, !.status = "active"])

\* The entries a bearer token matches; there is one at most, keys being fresh.
Matches(reg, token) == {i \in 1..Len(reg) : reg[i].key = token}

\* The scope tasks.write comes with the role.
Allows(entry) == entry.status = "active" /\ entry.role = "submitter"
=============================================================================
