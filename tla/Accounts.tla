------------------------------ MODULE Accounts ------------------------------
(***************************************************************************)
(* The accounts file, res/client/users.data, which every client maps and   *)
(* adds the users it registers to.                                         *)
(*                                                                         *)
(* fcntl is told to lock the file without waiting and its answer is not    *)
(* looked at, so the lock keeps nobody out and is not modelled.            *)
(***************************************************************************)
EXTENDS Integers, FiniteSetsExt, SequencesExt

CONSTANTS
  Clients,      \* the client processes
  Earlier,      \* the users in the file when they start, in order
  IdMax         \* the accounts the file has room for

ASSUME AccountsAssumption ==
  /\ IdMax \in Nat \ {0}
  /\ Earlier \in Seq([id : 1..2047, pseudo : 0..255]) /\ Len(Earlier) <= IdMax

VARIABLES
  accounts,     \* the file
  adding,       \* what each client adds, where, and whether half is written
  stored,       \* the accounts add_account reported as added
  raced         \* two clients have added at the same time

accountVars == <<accounts, adding, stored, raced>>

NoUser == [id |-> 0, pseudo |-> 0]
NotAdding == [user |-> NoUser, place |-> 0, half |-> FALSE]

(* get_nb_accounts: the file is read up to the first free place. *)
SlipNbAccounts ==               \* the last account is counted out
  Max({0} \cup {i \in 0..(IdMax - 1) :
                   \A j \in 1..(i + 1) : accounts[j].id # 0})
NbAccounts == Max({i \in 0..IdMax : \A j \in 1..i : accounts[j].id # 0})

AccountIds == {accounts[i].id : i \in 1..NbAccounts}

(* add_account *)
FindPlace(c, id, pseudo) ==
  /\ adding' = [adding EXCEPT ![c] =
                  [user |-> [id |-> id, pseudo |-> pseudo],
                   place |-> NbAccounts + 1, half |-> FALSE]]
  /\ raced' = (raced \/ \E d \in Clients : adding[d] # NotAdding)
  /\ UNCHANGED <<accounts, stored>>

(* The copy of a User is not one access: two clients with the same place   *)
(* may leave the id of one and the pseudo of the other.                    *)
HasPlace(c) == adding[c].place \in 1..IdMax

WriteId(c) ==
  /\ HasPlace(c) /\ ~ adding[c].half
  /\ accounts' = [accounts EXCEPT ![adding[c].place].id = adding[c].user.id]
  /\ adding' = [adding EXCEPT ![c].half = TRUE]
  /\ UNCHANGED <<stored, raced>>

WritePseudo(c) ==
  /\ HasPlace(c) /\ adding[c].half
  /\ accounts' = [accounts EXCEPT ![adding[c].place].pseudo =
                                     adding[c].user.pseudo]
  /\ stored' = stored \cup {adding[c].user}
  /\ adding' = [adding EXCEPT ![c] = NotAdding]
  /\ UNCHANGED raced

FileFull(c) ==
  /\ adding[c] # NotAdding /\ ~ HasPlace(c)
  /\ adding' = [adding EXCEPT ![c] = NotAdding]
  /\ UNCHANGED <<accounts, stored, raced>>

(* load_accounts maps the file, or makes an empty one. *)
AccountsInit ==
  /\ accounts = [i \in 1..IdMax |-> IF i \in DOMAIN Earlier THEN Earlier[i]
                                    ELSE NoUser]
  /\ adding = [c \in Clients |-> NotAdding]
  /\ stored = Range(Earlier) /\ raced = FALSE
=============================================================================
