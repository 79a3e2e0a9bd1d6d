------------------------------ MODULE Mailbox -------------------------------
(***************************************************************************)
(* What the recipient of an inbox is promised, whoever keeps the items and *)
(* however they are fetched: items are deposited and expire; reading takes *)
(* time and may be given up; an item is handed over once, in the order of  *)
(* its deposit, and only if it had not expired when the reading began; and *)
(* a reading that ends well has handed over everything that had been       *)
(* deposited when it began and has not expired when it ends.               *)
(***************************************************************************)
EXTENDS Integers, Sequences

VARIABLES
    clock,
    deposits,   \* expiry times of the items, in order of deposit
    reading,    \* "no", "open" or "ended"
    handed,     \* positions of the items handed over, batch by batch
    due,        \* how many items had been deposited when the reading began
    began       \* when it began

vars == <<clock, deposits, reading, handed, due, began>>

Init ==
    /\ clock = 0 /\ deposits = <<>>
    /\ reading = "no" /\ handed = <<>> /\ due = 0 /\ began = 0

Age ==
    /\ clock' > clock
    /\ UNCHANGED <<deposits, reading, handed, due, began>>

Deposit ==
    /\ DOMAIN deposits' = 1 .. Len(deposits) + 1
    /\ \A n \in DOMAIN deposits : deposits'[n] = deposits[n]
    /\ deposits'[Len(deposits) + 1] > clock
    /\ UNCHANGED <<clock, reading, handed, due, began>>

Open ==
    /\ reading # "open"
    /\ reading' = "open" /\ handed' = <<>>
    /\ due' = Len(deposits) /\ began' = clock
    /\ UNCHANGED <<clock, deposits>>

Handed == UNION {handed[k] : k \in DOMAIN handed}

(* Some items later than all before; the last of them may end the reading. *)
HandOver ==
    /\ reading = "open"
    /\ \E more \in SUBSET DOMAIN deposits :
          /\ \A n \in more : deposits[n] > began /\ \A m \in Handed : m < n
          /\ handed' = Append(handed, more)
    /\ \/ reading' = "open"
       \/ /\ reading' = "ended"
          /\ \A n \in 1 .. due : deposits[n] > clock => n \in Handed'
    /\ UNCHANGED <<clock, deposits, due, began>>

GiveUp ==
    /\ reading = "open"
    /\ reading' = "no" /\ handed' = <<>>
    /\ UNCHANGED <<clock, deposits, due, began>>

Next == Age \/ Deposit \/ Open \/ HandOver \/ GiveUp

Spec == Init /\ [][Next]_vars
=============================================================================
