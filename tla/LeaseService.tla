---------------------------- MODULE LeaseService ----------------------------
(***************************************************************************)
(* What a DHCP server promises about bindings, without messages, queues or *)
(* files: a book with one binding per client, in which a binding changes   *)
(* while the service is open only, by a message of the client it belongs   *)
(* to, or because it has expired.  One distinguished entry, Parked, holds  *)
(* an address taken out of service.                                        *)
(*                                                                         *)
(* Closing keeps the book, opening again brings it back.  A failure while  *)
(* the service is open brings back the book as it was last kept; one while *)
(* it is closing loses some of it and makes nothing up.                    *)
(***************************************************************************)
EXTENDS Integers

CONSTANTS Client, Parked, Address, NoBinding, Holds, Never, NoClient

VARIABLES
  book,
  kept,     \* the book as it was, or is being, written down
  clock,
  status,   \* "open", "closing", "closed", or "down" after a failure
  sender    \* the client whose message was handled in the last step, or NoClient

svars == <<book, kept, clock, status, sender>>

Binding == [ip : Address, exp : Nat]
Book == [Client -> Binding \cup {NoBinding}]

\* What is left of a binding after a purge, which may drop it once it has expired.
Purged(b) == {b} \cup (IF b # NoBinding /\ b.exp <= clock THEN {NoBinding} ELSE {})

OnlyExpire(C) == \A c \in C : book'[c] \in Purged(book[c])

\* A message of client c: it obtains, renews, moves or gives up its own binding, or is
\* refused; time may pass meanwhile.
Serve(c) ==
  /\ status = "open"
  /\ sender' = c
  /\ book' \in Book
  /\ clock' \in Nat /\ clock' >= clock
  /\ OnlyExpire(Client \ {c})
  /\ \/ book'[c] = NoBinding
     \/ book'[c] = book[c]
     \/ \E a \in Address, h \in Holds : book'[c] = [ip |-> a, exp |-> clock' + h]
  /\ UNCHANGED <<kept, status>>

\* A client's message takes an address out of service.
Park ==
  /\ status = "open"
  /\ sender' \in Client
  /\ \E a \in Address : book' = [book EXCEPT ![Parked] = [ip |-> a, exp |-> Never]]
  /\ UNCHANGED <<kept, clock, status>>

\* The book is purged and set down to be kept.
Close ==
  /\ status = "open" /\ status' = "closing"
  /\ sender' = NoClient
  /\ book' \in Book /\ OnlyExpire(Client)
  /\ kept' = book'
  /\ UNCHANGED clock

Closed ==
  /\ status = "closing" /\ status' = "closed"
  /\ sender' = NoClient
  /\ UNCHANGED <<book, kept, clock>>

\* After a clean stop or a failure.
Open ==
  /\ status \in {"closed", "down"} /\ status' = "open"
  /\ sender' = NoClient
  /\ book' \in Book /\ OnlyExpire(Client)
  /\ UNCHANGED <<kept, clock>>

\* What a failure while the book is being written leaves of a client's binding b.  The
\* end of the parked address may come out earlier.
Remains(c, b) ==
  \/ b = NoBinding
  \/ b = kept[c]
  \/ /\ c = Parked /\ kept[c] # NoBinding
     /\ b.ip = kept[c].ip /\ b.exp <= kept[c].exp

Fail ==
  /\ status' = "down"
  /\ sender' \in Client \cup {NoClient}
  /\ book' \in Book
  /\ \/ status = "open" /\ book' = kept
     \/ status = "closing" /\ \A c \in Client : Remains(c, book'[c])
  /\ kept' = book'
  /\ UNCHANGED clock

\* Nothing happens to the book; the clock may advance.
Pass ==
  /\ sender' = NoClient
  /\ clock' \in Nat /\ clock' >= clock
  /\ UNCHANGED <<book, kept, status>>

Init ==
  /\ book = [c \in Client |-> NoBinding] /\ kept = book
  /\ clock \in Nat
  /\ status = "closed"
  /\ sender = NoClient

Next ==
  \/ \E c \in Client : Serve(c)
  \/ Park \/ Close \/ Closed \/ Open \/ Fail \/ Pass

Spec == Init /\ [][Next]_svars
=============================================================================
