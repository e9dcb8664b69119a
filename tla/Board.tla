------------------------------- MODULE Board --------------------------------
(***************************************************************************)
(* What the server promises to whoever looks at its pages: runs appear in  *)
(* the order in which they were asked, each is settled once, by a          *)
(* prediction and the replies it was made from, and what is settled stays  *)
(* as it is.  Only the deletion of the database empties the board, which   *)
(* is then filled again.                                                   *)
(***************************************************************************)
EXTENDS Integers

VARIABLES
    posted,     \* the runs that are shown, by the ordinals of their queries
    settled     \* run -> the replies shown with its prediction

bvars == <<posted, settled>>

Empty == [i \in {} |-> {}]

Init == posted = {} /\ settled = Empty

Post ==
    /\ \E q \in posted' \ posted : posted' = posted \cup {q} /\ \A i \in posted : i < q
    /\ UNCHANGED settled

Disjoint(replies) == \A i \in DOMAIN settled : settled[i] \cap replies = {}

\* A run is settled with replies that no other settled run shows, all of them
\* said after its query.
Settle ==
    /\ \E i \in DOMAIN settled' :
          /\ i \in posted \ DOMAIN settled
          /\ DOMAIN settled' = DOMAIN settled \cup {i}
          /\ \A k \in DOMAIN settled : settled'[k] = settled[k]
          /\ settled'[i] # {}
          /\ Disjoint(settled'[i])
          /\ \A r \in settled'[i] : i < r
    /\ UNCHANGED posted

Erase == posted' = {} /\ settled' = Empty

Next == Post \/ Settle \/ Erase

Spec == Init /\ [][Next]_bvars

=============================================================================
