--------------------------- MODULE KindnessListing ---------------------------
(* One listing of apps/kindness_wall: its life cycle under the admins'      *)
(* requests, each of which loads the row before it saves, and the beat task *)
(* that expires due listings in bulk.                                       *)
EXTENDS Naturals

CONSTANTS
    Admins,             \* requests of admins
    listing_ttl_days,
    MaxDays             \* bound: days that pass

ASSUME ListingAssumption == listing_ttl_days \in Nat \ {0} /\ MaxDays \in Nat

ListingStatus == {"draft", "published", "fulfilled", "expired", "archived"}
NoDeadline == 0

\* What an admin may type into expires_at: nothing, or any day.
Deadlines == {NoDeadline} \cup 1..MaxDays + listing_ttl_days

ListingRows == [status : ListingStatus, expires_at : Deadlines]

VARIABLES
    day,                \* today, from 1
    listing,            \* [status, expires_at]
    a_pc, a_copy,       \* an admin's request and the row it loaded
    x_due               \* the expiry task has selected the listing

listingVars == <<day, listing, a_pc, a_copy, x_due>>

Draft_ == [status |-> "draft", expires_at |-> NoDeadline]

\* The API creates a draft, with any deadline.
ListingInit ==
    /\ day = 1 /\ listing \in [status : {"draft"}, expires_at : Deadlines]
    /\ a_pc = [a \in Admins |-> "idle"] /\ a_copy = [a \in Admins |-> Draft_]
    /\ x_due = FALSE

-----------------------------------------------------------------------------
LoadListing(a) ==
    /\ a_pc[a] = "idle"
    /\ a_pc' = [a_pc EXCEPT ![a] = "loaded"] /\ a_copy' = [a_copy EXCEPT ![a] = listing]
    /\ UNCHANGED <<day, listing, x_due>>

Answer(a) ==
    /\ a_pc' = [a_pc EXCEPT ![a] = "idle"] /\ a_copy' = [a_copy EXCEPT ![a] = Draft_]
    /\ UNCHANGED <<day, x_due>>

\* A deadline that is missing or past is renewed.
publish_listing(a) ==
    /\ a_pc[a] = "loaded"
    /\ listing' = [status |-> "published",
                   expires_at |-> IF a_copy[a].expires_at <= day THEN day + listing_ttl_days
                                  ELSE a_copy[a].expires_at]
    /\ Answer(a)

\* The loaded status decides whether renewing and fulfilling are allowed.
renew_listing(a) ==
    /\ a_pc[a] = "loaded" /\ a_copy[a].status \in {"published", "expired"}
    /\ listing' = [status |-> "published", expires_at |-> day + listing_ttl_days]
    /\ Answer(a)

SetStatus(a, status) ==
    /\ listing' = [listing EXCEPT !.status = status] /\ Answer(a)

fulfill_listing(a) ==
    /\ a_pc[a] = "loaded" /\ a_copy[a].status \in {"published", "expired"}
    /\ SetStatus(a, "fulfilled")

archive_listing(a) == a_pc[a] = "loaded" /\ SetStatus(a, "archived")

revert_to_draft(a) == a_pc[a] = "loaded" /\ SetStatus(a, "draft")

\* PATCH: serializer.save() writes every column of the loaded row, and the deadline if
\* it was sent.
PatchListing(a) ==
    /\ a_pc[a] = "loaded"
    /\ \E deadline \in Deadlines : listing' = [a_copy[a] EXCEPT !.expires_at = deadline]
    /\ Answer(a)

\* The panel's form sends the status and the deadline it shows, changed or not.
PanelSave(a) ==
    /\ a_pc[a] = "loaded"
    /\ listing' \in ListingRows
    /\ Answer(a)

\* A state error, a listing that is not complete, or input that is not valid.
RefuseRequest(a) ==
    /\ a_pc[a] = "loaded"
    /\ UNCHANGED listing /\ Answer(a)

\* Past its deadline, if it has one.
IsDue == listing.status = "published" /\ listing.expires_at \in 1..day

\* The first query of expire_due_listings.
SelectDue ==
    /\ ~x_due /\ IsDue
    /\ x_due' = TRUE
    /\ UNCHANGED <<day, listing, a_pc, a_copy>>

\* Mutant: the update is forgotten after the ids were collected.
SelectsOnly ==
    /\ x_due /\ x_due' = FALSE
    /\ UNCHANGED <<day, listing, a_pc, a_copy>>

\* The second one updates the selected rows, whatever they have become.
expire_due_listings ==
    /\ x_due /\ x_due' = FALSE
    /\ listing' = [listing EXCEPT !.status = "expired"]
    /\ UNCHANGED <<day, a_pc, a_copy>>

\* A worker is lost between the two queries; the task runs again.
ExpiryLost == x_due /\ x_due' = FALSE /\ UNCHANGED <<day, listing, a_pc, a_copy>>

DayPasses == day < MaxDays /\ day' = day + 1 /\ UNCHANGED <<listing, a_pc, a_copy, x_due>>

ListingNext ==
    \/ \E a \in Admins :
         \/ LoadListing(a) \/ publish_listing(a) \/ renew_listing(a) \/ fulfill_listing(a)
         \/ archive_listing(a) \/ revert_to_draft(a) \/ PatchListing(a) \/ PanelSave(a)
         \/ RefuseRequest(a)
    \/ SelectDue \/ expire_due_listings \/ ExpiryLost \/ DayPasses

\* Beat runs the task daily, and a task is not lost for ever.
ListingFairness == WF_listingVars(SelectDue) /\ SF_listingVars(expire_due_listings)

ListingSpec == ListingInit /\ [][ListingNext]_listingVars /\ ListingFairness

-----------------------------------------------------------------------------
\* The row and the copies of it keep the types of their columns.
ListingTypeOK ==
    /\ listing \in ListingRows /\ a_copy \in [Admins -> ListingRows]
    /\ day \in 1..MaxDays \/ day = 1
    /\ \A a \in Admins : a_pc[a] = "idle" => a_copy[a] = Draft_

\* A listing past its deadline does not stay on the board, whatever requests and
\* lost tasks intervene (expire_due_listings, expire_old_listings_task).
DueListingsLeave == IsDue ~> ~IsDue

\* Not kept: the task expires "current listings past expires_at" (docstring of
\* expire_due_listings). The second query does not look at what it updates, so a
\* listing that was renewed or fulfilled since the first one is expired.
OnlyDueListingsExpire == [][expire_due_listings => IsDue]_listingVars
=============================================================================
