------------------------ MODULE MadadkarCampaignAdmin ------------------------
(***************************************************************************)
(* The campaign of MadadkarFunding together with the admins who edit its   *)
(* row: the PATCH and DELETE views (update_campaign, delete_campaign) and  *)
(* the change form of the Django panel.  None of them locks the row: each  *)
(* loads an object, decides on it, and writes columns of it later.         *)
(***************************************************************************)
EXTENDS MadadkarFunding

CONSTANTS
  TotalAmount,   \* total_amount of the campaign, which these edits keep
  ShareTotals,   \* the values an admin may give total_shares
  MaxEdits       \* edits in flight at a time

ASSUME AmountBounds ==
  /\ TotalAmount \in Nat
  /\ MaxEdits \in Nat
  /\ TotalShares \in ShareTotals
  /\ ShareTotals \subseteq 1..MAXIMUM_TOTAL_SHARES

VARIABLES
  share_price,   \* Campaign.share_price
  edits          \* objects loaded by admin edits: [op, row, checked]

adminVars == <<vars, share_price, edits>>

\* What an edit changes: total_shares, a text field, is_visible, the deadline
\* (to a later date, or none), is_active.
EditOps == {"resize", "retitle", "hide", "extend", "undate", "delete"}

Edits == [op : EditOps \cup {"panel"}, row : Campaigns, checked : BOOLEAN]

\* save() of the model recomputes the price from the object it saves.
SharePrice(total_shares) == TotalAmount \div total_shares

AdminInit ==
  /\ Init
  /\ share_price = SharePrice(TotalShares)
  /\ edits = {}

AdminUnchanged ==
  UNCHANGED <<rowVars, fundingVars, captured, localVars>>

\* get_admin_campaign_by_id, or the panel's get_object.
LoadForEdit(op) ==
  /\ Cardinality(edits) < MaxEdits
  /\ campaign.is_active
  /\ edits' = edits \cup {[op |-> op, row |-> campaign, checked |-> FALSE]}
  /\ UNCHANGED <<campaign, share_price>>
  /\ AdminUnchanged

_has_paid_participations ==
  \E p \in Participations : participation[p] = "paid"

\* The rules of update_campaign and delete_campaign, on the loaded object:
\* terminal campaigns keep all but the always-editable fields, total_shares is
\* locked once a participation is paid and so is the deadline's removal, only
\* drafts are deleted.
IsTerminal(c) == c.status \in {"completed", "closed"}

EditAllowed(e) ==
  /\ e.op \in {"resize", "extend", "undate"} => ~IsTerminal(e.row)
  /\ _has_paid_participations =>
       /\ e.op # "resize"
       /\ e.op = "undate" => e.row.deadline = None
  /\ e.op = "delete" => e.row.status = "draft"

CheckEdit(e) ==
  /\ e \in edits
  /\ e.op # "panel"
  /\ ~e.checked
  /\ edits' = (edits \ {e}) \cup
                (IF EditAllowed(e) THEN {[e EXCEPT !.checked = TRUE]} ELSE {})
  /\ UNCHANGED <<campaign, share_price>>
  /\ AdminUnchanged

\* save(update_fields=[..., "share_price"]): the edited columns and the price
\* computed from the loaded object.
SaveRow(row, price) ==
  /\ PurchasedLteTotal(row)
  /\ campaign' = row
  /\ share_price' = price

\* Mutant: save() without update_fields writes the loaded object.
LoadedRow(e) ==
  CASE e.op = "hide" -> [e.row EXCEPT !.is_visible = ~e.row.is_visible]
    [] e.op = "extend" -> [e.row EXCEPT !.deadline = "future"]
    [] e.op = "undate" -> [e.row EXCEPT !.deadline = None]
    [] OTHER -> e.row

\* The columns of update_fields are written over the present row.
EditedRow(e) ==
  CASE e.op = "hide" -> [campaign EXCEPT !.is_visible = ~e.row.is_visible]
    [] e.op = "extend" -> [campaign EXCEPT !.deadline = "future"]
    [] e.op = "undate" -> [campaign EXCEPT !.deadline = None]
    [] OTHER -> campaign

update_campaign(e) ==
  \/ /\ e.op = "resize"
     /\ \E n \in ShareTotals :
          /\ TotalAmount % n = 0
          /\ SaveRow([campaign EXCEPT !.total_shares = n], SharePrice(n))
  \/ /\ e.op \in {"retitle", "hide", "extend", "undate"}
     /\ SaveRow(EditedRow(e), SharePrice(e.row.total_shares))

delete_campaign(e) ==
  /\ e.op = "delete"
  /\ SaveRow([campaign EXCEPT !.is_active = FALSE], share_price)

SaveEdit(e) ==
  /\ e \in edits
  /\ e.checked
  /\ edits' = edits \ {e}
  /\ update_campaign(e) \/ delete_campaign(e)
  /\ AdminUnchanged

\* The change form saves every column of the loaded object, counters included.
PanelSave(e) ==
  /\ e \in edits
  /\ e.op = "panel"
  /\ edits' = edits \ {e}
  /\ \E status \in CampaignStatus, n \in ShareTotals :
       SaveRow([e.row EXCEPT !.status = status, !.total_shares = n],
               SharePrice(n))
  /\ AdminUnchanged

\* The edits the API offers.
ApiNext ==
  \/ Next /\ UNCHANGED <<share_price, edits>>
  \/ \E op \in EditOps : LoadForEdit(op)
  \/ \E e \in edits : CheckEdit(e) \/ SaveEdit(e)

ApiSpec == AdminInit /\ [][ApiNext]_adminVars

\* With the panel.
PanelNext ==
  \/ ApiNext
  \/ LoadForEdit("panel")
  \/ \E e \in edits : PanelSave(e)

PanelSpec == AdminInit /\ [][PanelNext]_adminVars

----------------------------------------------------------------------------
(* Properties. *)

\* Edits that race with reservations, callbacks and sweeps are typed.
AdminTypeOK ==
  /\ TypeOK
  /\ share_price \in 0..TotalAmount
  /\ edits \subseteq Edits

\* The price of the row belongs to its total_shares: the model documents
\* share_price as total_amount / total_shares, computed in the lifecycle.
SharePriceConsistent == share_price = SharePrice(campaign.total_shares)

\* Only drafts are deleted: no published campaign, which may hold reservations
\* that nothing could release any more, is inactive.
DeletedIsDraft == ~campaign.is_active => campaign.status = "draft"

\* total_shares cannot be edited once a successful payment is recorded.
LockedAfterFirstPayment ==
  [][_has_paid_participations =>
       campaign'.total_shares = campaign.total_shares]_adminVars

=============================================================================
