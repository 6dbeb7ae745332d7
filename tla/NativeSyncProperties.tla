------------------------ MODULE NativeSyncProperties ------------------------
(***************************************************************************)
(* What the sharing of memories must guarantee.                            *)
(***************************************************************************)
EXTENDS NativeSync

PassType ==
  [at : {"idle", "walk", "scan", "me", "push", "sent", "answered", "pull", "ended", "fetched",
         "checked", "pulled"},
   left : SUBSET Doc, listed : SUBSET Doc, todo : SUBSET Row, row : Row \cup {NoRow},
   tried : BOOLEAN,
   reply : {NoReply} \cup [kind : {"saved", "refused"}, rev : Nat \cup {-1}],
   page : [items : SUBSET Change, cursor : Nat \cup {-1}, bodies : BOOLEAN]]

(* Every table of the clients and of the Hub holds rows of its own shape.  *)
TypeOK ==
  /\ file \in [Doc -> Content \cup {"absent"}]
  /\ written \in [Doc -> SUBSET Content]
  /\ mounted \in [Device -> BOOLEAN] /\ withheld \subseteq Doc
  /\ snap \in [Doc -> Content \cup {"none", "deleted"}]
  /\ part \in [Asset -> PartRow \cup {NoPart}]
  /\ outbox \in [Asset -> Row \cup {NoRow}]
  /\ refused \in [Asset -> Row \cup {NoRow}]
  /\ earlier \in [Asset -> SUBSET Asset]
  /\ cursor \in [Device -> Nat]
  /\ replica \in [Device -> [Asset -> Rec \cup {NoRec}]]
  /\ mode \in [Device -> {"projection", "cloud"}]
  /\ wants \in [Device -> BOOLEAN]
  /\ pass \in [Device -> PassType]
  /\ store \in [Asset -> Rec \cup {NoRec}]
  /\ log \in Seq(Rec)
  /\ revoked \subseteq Device
  /\ late \subseteq Row /\ overdue \subseteq Asset
  /\ edits \in 0..MaxEdits /\ faults \in 0..MaxFaults

Erased(a) == \E i \in DOMAIN log : log[i].asset = a /\ log[i].text = "purged"

(* What a device last decided about an asset is still queued or is what    *)
(* the Hub holds: no row leaves the outbox (client.py:941) before the Hub  *)
(* has that decision.  Exempt are an asset that an operator of the Hub     *)
(* erased, one whose record came with an upload that the client had given  *)
(* up on, for such an upload can land after the answer to a later one, and *)
(* what is still shared of a file that a new release withholds: its unsent *)
(* version is dropped (client.py:717).                                     *)
DesiredIsOwed ==
  \A a \in Asset : ( /\ part[a] # NoPart /\ ~Erased(a) /\ a \notin overdue
                     /\ a[1] \in withheld => part[a].deleted ) =>
    \/ Same(store[a], part[a])
    \/ /\ outbox[a] # NoRow
       /\ outbox[a].ver = part[a].ver /\ outbox[a].deleted = part[a].deleted

(* A current record of the Hub that lies behind the cursor of a projecting *)
(* device is the record in its replica: pages, resets of the cursor and    *)
(* crashes skip nothing, which is what client.py:1037 says of the cursor.  *)
(* Between the two reads of an empty page (hub.py:1156) the upload of      *)
(* another device is skipped.                                              *)
CursorNeverSkips ==
  \A d \in Device, i \in DOMAIN log :
    LET a == log[i].asset
    IN  ( /\ mode[d] = "projection" /\ i <= cursor[d]
          /\ store[a] = log[i] ) => replica[d][a] = log[i]

(* A text that a reader is given is never older than the record of the     *)
(* asset that it replaces, whatever pages are fetched again (client.py:    *)
(* 1004); a replica may be cleared as a whole, and an asset erased.  Of a  *)
(* page without texts, stored when the switch is turned in the meantime,   *)
(* this is not so: it lists the older revisions too.                       *)
ReadersMoveForward ==
  [][\A d \in Device, a \in Asset :
       ( /\ replica'[d][a] # NoRec /\ replica'[d][a].text = "kept"
         /\ ~Erased(a)' ) => replica'[d][a].rev >= replica[d][a].rev]_vars

-----------------------------------------------------------------------------
Live(m, a) ==
  /\ a[1] = m /\ file[m] \in Content \ Blocked
  /\ a[2] <= Parts[file[m]]

(* records: the Hub's or a replica's *)
Shows(records, m) ==
  \A a \in {b \in {m} \X (1..MaxParts) : ~Erased(b)} :
    IF Live(m, a) THEN Same(records[a], [ver |-> file[m], deleted |-> FALSE])
    ELSE records[a] = NoRec \/ records[a].deleted

Reading == {d \in Device : wants[d] /\ d \notin revoked}
Publishing == {m \in Doc \ withheld : Owner[m] \notin revoked /\ mounted[Owner[m]]}

(* Every file that its device can read, and that is in use, is at last on  *)
(* the Hub as it is now, whole, or withdrawn when it is gone, blank or     *)
(* held back, and every projecting device shows it so: stopped passes,     *)
(* refusals, erasures of other assets and bounded passes only delay it     *)
(* (client.py:794, native_sync/README.md:119).  It takes that no file      *)
(* returns to the text that it had when it was held back (client.py:604),  *)
(* that no upload lands late or between the two reads of an empty page,    *)
(* and that the switch is not turned twice within a pass.                  *)
Shared == \A m \in Publishing : Shows(store, m) /\ \A d \in Reading : Shows(replica[d], m)
Converges == <>[]Shared

(* A revoked device at last holds no shared record any more, whatever pass *)
(* or page was under way (client.py:1186).                                 *)
RevocationClears == \A d \in Device : <>[](d \in revoked => replica[d] = NoReplica)
=============================================================================
