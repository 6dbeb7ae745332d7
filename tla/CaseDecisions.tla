---------------------------- MODULE CaseDecisions ----------------------------
(***************************************************************************)
(* What a decision of a contradiction Case promises, whatever crashes and  *)
(* recoveries happen on the way: the whole case is decided in one step, on *)
(* the items as they are then, and everything else changes one item.       *)
(***************************************************************************)
EXTENDS Integers

CONSTANTS Case, Outside, None, Actions

VARIABLE content   \* [item -> [text, marks, by], None when it is deleted]

Item == Case \cup Outside
Present(i) == content[i] # None
Marked(i, mark) == [content[i] EXCEPT !.marks = @ \cup {mark}]

Init == content = [i \in Item |-> [text |-> 0, marks |-> {}, by |-> None]]

\* coexist or dismiss: every item of the case, with the same mark
Keep(action) ==
  /\ action \in Actions \cap {"coexist", "dismiss"}
  /\ \A i \in Case : Present(i)
  /\ content' = [i \in Item |-> IF i \in Case THEN Marked(i, action) ELSE content[i]]

\* select_authority or merge: one item, and all others of the case point to it
Replace(action, target) ==
  /\ action \in Actions \cap {"select_authority", "merge"}
  /\ target \in IF action = "merge" THEN Outside ELSE Case
  /\ Present(target) /\ content[target].by \notin Case
  /\ \A i \in Case : Present(i) /\ (i # target => content[i].by = None)
  /\ content' = [i \in Item |->
       IF i = target THEN Marked(i, action)
       ELSE IF i \in Case THEN [Marked(i, "resolved") EXCEPT !.by = target]
       ELSE content[i]]

Edit(i) == Present(i) /\ content' = [content EXCEPT ![i].text = @ + 1]
Remove(i) == Present(i) /\ content' = [content EXCEPT ![i] = None]

Next ==
  \/ \E a \in Actions : Keep(a) \/ \E g \in Item : Replace(a, g)
  \/ \E i \in Item : Edit(i) \/ Remove(i)

Spec == Init /\ [][Next]_content
=============================================================================
