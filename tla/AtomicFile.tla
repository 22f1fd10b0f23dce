----------------------------- MODULE AtomicFile -----------------------------
(***************************************************************************)
(* What ClaimsManager.save promises about claims.md                        *)
(* (discuss_agent/claims.py): a reader finds nothing or one whole text     *)
(* that somebody saved, at any time; and once a save has returned, a loss  *)
(* of power does not take that text away.  There is such a file in every   *)
(* session directory.                                                      *)
(***************************************************************************)
CONSTANTS Writers,  \* the runs that save
          Files,    \* the files they save to
          Texts,    \* what they may save
          NoText    \* no such file, or nothing to save

VARIABLES text,   \* what a reader finds, per file
          offer,  \* what each writer is saving, where, and if it is there yet
          kept    \* the texts that a loss of power may leave, per file

vars == <<text, offer, kept>>

NoOffers == [w \in Writers |-> NoText]

Init ==
    /\ text = [f \in Files |-> NoText]
    /\ offer = NoOffers
    /\ kept = [f \in Files |-> {NoText}]

\* Writer w calls save().
Offer(w) ==
    /\ offer[w] = NoText
    /\ \E o \in [file : Files, text : Texts, place : {"temp"}] :
          offer' = [offer EXCEPT ![w] = o]
    /\ UNCHANGED <<text, kept>>

\* From now on readers find w's text.
Install(w) ==
    /\ offer[w] # NoText
    /\ offer' = [offer EXCEPT ![w].place = "target"]
    /\ text' = [text EXCEPT ![offer[w].file] = offer[w].text]
    /\ kept' = [kept EXCEPT ![offer[w].file] = @ \cup {offer[w].text}]

\* save() returns: what is found now stays.
Return(w) ==
    /\ offer[w] # NoText
    /\ offer[w].place = "target"
    /\ offer' = [offer EXCEPT ![w] = NoText]
    /\ kept' = [kept EXCEPT ![offer[w].file] = {text[offer[w].file]}]
    /\ UNCHANGED text

\* save() raises, or its process dies.
GiveUp(w) ==
    /\ offer[w] # NoText
    /\ offer' = [offer EXCEPT ![w] = NoText]
    /\ UNCHANGED <<text, kept>>

\* All processes die, and one of the kept texts of each file is left.
PowerLoss ==
    /\ DOMAIN text' = Files
    /\ \A f \in Files : text'[f] \in kept[f]
    /\ offer' = NoOffers
    /\ kept' = [f \in Files |-> {text'[f]}]

Next ==
    \/ \E w \in Writers : Offer(w) \/ Install(w) \/ Return(w) \/ GiveUp(w)
    \/ PowerLoss

Spec == Init /\ [][Next]_vars
=============================================================================
