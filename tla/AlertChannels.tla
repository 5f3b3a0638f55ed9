---------------------------- MODULE AlertChannels ----------------------------
(***************************************************************************)
(* One user's alert channels: creation, confirmation of e-mail addresses,  *)
(* switching on and off, deletion, and the notifier that loads the enabled *)
(* channels and then writes to each.  internal/usecase/alert.go,           *)
(* internal/infrastructure/postgres/alert_repo.go,                         *)
(* internal/emailverify/token.go and internal/scheduler/alert.go.          *)
(*                                                                         *)
(* A channel stands for an id: a channel that is deleted does not come     *)
(* back, another one is made.  One notifier goroutine at a time is past    *)
(* its query; those that wait would see a later state of the table.        *)
(***************************************************************************)
CONSTANT Channel  \* ids of channels

VARIABLES
    used,       \* channels ever created
    email,      \* those of type email; the others are webhook and slack
    present,    \* alert_channels
    enabled,    \* those with enabled
    verified,   \* those with verified
    link,       \* confirm links in the mail and not yet expired
    confirmed,  \* addresses whose owner followed a link
    checked,    \* channels for which SetEnabled(true) found verified
    audience    \* channels the notifier has loaded and not yet written to

alertVars == <<used, email, present, enabled, verified, link, confirmed, checked, audience>>

ChannelInit ==
    /\ used = {} /\ email = {} /\ present = {} /\ enabled = {} /\ verified = {}
    /\ link = {} /\ confirmed = {} /\ checked = {} /\ audience = {}

\* An e-mail channel starts disabled and unverified and gets a link, if the mail
\* can be sent; the others start enabled.
CreateChannel(c) ==
    /\ c \notin used
    /\ used' = used \cup {c}
    /\ present' = present \cup {c}
    /\ \/ /\ email' = email \cup {c}
          /\ link' \in {link, link \cup {c}}
          /\ UNCHANGED <<enabled, verified>>
       \/ /\ enabled' = enabled \cup {c}
          /\ verified' = verified \cup {c}
          /\ UNCHANGED <<email, link>>
    /\ UNCHANGED <<confirmed, checked, audience>>

\* The token carries its expiry.
ExpireLink(c) ==
    /\ c \in link
    /\ link' = link \ {c}
    /\ UNCHANGED <<used, email, present, enabled, verified, confirmed, checked, audience>>

\* The link may be followed again, and then enables the channel again.
VerifyChannel(c) ==
    /\ c \in link
    /\ confirmed' = confirmed \cup {c}
    /\ verified' = verified \cup ({c} \cap present)
    /\ enabled' = enabled \cup ({c} \cap present)
    /\ UNCHANGED <<used, email, present, link, checked, audience>>

\* Bug: any channel may be enabled.
FaultyCheckVerified(c) ==
    /\ c \in present \ checked
    /\ checked' = checked \cup {c}
    /\ UNCHANGED <<used, email, present, enabled, verified, link, confirmed, audience>>
\* SetEnabled(true) reads the row first ...
CheckVerified(c) ==
    /\ c \in (present \cap verified) \ checked
    /\ checked' = checked \cup {c}
    /\ UNCHANGED <<used, email, present, enabled, verified, link, confirmed, audience>>

\* ... and updates it later, if it is still there.
Enable(c) ==
    /\ c \in checked
    /\ checked' = checked \ {c}
    /\ enabled' = enabled \cup ({c} \cap present)
    /\ UNCHANGED <<used, email, present, verified, link, confirmed, audience>>

Disable(c) ==
    /\ c \in enabled
    /\ enabled' = enabled \ {c}
    /\ UNCHANGED <<used, email, present, verified, link, confirmed, checked, audience>>

\* Bug: the row is marked as deleted and still found by ListEnabled.
FaultyDeleteChannel(c) ==
    /\ c \in present
    /\ present' = present \ {c}
    /\ UNCHANGED <<used, email, enabled, verified, link, confirmed, checked, audience>>
DeleteChannel(c) ==
    /\ c \in present
    /\ present' = present \ {c}
    /\ enabled' = enabled \ {c}
    /\ verified' = verified \ {c}
    /\ UNCHANGED <<used, email, link, confirmed, checked, audience>>

\* notifyFailure and notifyCreditLow load the channels; the query may fail.
LoadChannels ==
    /\ audience = {}
    /\ audience' \in {enabled, {}}
    /\ UNCHANGED <<used, email, present, enabled, verified, link, confirmed, checked>>

\* dispatch: by mail or by POST, as it was loaded.  Errors are only logged.
Dispatch(c) ==
    /\ c \in audience
    /\ audience' = audience \ {c}
    /\ UNCHANGED <<used, email, present, enabled, verified, link, confirmed, checked>>

\* The notifier runs out of its 15 seconds, or the process dies.
GiveUp ==
    /\ audience # {}
    /\ audience' = {}
    /\ UNCHANGED <<used, email, present, enabled, verified, link, confirmed, checked>>

ChannelStep(c) ==
    \/ CreateChannel(c) \/ ExpireLink(c) \/ VerifyChannel(c) \/ CheckVerified(c)
    \/ Enable(c) \/ Disable(c) \/ DeleteChannel(c) \/ Dispatch(c)

ChannelNext == (\E c \in Channel : ChannelStep(c)) \/ LoadChannels \/ GiveUp

ChannelSpec == ChannelInit /\ [][ChannelNext]_alertVars

-----------------------------------------------------------------------------
(* Correctness properties *)

\* The sets are sets of channels, and only rows that exist have columns.
ChannelTypeOK ==
    /\ used \subseteq Channel /\ email \subseteq used /\ present \subseteq used
    /\ enabled \subseteq present /\ verified \subseteq present
    /\ link \subseteq email /\ confirmed \subseteq email
    /\ checked \subseteq used /\ audience \subseteq used

\* "we must confirm the address owns itself before delivering": whatever the API
\* calls, the links and the notifier do in between, no alert is about to be
\* mailed to an address whose owner did not follow a link.
OnlyConfirmedMailed == audience \cap email \subseteq confirmed
=============================================================================
