----------------------------- MODULE DeviceCode -----------------------------
(***************************************************************************)
(* `auth login`: the daemon's command line polls Microsoft until the user  *)
(* has entered the code, declined, or the code has expired.  Time is       *)
(* counted in the server's units.                                          *)
(***************************************************************************)
EXTENDS Integers

CONSTANTS
  Lifetime,     \* expires_in
  FirstInterval,\* interval, as the server says or DEFAULT_INTERVAL
  SlowDownStep, \* SLOW_DOWN_STEP
  MaxFailures   \* DEVICE_POLL_MAX_TRANSPORT_FAILURES

ASSUME DeviceAssumption ==
  /\ {Lifetime, SlowDownStep} \subseteq Nat /\ {FirstInterval, MaxFailures} \subseteq Nat \ {0}

VARIABLES
  clock,      \* since the code was issued
  interval,   \* how long the next poll waits
  failures,   \* transport failures in a row
  streak,     \* history: polls without an answer since the last one with
  user,       \* "typing", "approved" or "declined"
  spacing,    \* Microsoft: the interval it last asked for
  tooSoon,    \* history: a poll came sooner than that
  signin      \* how it ended: "polling", "token", "declined", "expired", "network", and
              \* "refused" and "unread" for another error and a success without a token

deviceVars == <<clock, interval, failures, streak, user, spacing, tooSoon, signin>>

DeviceInit ==
  /\ clock = 0 /\ interval = FirstInterval /\ failures = 0 /\ streak = 0
  /\ user = "typing" /\ spacing = FirstInterval /\ tooSoon = FALSE /\ signin = "polling"

UserAnswers ==
  /\ user = "typing" /\ user' \in {"approved", "declined"}
  /\ UNCHANGED <<clock, interval, failures, streak, spacing, tooSoon, signin>>

SlowDown == interval + SlowDownStep

FailuresKept == failures \* mutant
FailuresReset == 0

\* An answer to a poll.
PollAnswer(ends) == failures' = FailuresReset /\ streak' = 0 /\ signin' = ends

Expired == clock' >= Lifetime

\* How an answer leaves the sign-in: the user's own word, once there is one, or that Microsoft
\* calls the code dead before we do (its clock started first) or refuses it for another reason.
Outcomes ==
  {"expired", "refused"} \cup
    (IF user = "typing" THEN {"polling"} ELSE IF user = "approved" THEN {"token", "unread"} ELSE {"declined"})

\* Sleep the interval, then poll unless the code's time is over.
Poll ==
  /\ signin = "polling"
  /\ clock' = IF clock + interval < Lifetime THEN clock + interval ELSE Lifetime
  /\ tooSoon' = (tooSoon \/ interval < spacing)
  /\ \/ Expired /\ signin' = "expired" /\ UNCHANGED <<interval, failures, streak, spacing>>
     \/ \* no answer, or one that can't be read
        /\ ~Expired
        /\ failures' = failures + 1 /\ streak' = streak + 1
        /\ signin' = IF failures + 1 >= MaxFailures THEN "network" ELSE "polling"
        /\ UNCHANGED <<interval, spacing>>
     \/ ~Expired /\ (\E ends \in Outcomes : PollAnswer(ends)) /\ UNCHANGED <<interval, spacing>>
     \/ /\ ~Expired /\ user = "typing" /\ spacing < Lifetime
        /\ interval' = SlowDown /\ spacing' = spacing + SlowDownStep /\ PollAnswer("polling")
  /\ UNCHANGED user

DeviceNext == UserAnswers \/ Poll
DeviceSpec == DeviceInit /\ [][DeviceNext]_deviceVars /\ WF_deviceVars(Poll)

-----------------------------------------------------------------------------

\* A code the user may still be typing in is given up for the network only after six failed
\* polls in a row: an answer between them starts the count again (poll).
PatientSignIn == signin = "network" => streak >= MaxFailures

=============================================================================
