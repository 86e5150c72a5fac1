--------------------------- MODULE TerminalProofs ---------------------------
(***************************************************************************)
(* Terminal for every set of listings, every length of a page and every    *)
(* search: no screen asks anything on the way home, and the rows on the    *)
(* screen are a page of the listings.                                      *)
(***************************************************************************)
EXTENDS Terminal, SequenceTheorems, FiniteSetTheorems, TLAPS

-----------------------------------------------------------------------------
(***************************************************************************)
(* Sequences.                                                              *)
(***************************************************************************)
LEMMA Fronts ==
    ASSUME NEW S, NEW s \in Seq(S), s # <<>>
    PROVE  /\ Front(s) \in Seq(S) /\ Len(Front(s)) = Len(s) - 1
           /\ \A i \in 1..(Len(s) - 1) : Front(s)[i] = s[i]
<1>1. Len(s) \in Nat /\ Len(s) # 0 /\ \A i \in 1..(Len(s) - 1) : s[i] \in S
  BY EmptySeq, LenProperties, ElementOfSeq
<1> DEFINE n == Len(s) - 1
<1>2. n \in Int /\ \A i \in 1..n : s[i] \in S
  BY <1>1
<1> HIDE DEF n
<1>3. /\ SubSeq(s, 1, n) \in Seq(S)
      /\ Len(SubSeq(s, 1, n)) = IF 1 <= n THEN n - 1 + 1 ELSE 0
      /\ \A i \in 1..(n - 1 + 1) : SubSeq(s, 1, n)[i] = s[1 + i - 1]
  BY <1>2, SubSeqProperties
<1>4. n >= 0 /\ n - 1 + 1 = n /\ \A i \in 1..n : 1 + i - 1 = i
  BY <1>1, <1>2 DEF n
<1>5. Len(SubSeq(s, 1, n)) = n /\ \A i \in 1..n : SubSeq(s, 1, n)[i] = s[i]
  BY <1>2, <1>3, <1>4
<1> QED
  BY <1>3, <1>5 DEF Front, n

LEMMA Tails ==
    ASSUME NEW S, NEW s \in Seq(S), s # <<>>
    PROVE  /\ Tail(s) \in Seq(S) /\ Len(Tail(s)) = Len(s) - 1 /\ Len(s) \in Nat \ {0}
           /\ \A i \in 1..(Len(s) - 1) : Tail(s)[i] = s[i + 1]
           /\ Head(s) = s[1]
BY HeadTailProperties, EmptySeq, LenProperties

-----------------------------------------------------------------------------
(***************************************************************************)
(* The inductive invariant of the screens.                                 *)
(***************************************************************************)
ScreenNames == Loops \cup {"home", "setup", "progress"}

Kinds == Works \cup {"required", "checked", "city", "wait", "go", "maybe", "line", "format", "must",
                     "password", "pause", "and", "optional", "pick", "secret", "value", "report", "entry",
                     "ask", "rows", "record", "keep", "menu", "choice", "empty", "number", "find"}

\* Which screens can be open.
Shape ==
    /\ stack \in Seq(ScreenNames) /\ Len(stack) \in 0..3
    /\ Len(stack) >= 1 => stack[1] \in {"home", "setup"}
    /\ Len(stack) >= 2 /\ stack[1] = "home" => stack[2] \in Loops
    /\ Len(stack) >= 2 /\ stack[1] = "setup" => Len(stack) = 2 /\ stack[2] = "email"
    /\ Len(stack) = 3 => stack[2] = "listings" /\ stack[3] = "progress"

\* A pause ends a dialog, except before the browser is offered.
Fine(r) ==
    /\ r \in Seq(Kinds) /\ Len(r) \in 0..9
    /\ \A i \in 1..Len(r) :
          /\ r[i] = "pause" => \/ i = Len(r)
                               \/ Len(r) = i + 3 /\ r[i + 1] = "ask" /\ r[i + 2] = "automate"
                                  /\ r[i + 3] = "pause"
          /\ r[i] = "city" => Len(r) <= i + 2
          /\ r[i] \in {"keep", "and"} => i < Len(r)

AtScreen(screen) == Len(stack) = 1 /\ stack[1] = screen

\* The screens that have a dialog with a menu in it.
AtMenus == Len(stack) = 2 /\ stack[2] \in {"settings", "inbox"}

\* The reads that belong to one screen.
Placed(r) ==
    \A i \in 1..Len(r) :
        /\ r[i] = "menu" => AtScreen("home")
        /\ r[i] = "email" => AtScreen("setup")
        /\ r[i] = "automate" => Len(stack) = 2 /\ stack[2] = "playbooks"
        /\ r[i] = "choice" => Len(stack) >= 2
        /\ r[i] = "pick" => AtScreen("setup") \/ AtMenus

\* The offer of the browser, or what is left of it.
Offer(r) ==
    /\ Len(r) \in 0..3
    /\ Len(r) >= 1 => r[Len(r)] = "pause"
    /\ Len(r) >= 2 => r[Len(r) - 1] = "automate"
    /\ Len(r) = 3 => r[1] = "ask"

\* After an "m" the flag is up until the home screen, and only the offer is still open.
Homeward ==
    jumped = "screen" /\ Len(stack) >= 1 /\ stack[1] = "home" =>
        /\ goHome \/ Len(stack) = 1
        /\ Len(reads) >= 1 => Len(stack) = 2 /\ stack[2] = "playbooks" /\ Offer(reads)

Settled == /\ {goHome, eof, held} \subseteq BOOLEAN
          /\ stage \in 0..6 /\ (Len(stack) >= 1 /\ stack[1] = "setup" => stage \in 0..5)

Closed == Len(stack) = 0 => Len(reads) = 0

Flow == Shape /\ Settled /\ Fine(reads) /\ Placed(reads) /\ Closed /\ Homeward

-----------------------------------------------------------------------------
(***************************************************************************)
(* What a dialog may contain.                                              *)
(***************************************************************************)
LEMMA Short ==
    /\ Fine(<<>>) /\ Fine(<<"pause">>) /\ Fine(<<"wait">>) /\ Fine(<<"choice">>) /\ Fine(<<"menu">>)
    /\ Fine(<<"empty">>) /\ Fine(<<"number">>) /\ Fine(<<"find">>)
    /\ Placed(<<>>) /\ Placed(<<"pause">>) /\ Placed(<<"wait">>)
    /\ Placed(<<"empty">>) /\ Placed(<<"number">>) /\ Placed(<<"find">>)
    /\ Offer(<<>>) /\ Offer(<<"pause">>)
BY DEF Kinds, Works, Fine, Placed, Offer

LEMMA PersonAdds ==
    /\ Fine(Person \o <<"add">>) /\ Placed(Person \o <<"add">>)
    /\ Fine(Person \o <<"add", "pause">>) /\ Placed(Person \o <<"add", "pause">>)
<1> DEFINE A == <<"add">>
           B == <<"add", "pause">>
           s == <<"required", "required", "checked", "checked", "checked", "checked", "city", "add">>
           t == <<"required", "required", "checked", "checked", "checked", "checked", "city", "add", "pause">>
<1>1. Person \in Seq(Kinds) /\ Len(Person) = 7
  BY DEF Person, Kinds, Works
<1>2. A \in Seq(Kinds) /\ Len(A) = 1 /\ B \in Seq(Kinds) /\ Len(B) = 2
  BY DEF Kinds, Works
<1>3. s \in Seq(Kinds) /\ Len(s) = 8 /\ t \in Seq(Kinds) /\ Len(t) = 9
  BY DEF Kinds, Works
<1>4. \A i \in 1..7 : s[i] = Person[i] /\ t[i] = Person[i]
  BY DEF Person
<1>5. s[8] = A[1] /\ t[8] = B[1] /\ t[9] = B[2]
  OBVIOUS
<1>6. Fine(s) /\ Placed(s)
  BY DEF Fine, Placed, Kinds, Works
<1>7. Fine(t) /\ Placed(t)
  BY DEF Fine, Placed, Kinds, Works
<1> HIDE DEF A, B, s, t
<1>8. Person \o A = s
  <2>1. /\ Person \o A \in Seq(Kinds) /\ Len(Person \o A) = Len(Person) + Len(A)
        /\ \A i \in 1..(Len(Person) + Len(A)) :
              (Person \o A)[i] = IF i <= Len(Person) THEN Person[i] ELSE A[i - Len(Person)]
    BY <1>1, <1>2, ConcatProperties
  <2>2. Len(Person \o A) = 8 /\ (Person \o A)[8] = A[1] /\ \A i \in 1..7 : (Person \o A)[i] = Person[i]
    BY <1>1, <1>2, <2>1, SMTT(30)
  <2>3. \A i \in 1..8 : (Person \o A)[i] = s[i]
    <3>1. \A i \in 1..8 : i \in 1..7 \/ i = 8
      OBVIOUS
    <3> QED
      BY <1>4, <1>5, <2>2, <3>1
  <2> QED
    BY <1>3, <2>1, <2>2, <2>3, SeqEqual
<1>9. Person \o B = t
  <2>1. /\ Person \o B \in Seq(Kinds) /\ Len(Person \o B) = Len(Person) + Len(B)
        /\ \A i \in 1..(Len(Person) + Len(B)) :
              (Person \o B)[i] = IF i <= Len(Person) THEN Person[i] ELSE B[i - Len(Person)]
    BY <1>1, <1>2, ConcatProperties
  <2>2. /\ Len(Person \o B) = 9 /\ (Person \o B)[8] = B[1] /\ (Person \o B)[9] = B[2]
        /\ \A i \in 1..7 : (Person \o B)[i] = Person[i]
    <3>1. Len(Person \o B) = 9
      BY <1>1, <1>2, <2>1, SMTT(30)
    <3>2. (Person \o B)[8] = B[1]
      BY <1>1, <1>2, <2>1, SMTT(30)
    <3>3. (Person \o B)[9] = B[2]
      BY <1>1, <1>2, <2>1, SMTT(30)
    <3>4. \A i \in 1..7 : (Person \o B)[i] = Person[i]
      BY <1>1, <1>2, <2>1, SMTT(30)
    <3> QED
      BY <3>1, <3>2, <3>3, <3>4
  <2>3. \A i \in 1..9 : (Person \o B)[i] = t[i]
    <3>1. \A i \in 1..9 : i \in 1..7 \/ i = 8 \/ i = 9
      OBVIOUS
    <3> QED
      BY <1>4, <1>5, <2>2, <3>1
  <2> QED
    BY <1>3, <2>1, <2>2, <2>3, SeqEqual
<1> QED
  BY <1>6, <1>7, <1>8, <1>9 DEF A, B

LEMMA SetupFine ==
    ASSUME NEW n \in 0..4, AtScreen("setup")
    PROVE  Fine(Setup[n + 1]) /\ Placed(Setup[n + 1])
<1>1. Len(Setup) = 5 /\ Setup[1] = Person \o <<"add">> /\ Setup[2] = <<"go", "email">>
      /\ Setup[3] = <<"ask">> \o Proxy /\ Setup[4] = Law /\ Setup[5] = <<"wait">>
  BY DEF Setup
<1>2. <<"ask">> \o Proxy = <<"ask", "line", "save", "pause">>
  <2> DEFINE a == <<"ask">>
             t == <<"ask", "line", "save", "pause">>
  <2>1. a \in Seq(Kinds) /\ Proxy \in Seq(Kinds) /\ t \in Seq(Kinds) /\ Len(a) = 1 /\ Len(Proxy) = 3 /\ Len(t) = 4
    BY DEF Proxy, Kinds, Works
  <2>2. /\ a[1] = "ask" /\ Proxy[1] = "line" /\ Proxy[2] = "save" /\ Proxy[3] = "pause"
        /\ t[1] = "ask" /\ t[2] = "line" /\ t[3] = "save" /\ t[4] = "pause"
    BY DEF Proxy
  <2> HIDE DEF a, t
  <2>3. /\ a \o Proxy \in Seq(Kinds) /\ Len(a \o Proxy) = Len(a) + Len(Proxy)
        /\ \A i \in 1..(Len(a) + Len(Proxy)) : (a \o Proxy)[i] = IF i <= Len(a) THEN a[i] ELSE Proxy[i - Len(a)]
    BY <2>1, ConcatProperties
  <2>4. Len(a \o Proxy) = 4 /\ \A i \in 1..4 : (a \o Proxy)[i] = t[i]
    BY <2>1, <2>2, <2>3
  <2>5. a \o Proxy = t
    BY <2>1, <2>3, <2>4, SeqEqual
  <2> QED
    BY <2>5 DEF a, t
<1>3. Fine(<<"go", "email">>) /\ Placed(<<"go", "email">>)
  BY DEF Kinds, Works, Fine, Placed, AtScreen
<1>4. Fine(<<"ask", "line", "save", "pause">>) /\ Placed(<<"ask", "line", "save", "pause">>)
  BY DEF Kinds, Works, Fine, Placed, AtScreen
<1>5. Fine(Law) /\ Placed(Law)
  BY DEF Kinds, Works, Fine, Placed, AtScreen, Law
<1>6. n + 1 \in 1..5 /\ (n + 1 = 1 \/ n + 1 = 2 \/ n + 1 = 3 \/ n + 1 = 4 \/ n + 1 = 5)
  OBVIOUS
<1> DEFINE k == n + 1
<1> HIDE DEF k
<1>a. k = 1 \/ k = 2 \/ k = 3 \/ k = 4 \/ k = 5
  BY <1>6 DEF k
<1>b. Fine(Setup[1]) /\ Placed(Setup[1])
  BY <1>1, PersonAdds
<1>c. Fine(Setup[2]) /\ Placed(Setup[2])
  BY <1>1, <1>3
<1>d. Fine(Setup[3]) /\ Placed(Setup[3])
  BY <1>1, <1>2, <1>4
<1>e. Fine(Setup[4]) /\ Placed(Setup[4])
  BY <1>1, <1>5
<1>f. Fine(Setup[5]) /\ Placed(Setup[5])
  BY <1>1, Short
<1>7. Fine(Setup[k]) /\ Placed(Setup[k])
  BY <1>a, <1>b, <1>c, <1>d, <1>e, <1>f
<1> QED
  BY <1>7 DEF k

LEMMA HomeDialogs ==
    \A r \in DoScan \cup DoScrub \cup DoSend \cup DoFootprint \cup DoExport \cup DoExif \cup DoGuide :
        Fine(r) /\ Placed(r)
<1>1. Fine(<<"wait">>) /\ Placed(<<"wait">>)
  BY DEF Fine, Placed, Kinds, Works
<1>2. Fine(<<"scan", "wait">>) /\ Placed(<<"scan", "wait">>)
  BY DEF Fine, Placed, Kinds, Works
<1>3. Fine(<<"go", "scrub", "wait">>) /\ Placed(<<"go", "scrub", "wait">>)
  BY DEF Fine, Placed, Kinds, Works
<1>4. Fine(<<"go", "send", "wait">>) /\ Placed(<<"go", "send", "wait">>)
  BY DEF Fine, Placed, Kinds, Works
<1>5. Fine(<<"maybe", "line", "footprint", "wait">>) /\ Placed(<<"maybe", "line", "footprint", "wait">>)
  BY DEF Fine, Placed, Kinds, Works
<1>6. Fine(<<"format", "export", "line", "wait">>) /\ Placed(<<"format", "export", "line", "wait">>)
  BY DEF Fine, Placed, Kinds, Works
<1>7. Fine(<<"maybe", "line", "strip", "wait">>) /\ Placed(<<"maybe", "line", "strip", "wait">>)
  BY DEF Fine, Placed, Kinds, Works
<1> QED
  BY <1>1, <1>2, <1>3, <1>4, <1>5, <1>6, <1>7 DEF DoScan, DoScrub, DoSend, NeedLocal, DoFootprint, DoExport, DoExif, DoGuide

LEMMA MailDialogs ==
    \A r \in Link \cup Custom \cup SameInbox \cup Unlink \cup StopInbox : Fine(r) /\ Placed(r)
<1>1. Fine(<<"must", "password", "link", "pause">>) /\ Placed(<<"must", "password", "link", "pause">>)
  BY DEF Fine, Placed, Kinds, Works
<1>2. Fine(<<"must", "password", "link", "and", "inbox", "pause">>) /\ Placed(<<"must", "password", "link", "and", "inbox", "pause">>)
  BY DEF Fine, Placed, Kinds, Works
<1>3. Fine(<<"must", "line", "line", "line", "line", "optional", "link", "pause">>) /\ Placed(<<"must", "line", "line", "line", "line", "optional", "link", "pause">>)
  BY DEF Fine, Placed, Kinds, Works
<1>4. Fine(<<"pause">>) /\ Placed(<<"pause">>)
  BY DEF Fine, Placed, Kinds, Works
<1>5. Fine(<<"inbox", "pause">>) /\ Placed(<<"inbox", "pause">>)
  BY DEF Fine, Placed, Kinds, Works
<1>6. Fine(<<"unlink", "pause">>) /\ Placed(<<"unlink", "pause">>)
  BY DEF Fine, Placed, Kinds, Works
<1>7. Fine(<<"unlink", "and", "clear", "pause">>) /\ Placed(<<"unlink", "and", "clear", "pause">>)
  BY DEF Fine, Placed, Kinds, Works
<1>8. Fine(<<"clear", "pause">>) /\ Placed(<<"clear", "pause">>)
  BY DEF Fine, Placed, Kinds, Works
<1> QED
  BY <1>1, <1>2, <1>3, <1>4, <1>5, <1>6, <1>7, <1>8 DEF Link, Custom, SameInbox, Unlink, StopInbox

LEMMA HostDialogs == ASSUME AtMenus PROVE \A r \in CustomInbox : Fine(r) /\ Placed(r)
<1>1. Fine(<<"pick", "line", "line", "line", "optional", "inbox", "pause">>) /\ Placed(<<"pick", "line", "line", "line", "optional", "inbox", "pause">>)
  BY DEF Fine, Placed, Kinds, Works
<1>2. Fine(<<"pick", "maybe", "line", "line", "line", "line", "optional", "inbox", "pause">>) /\ Placed(<<"pick", "maybe", "line", "line", "line", "line", "optional", "inbox", "pause">>)
  BY DEF Fine, Placed, Kinds, Works
<1> QED
  BY <1>1, <1>2 DEF CustomInbox

LEMMA SettingsDialogs ==
  ASSUME AtMenus
  PROVE  \A r \in {Proxy, Law, ApiKey, Speed} \cup FormFill \cup Folders : Fine(r) /\ Placed(r)
<1>1. Fine(<<"line", "save", "pause">>) /\ Placed(<<"line", "save", "pause">>)
  BY DEF Fine, Placed, Kinds, Works
<1>2. Fine(<<"pick", "save", "pause">>) /\ Placed(<<"pick", "save", "pause">>)
  BY DEF Fine, Placed, Kinds, Works
<1>3. Fine(<<"secret", "put", "pause">>) /\ Placed(<<"secret", "put", "pause">>)
  BY DEF Fine, Placed, Kinds, Works
<1>4. Fine(<<"wait">>) /\ Placed(<<"wait">>)
  BY DEF Fine, Placed, Kinds, Works
<1>5. Fine(<<"line", "save">>) /\ Placed(<<"line", "save">>)
  BY DEF Fine, Placed, Kinds, Works
<1>6. Fine(<<"line", "line", "line", "save", "pause">>) /\ Placed(<<"line", "line", "line", "save", "pause">>)
  BY DEF Fine, Placed, Kinds, Works
<1>7. Fine(<<"pause">>) /\ Placed(<<"pause">>)
  BY DEF Fine, Placed, Kinds, Works
<1> QED
  BY <1>1, <1>2, <1>3, <1>4, <1>5, <1>6, <1>7, Short DEF Proxy, Law, ApiKey, Speed, FormFill, Folders

LEMMA OtherDialogs ==
    \A r \in AddPerson \cup AddAttr \cup CheckOne \cup Generate \cup Complete \cup VerifyById :
        Fine(r) /\ Placed(r)
<1>1. Fine(<<"add", "pause">>) /\ Placed(<<"add", "pause">>)
  BY DEF Fine, Placed, Kinds, Works
<1>2. Fine(<<"value", "attr", "pause">>) /\ Placed(<<"value", "attr", "pause">>)
  BY DEF Fine, Placed, Kinds, Works
<1>3. Fine(<<"secret", "check", "report">>) /\ Placed(<<"secret", "check", "report">>)
  BY DEF Fine, Placed, Kinds, Works
<1>4. Fine(<<"report">>) /\ Placed(<<"report">>)
  BY DEF Fine, Placed, Kinds, Works
<1>5. Fine(<<"line", "complete", "pause">>) /\ Placed(<<"line", "complete", "pause">>)
  BY DEF Fine, Placed, Kinds, Works
<1>6. Fine(<<"maybe", "verifyAny", "pause">>) /\ Placed(<<"maybe", "verifyAny", "pause">>)
  BY DEF Fine, Placed, Kinds, Works
<1> QED
  BY <1>1, <1>2, <1>3, <1>4, <1>5, <1>6, PersonAdds DEF AddPerson, AddAttr, CheckOne, Generate, Complete, VerifyById

LEMMA PlaybookDialogs ==
    ASSUME Len(stack) = 2, stack[2] = "playbooks"
    PROVE  \A r \in Playbook : Fine(r) /\ Placed(r)
<1> DEFINE entry  == <<"entry">>
           paused == <<"entry", "pause">>
           offer  == <<"ask", "automate", "pause">>
           five   == <<"entry", "pause", "ask", "automate", "pause">>
           four   == <<"entry", "ask", "automate", "pause">>
<1>1. /\ entry \in Seq(Kinds) /\ paused \in Seq(Kinds) /\ offer \in Seq(Kinds)
      /\ five \in Seq(Kinds) /\ four \in Seq(Kinds)
      /\ Len(entry) = 1 /\ Len(paused) = 2 /\ Len(offer) = 3 /\ Len(five) = 5 /\ Len(four) = 4
  BY DEF Kinds, Works
<1>2. /\ four[1] = entry[1] /\ \A i \in 1..3 : four[1 + i] = offer[i]
      /\ five[1] = paused[1] /\ five[2] = paused[2] /\ \A i \in 1..3 : five[2 + i] = offer[i]
  OBVIOUS
<1>3. Fine(entry) /\ Fine(paused) /\ Fine(four) /\ Fine(five)
  BY DEF Fine, Kinds, Works
<1>4. Placed(entry) /\ Placed(paused) /\ Placed(four) /\ Placed(five)
  BY DEF Placed
<1>5. Playbook = {entry \o <<>>, entry \o offer, paused \o <<>>, paused \o offer}
  BY DEF Playbook
<1> HIDE DEF entry, paused, offer, five, four
<1>6. entry \o <<>> = entry /\ paused \o <<>> = paused
  BY <1>1, ConcatEmptySeq
<1>7. entry \o offer = four
  <2>1. /\ entry \o offer \in Seq(Kinds) /\ Len(entry \o offer) = Len(entry) + Len(offer)
        /\ \A i \in 1..(Len(entry) + Len(offer)) :
              (entry \o offer)[i] = IF i <= Len(entry) THEN entry[i] ELSE offer[i - Len(entry)]
    BY <1>1, ConcatProperties
  <2>2. Len(entry \o offer) = 4 /\ (entry \o offer)[1] = four[1]
    BY <1>1, <1>2, <2>1
  <2>3. (entry \o offer)[2] = four[2] /\ (entry \o offer)[3] = four[3] /\ (entry \o offer)[4] = four[4]
    BY <1>1, <1>2, <2>1
  <2>4. \A i \in 1..4 : i = 1 \/ i = 2 \/ i = 3 \/ i = 4
    OBVIOUS
  <2>5. /\ entry \o offer \in Seq(Kinds) /\ four \in Seq(Kinds) /\ Len(entry \o offer) = Len(four)
        /\ \A i \in 1..Len(entry \o offer) : (entry \o offer)[i] = four[i]
    BY <1>1, <2>1, <2>2, <2>3, <2>4
  <2> QED
    BY <2>5, SeqEqual
<1>8. paused \o offer = five
  <2>1. /\ paused \o offer \in Seq(Kinds) /\ Len(paused \o offer) = Len(paused) + Len(offer)
        /\ \A i \in 1..(Len(paused) + Len(offer)) :
              (paused \o offer)[i] = IF i <= Len(paused) THEN paused[i] ELSE offer[i - Len(paused)]
    BY <1>1, ConcatProperties
  <2>2. Len(paused \o offer) = 5 /\ (paused \o offer)[1] = five[1] /\ (paused \o offer)[2] = five[2]
    BY <1>1, <1>2, <2>1
  <2>3. (paused \o offer)[3] = five[3]
    BY <1>1, <1>2, <2>1
  <2>4. (paused \o offer)[4] = five[4] /\ (paused \o offer)[5] = five[5]
    BY <1>1, <1>2, <2>1
  <2>5. \A i \in 1..5 : i = 1 \/ i = 2 \/ i = 3 \/ i = 4 \/ i = 5
    OBVIOUS
  <2>6. /\ paused \o offer \in Seq(Kinds) /\ five \in Seq(Kinds) /\ Len(paused \o offer) = Len(five)
        /\ \A i \in 1..Len(paused \o offer) : (paused \o offer)[i] = five[i]
    BY <1>1, <2>1, <2>2, <2>3, <2>4, <2>5
  <2> QED
    BY <2>6, SeqEqual
<1> QED
  BY <1>3, <1>4, <1>5, <1>6, <1>7, <1>8

LEMMA Dialogues ==
    ASSUME Shape, Len(stack) >= 1, NEW r \in Dialogs
    PROVE  Fine(r) /\ Placed(r)
<1>1. Screen = stack[Len(stack)]
  BY DEF Screen, Last
<1>2. CASE Screen = "home"
  BY <1>2, HomeDialogs DEF Dialogs
<1>3. CASE Screen = "email"
  BY <1>3, MailDialogs DEF Dialogs
<1>0. ASSUME Screen \in {"inbox", "settings"} PROVE AtMenus
  <2>0. {"home", "setup", "progress"} \cap {"inbox", "settings"} = {}
    OBVIOUS
  <2>1. Len(stack) \in {1, 2, 3} /\ Len(stack) # 1 /\ Len(stack) # 3
    BY <1>0, <1>1, <2>0 DEF Shape
  <2> QED
    BY <1>0, <1>1, <2>1 DEF AtMenus
<1>4. CASE Screen = "inbox"
  BY <1>0, <1>4, MailDialogs, HostDialogs DEF Dialogs
<1>5. CASE Screen = "settings"
  BY <1>0, <1>5, SettingsDialogs DEF Dialogs
<1>6. CASE Screen \in {"identity", "leaks", "progress"}
  BY <1>6, OtherDialogs DEF Dialogs
<1>7. CASE Screen = "playbooks"
  <2>0. "home" # "playbooks" /\ "setup" # "playbooks" /\ "progress" # "playbooks"
    OBVIOUS
  <2>1. Len(stack) = 2 /\ stack[2] = "playbooks"
    <3>1. Len(stack) \in {1, 2, 3}
      BY DEF Shape
    <3>2. Len(stack) # 1
      BY <1>1, <1>7, <2>0 DEF Shape
    <3>3. Len(stack) # 3
      BY <1>1, <1>7, <2>0 DEF Shape
    <3> QED
      BY <1>1, <1>7, <3>1, <3>2, <3>3
  <2>2. r \in Playbook
    BY <1>7 DEF Dialogs
  <2> QED
    BY <2>1, <2>2, PlaybookDialogs
<1>8. CASE Screen \notin {"home", "email", "inbox", "settings", "identity", "leaks", "progress", "playbooks"}
  BY <1>8 DEF Dialogs
<1> QED
  BY <1>2, <1>3, <1>4, <1>5, <1>6, <1>7, <1>8

-----------------------------------------------------------------------------
(***************************************************************************)
(* What is left of a dialog.                                               *)
(***************************************************************************)
LEMMA TailFine ==
    ASSUME NEW r, Fine(r), Placed(r), r # <<>>
    PROVE  Fine(Tail(r)) /\ Placed(Tail(r))
<1> DEFINE t == Tail(r)
<1>1. /\ t \in Seq(Kinds) /\ Len(t) = Len(r) - 1 /\ Len(r) \in 1..9
      /\ \A i \in 1..Len(t) : i + 1 \in 1..Len(r) /\ t[i] = r[i + 1]
  BY Tails DEF Fine
<1> HIDE DEF t
<1>2. Placed(t)
  BY <1>1 DEF Placed
<1>3. \A i \in 1..Len(t) : /\ t[i] = "city" => Len(t) <= i + 2
                           /\ t[i] \in {"keep", "and"} => i < Len(t)
  BY <1>1 DEF Fine
<1>4. \A i \in 1..Len(t) :
         t[i] = "pause" => \/ i = Len(t)
                           \/ Len(t) = i + 3 /\ t[i + 1] = "ask" /\ t[i + 2] = "automate" /\ t[i + 3] = "pause"
  <2> SUFFICES ASSUME NEW i \in 1..Len(t), t[i] = "pause"
               PROVE  \/ i = Len(t)
                      \/ Len(t) = i + 3 /\ t[i + 1] = "ask" /\ t[i + 2] = "automate" /\ t[i + 3] = "pause"
    OBVIOUS
  <2>1. i + 1 \in 1..Len(r) /\ r[i + 1] = "pause"
    BY <1>1
  <2>2. \/ i + 1 = Len(r)
        \/ Len(r) = (i + 1) + 3 /\ r[(i + 1) + 1] = "ask" /\ r[(i + 1) + 2] = "automate" /\ r[(i + 1) + 3] = "pause"
    BY <2>1 DEF Fine
  <2>3. CASE i + 1 = Len(r)
    BY <1>1, <2>3
  <2>4. CASE Len(r) = (i + 1) + 3 /\ r[(i + 1) + 1] = "ask" /\ r[(i + 1) + 2] = "automate" /\ r[(i + 1) + 3] = "pause"
    <3>1. Len(t) = i + 3 /\ i \in Nat
      BY <1>1, <2>4
    <3>2. t[i + 1] = r[(i + 1) + 1] /\ t[i + 2] = r[(i + 2) + 1] /\ t[i + 3] = r[(i + 3) + 1]
      BY <1>1, <3>1
    <3>3. (i + 2) + 1 = (i + 1) + 2 /\ (i + 3) + 1 = (i + 1) + 3
      BY <3>1
    <3> QED
      BY <2>4, <3>1, <3>2, <3>3
  <2> QED
    BY <2>2, <2>3, <2>4
<1>5. Len(t) \in 0..9
  <2>1. Len(t) = Len(r) - 1 /\ Len(r) \in 1..9
    BY <1>1
  <2>2. \A n \in 1..9 : n - 1 \in 0..9
    OBVIOUS
  <2> QED
    BY <2>1, <2>2
<1>6. Fine(t)
  <2> SUFFICES ASSUME NEW i \in 1..Len(t)
               PROVE  /\ t[i] = "pause" => \/ i = Len(t)
                                           \/ Len(t) = i + 3 /\ t[i + 1] = "ask" /\ t[i + 2] = "automate"
                                              /\ t[i + 3] = "pause"
                      /\ t[i] = "city" => Len(t) <= i + 2
                      /\ t[i] \in {"keep", "and"} => i < Len(t)
    BY <1>1, <1>5 DEF Fine
  <2>1. /\ t[i] = "city" => Len(t) <= i + 2
        /\ t[i] \in {"keep", "and"} => i < Len(t)
    BY <1>3
  <2>2. t[i] = "pause" => \/ i = Len(t)
                          \/ Len(t) = i + 3 /\ t[i + 1] = "ask" /\ t[i + 2] = "automate" /\ t[i + 3] = "pause"
    BY <1>4
  <2> QED
    BY <2>1, <2>2
<1> QED
  BY <1>2, <1>6 DEF t

LEMMA OfferTail ==
    ASSUME NEW r, Fine(r), Offer(r), r # <<>>
    PROVE  Offer(Tail(r))
<1> DEFINE t == Tail(r)
<1>1. /\ Len(t) = Len(r) - 1 /\ Len(r) \in 1..3
      /\ \A i \in 1..Len(t) : i + 1 \in 1..Len(r) /\ t[i] = r[i + 1]
  BY Tails DEF Fine, Offer
<1> HIDE DEF t
<1>2. CASE Len(r) = 1
  BY <1>1, <1>2 DEF Offer
<1>3. CASE Len(r) = 2
  <2>1. Len(t) = 1 /\ t[1] = r[2]
    BY <1>1, <1>3
  <2>2. r[2] = "pause"
    BY <1>3 DEF Offer
  <2> QED
    BY <2>1, <2>2 DEF Offer
<1>4. CASE Len(r) = 3
  <2>1. Len(t) = 2 /\ t[1] = r[2] /\ t[2] = r[3]
    BY <1>1, <1>4
  <2>2. r[3] = "pause" /\ r[3 - 1] = "automate" /\ 3 - 1 = 2 /\ 2 - 1 = 1
    BY <1>4 DEF Offer
  <2> QED
    BY <2>1, <2>2, SMTT(30) DEF Offer
<1> QED
  BY <1>1, <1>2, <1>3, <1>4 DEF t

\* The question about an unknown city comes before the city.
LEMMA Doubted ==
    ASSUME NEW r, Fine(r), Placed(r), r # <<>>, Head(r) = "city"
    PROVE  Fine(<<"keep">> \o r) /\ Placed(<<"keep">> \o r)
<1> DEFINE k == <<"keep">>
           t == k \o r
<1>1. r \in Seq(Kinds) /\ Len(r) \in 1..3 /\ r[1] = "city"
  <2>1. r \in Seq(Kinds) /\ Len(r) \in 1..9 /\ r[1] = "city"
    BY Tails DEF Fine
  <2>2. Len(r) <= 1 + 2
    BY <2>1 DEF Fine
  <2>3. \A n \in 1..9 : n <= 1 + 2 => n \in 1..3
    OBVIOUS
  <2> QED
    BY <2>1, <2>2, <2>3
<1>2. k \in Seq(Kinds) /\ Len(k) = 1 /\ k[1] = "keep"
  BY DEF Kinds
<1> HIDE DEF k
<1>3. /\ t \in Seq(Kinds) /\ Len(t) = Len(k) + Len(r)
      /\ \A i \in 1..(Len(k) + Len(r)) : t[i] = IF i <= Len(k) THEN k[i] ELSE r[i - Len(k)]
  BY <1>1, <1>2, ConcatProperties
<1> HIDE DEF t
<1>4. Len(t) = Len(r) + 1 /\ t[1] = "keep"
  BY <1>1, <1>2, <1>3
<1>5. \A i \in 1..Len(t) : i = 1 \/ (i - 1 \in 1..Len(r) /\ t[i] = r[i - 1])
  BY <1>1, <1>2, <1>3
<1>6. Placed(t)
  BY <1>4, <1>5 DEF Placed
<1>7. \A i \in 1..Len(t) : /\ t[i] = "pause" => i = Len(t)
                           /\ t[i] = "city" => Len(t) <= i + 2
                           /\ t[i] \in {"keep", "and"} => i < Len(t)
  <2> SUFFICES ASSUME NEW i \in 1..Len(t)
               PROVE  /\ t[i] = "pause" => i = Len(t)
                      /\ t[i] = "city" => Len(t) <= i + 2
                      /\ t[i] \in {"keep", "and"} => i < Len(t)
    OBVIOUS
  <2>1. CASE i = 1
    BY <1>1, <1>4, <2>1
  <2>2. CASE i - 1 \in 1..Len(r) /\ t[i] = r[i - 1]
    <3>1. r[i - 1] = "pause" => i - 1 = Len(r)
      BY <1>1, <2>2 DEF Fine
    <3>2. r[i - 1] = "city" => Len(r) <= (i - 1) + 2
      BY <1>1, <2>2 DEF Fine
    <3>3. r[i - 1] \in {"keep", "and"} => i - 1 < Len(r)
      BY <1>1, <2>2 DEF Fine
    <3> QED
      BY <1>1, <1>4, <2>2, <3>1, <3>2, <3>3
  <2> QED
    BY <1>5, <2>1, <2>2
<1>8. Fine(t)
  BY <1>1, <1>3, <1>4, <1>7 DEF Fine
<1> QED
  BY <1>6, <1>8 DEF t, k

LEMMA ShownFine == Fine(Shown) /\ Placed(Shown)
BY Short DEF Shown

Questions == {"required", "checked", "city", "wait", "go", "maybe", "line", "format", "must",
              "password", "pause", "and", "optional", "pick", "secret", "value", "report", "entry",
              "ask", "rows", "record", "keep"}

LEMMA Outcomes ==
    ASSUME NEW kind \in Questions, NEW l, NEW v \in Verdicts(kind, l)
    PROVE  /\ v \in {"on", "again", "skip", "doubt", "fail", "stop"}
           /\ v = "skip" => kind \in {"keep", "and"}
           /\ v = "doubt" => kind = "city"
           /\ kind = "pause" => v = "on"
           /\ kind = "ask" => v \in {"on", "stop"}
           /\ l = "m" /\ kind \in Navs \ {"pause"} => v = "stop"
<1>1. CASE kind \in {"pause", "wait", "line"}
  BY <1>1 DEF Verdicts, Navs
<1>2. CASE kind \in {"required", "checked", "city", "keep"}
  BY <1>2 DEF Verdicts, Navs
<1>3. CASE kind \in {"value", "maybe", "must", "password"}
  BY <1>3 DEF Verdicts, Navs
<1>4. CASE kind \in {"secret", "optional", "go", "and"}
  BY <1>4 DEF Verdicts, Navs
<1>5. CASE kind \in {"ask", "pick", "record", "rows"}
  BY <1>5 DEF Verdicts, Navs
<1>6. CASE kind \in {"format", "entry", "report"}
  BY <1>6 DEF Verdicts, Navs
<1> QED
  BY <1>1, <1>2, <1>3, <1>4, <1>5, <1>6 DEF Questions

LEMMA Rests ==
    ASSUME Fine(reads), Placed(reads), reads # <<>>, Head(reads) \in Questions,
           NEW l, NEW v \in Verdicts(Head(reads), l)
    PROVE  Fine(Rest(v)) /\ Placed(Rest(v))
<1>1. /\ v \in {"on", "again", "skip", "doubt", "fail", "stop"}
      /\ v = "skip" => Head(reads) \in {"keep", "and"}
      /\ v = "doubt" => Head(reads) = "city"
  BY Outcomes
<1>2. CASE v = "on"
  BY <1>2, TailFine DEF Rest
<1>3. CASE v = "again"
  BY <1>3 DEF Rest
<1>4. CASE v = "skip"
  <2>1. Fine(Tail(reads)) /\ Placed(Tail(reads))
    BY TailFine
  <2>2. reads[1] \in {"keep", "and"} /\ 1 \in 1..Len(reads) /\ Len(Tail(reads)) = Len(reads) - 1
    BY <1>1, <1>4, Tails DEF Fine
  <2>3. Tail(reads) # <<>>
    <3>1. 1 < Len(reads)
      BY <2>2 DEF Fine
    <3>2. Len(Tail(reads)) # 0 /\ Len(<<>>) = 0
      BY <2>2, <3>1
    <3> QED
      BY <3>2
  <2> QED
    BY <1>4, <2>1, <2>3, TailFine DEF Rest
<1>5. CASE v = "doubt"
  BY <1>1, <1>5, Doubted DEF Rest
<1>6. CASE v = "fail"
  BY <1>6, ShownFine DEF Rest
<1>7. CASE v = "stop"
  BY <1>7, Short DEF Rest
<1> QED
  BY <1>1, <1>2, <1>3, <1>4, <1>5, <1>6, <1>7

-----------------------------------------------------------------------------
(***************************************************************************)
(* The screens on the stack.                                               *)
(***************************************************************************)
LEMMA Popped ==
    ASSUME Shape, Len(stack) >= 1, stack' = Front(stack)
    PROVE  /\ Shape' /\ Len(stack') = Len(stack) - 1
           /\ \A i \in 1..Len(stack') : stack'[i] = stack[i]
<1>1. stack \in Seq(ScreenNames) /\ stack # <<>> /\ Len(stack) \in 1..3
  BY DEF Shape
<1>2. /\ stack' \in Seq(ScreenNames) /\ Len(stack') = Len(stack) - 1
      /\ \A i \in 1..Len(stack') : stack'[i] = stack[i]
  BY <1>1, Fronts
<1>3. CASE Len(stack) = 1
  BY <1>2, <1>3 DEF Shape
<1>4. CASE Len(stack) = 2
  <2>1. Len(stack') = 1 /\ stack'[1] = stack[1]
    BY <1>2, <1>4
  <2> QED
    BY <1>2, <1>4, <2>1 DEF Shape
<1>5. CASE Len(stack) = 3
  <2>1. Len(stack') = 2 /\ stack'[1] = stack[1] /\ stack'[2] = stack[2]
    BY <1>2, <1>5
  <2>2. stack[1] = "home" /\ stack[2] \in Loops
    BY <1>5 DEF Shape
  <2> QED
    BY <1>2, <2>1, <2>2 DEF Shape
<1> QED
  BY <1>1, <1>2, <1>3, <1>4, <1>5

LEMMA Opened ==
    ASSUME Shape, NEW screen \in ScreenNames, stack' = Append(stack, screen),
           \/ AtScreen("home") /\ screen \in Loops
           \/ AtScreen("setup") /\ screen = "email"
           \/ Len(stack) = 2 /\ stack[2] = "listings" /\ screen = "progress"
    PROVE  Shape' /\ Len(stack') = Len(stack) + 1 /\ stack'[1] = stack[1]
<1>1. stack \in Seq(ScreenNames) /\ Len(stack) \in 1..2
  BY DEF Shape, AtScreen
<1>2. /\ stack' \in Seq(ScreenNames) /\ Len(stack') = Len(stack) + 1 /\ stack'[Len(stack) + 1] = screen
      /\ \A i \in 1..Len(stack) : stack'[i] = stack[i]
  BY <1>1, AppendProperties
<1>3. CASE Len(stack) = 1
  <2>1. Len(stack') = 2 /\ stack'[1] = stack[1] /\ stack'[2] = screen
    BY <1>2, <1>3
  <2>2. (stack[1] = "home" /\ screen \in Loops) \/ (stack[1] = "setup" /\ screen = "email")
    BY <1>3 DEF AtScreen
  <2> QED
    BY <1>2, <1>3, <2>1, <2>2 DEF Shape
<1>4. CASE Len(stack) = 2
  <2>1. Len(stack') = 3 /\ stack'[1] = stack[1] /\ stack'[2] = stack[2] /\ stack'[3] = screen
    BY <1>2, <1>4
  <2>2. stack[2] = "listings" /\ screen = "progress"
    BY <1>4 DEF AtScreen
  <2>3. stack[1] = "home" /\ stack[2] \in Loops
    BY <1>4, <2>2 DEF Shape
  <2> QED
    BY <1>2, <1>4, <2>1, <2>2, <2>3 DEF Shape
<1> QED
  BY <1>1, <1>3, <1>4

LEMMA Innermost ==
    ASSUME Shape, Len(stack) >= 1
    PROVE  /\ Screen \in {"home", "setup"} <=> Len(stack) = 1
           /\ Screen = "listings" => Len(stack) = 2 /\ stack[1] = "home" /\ stack[2] = "listings"
           /\ Screen = stack[Len(stack)]
<1>1. Screen = stack[Len(stack)] /\ Len(stack) \in {1, 2, 3}
  BY DEF Screen, Last, Shape
<1>2. CASE Len(stack) = 1
  BY <1>1, <1>2 DEF Shape
<1>3. CASE Len(stack) = 2
  BY <1>1, <1>3 DEF Shape, Loops
<1>4. CASE Len(stack) = 3
  BY <1>1, <1>4 DEF Shape
<1> QED
  BY <1>1, <1>2, <1>3, <1>4

\* Nothing but the offer is read on the way home.
LEMMA NotOnTheWay ==
    ASSUME Fine(reads), Homeward, Len(stack) >= 1, reads # <<>>, Head(reads) \notin {"ask", "automate", "pause"}
    PROVE  ~(jumped = "screen" /\ stack[1] = "home")
<1> SUFFICES ASSUME jumped = "screen", stack[1] = "home"
             PROVE  FALSE
  OBVIOUS
<1>1. Len(reads) \in 1..9 /\ reads[1] \notin {"ask", "automate", "pause"}
  BY Tails DEF Fine
<1>2. Offer(reads)
  BY <1>1 DEF Homeward
<1>3. CASE Len(reads) = 1
  BY <1>1, <1>2, <1>3 DEF Offer
<1>4. CASE Len(reads) = 2
  <2>1. reads[2 - 1] = "automate" /\ 2 - 1 = 1
    BY <1>2, <1>4 DEF Offer
  <2> QED
    BY <1>1, <2>1
<1>5. CASE Len(reads) = 3
  BY <1>1, <1>2, <1>5 DEF Offer
<1> QED
  BY <1>1, <1>2, <1>3, <1>4, <1>5 DEF Offer

\* The same screen, with a dialog that belongs to it.
LEMMA SameScreen ==
    ASSUME Shape, Settled, stack' = stack, stage' = stage, Fine(reads'), Placed(reads'),
           Len(stack) >= 1, {goHome', eof', held'} \subseteq BOOLEAN,
           \/ ~(jumped' = "screen" /\ stack[1] = "home")
           \/ goHome' /\ reads' = <<>>
           \/ goHome' /\ Len(stack) = 2 /\ stack[2] = "playbooks" /\ Offer(reads')
    PROVE  Flow'
<1>1. Shape' /\ Settled'
  BY DEF Shape, Settled
<1>2. Fine(reads)' /\ Placed(reads)'
  BY DEF Fine, Placed, AtScreen, AtMenus
<1>3. Closed'
  BY DEF Closed
<1>4. Homeward'
  <2>1. CASE ~(jumped' = "screen" /\ stack[1] = "home")
    BY <2>1 DEF Homeward
  <2>2. CASE goHome' /\ reads' = <<>>
    BY <2>2 DEF Homeward
  <2>3. CASE goHome' /\ Len(stack) = 2 /\ stack[2] = "playbooks" /\ Offer(reads')
    BY <2>3 DEF Homeward, Offer
  <2> QED
    BY <2>1, <2>2, <2>3
<1> QED
  BY <1>1, <1>2, <1>3, <1>4 DEF Flow

\* One screen less, with a read that belongs to any.
LEMMA OuterScreen ==
    ASSUME Shape, Settled, stack' = Front(stack), stage' = stage, Len(stack) >= 2,
           {goHome', eof', held'} \subseteq BOOLEAN,
           \/ reads' = <<>> /\ goHome'
           \/ reads' \in {<<>>, <<"pause">>, <<"wait">>, <<"empty">>} /\ ~(jumped' = "screen" /\ stack[1] = "home")
    PROVE  Flow'
<1>1. Shape' /\ Len(stack') = Len(stack) - 1 /\ \A i \in 1..Len(stack') : stack'[i] = stack[i]
  BY Popped
<1>2. Len(stack') \in 1..2 /\ stack'[1] = stack[1]
  BY <1>1 DEF Shape
<1>3. Settled'
  BY <1>2 DEF Settled
<1>4. Fine(reads)'
  <2>1. reads' \in {<<>>, <<"pause">>, <<"wait">>, <<"empty">>}
    OBVIOUS
  <2>2. Fine(reads')
    BY <2>1, Short
  <2> QED
    BY <2>2 DEF Fine
<1>5. Placed(reads)'
  <2>1. reads' \in {<<>>, <<"pause">>, <<"wait">>, <<"empty">>}
    OBVIOUS
  <2> QED
    BY <2>1 DEF Placed
<1>6. Closed'
  BY <1>2 DEF Closed
<1>7. Homeward'
  <2>1. CASE reads' = <<>> /\ goHome'
    BY <2>1 DEF Homeward
  <2>2. CASE ~(jumped' = "screen" /\ stack[1] = "home")
    BY <1>2, <2>2 DEF Homeward
  <2> QED
    BY <2>1, <2>2
<1> QED
  BY <1>1, <1>3, <1>4, <1>5, <1>6, <1>7 DEF Flow

-----------------------------------------------------------------------------
LEMMA FlowInit == TInit => Flow
<1> SUFFICES ASSUME TInit PROVE Flow
  OBVIOUS
<1>1. stack \in {<<"setup">>, <<"home">>}
  BY DEF TInit
<1>2. Shape
  BY <1>1 DEF Shape, ScreenNames
<1>3. Settled
  <2>1. {goHome, eof, held} \subseteq BOOLEAN
    BY DEF TInit
  <2>2. stage = 0 /\ 0 \in 0..6 /\ 0 \in 0..5
    BY DEF TInit
  <2> QED
    BY <2>1, <2>2 DEF Settled
<1>4. Fine(reads) /\ Placed(reads) /\ Closed
  BY Short DEF TInit, Closed
<1>5. Homeward
  BY DEF TInit, Homeward
<1> QED
  BY <1>2, <1>3, <1>4, <1>5 DEF Flow

\* A dialog is open only on a screen.
LEMMA Somewhere ==
    ASSUME Flow, reads # <<>>
    PROVE  Len(stack) >= 1 /\ Len(reads) \in 1..9 /\ Head(reads) = reads[1] /\ reads \in Seq(Kinds)
<1>1. Len(reads) \in 1..9 /\ Head(reads) = reads[1] /\ reads \in Seq(Kinds)
  BY Tails DEF Flow, Fine
<1> QED
  BY <1>1 DEF Flow, Closed, Shape

LEMMA FlowDrawHome == ASSUME Flow, DrawHome PROVE Flow'
<1>1. reads' = <<"menu">> /\ stack' = stack /\ Len(stack) = 1 /\ stack[1] = "home"
  BY DEF DrawHome
<1>2. Placed(<<"menu">>)
  BY <1>1 DEF Placed, AtScreen
<1>3. Fine(reads') /\ Placed(reads')
  BY <1>1, <1>2, Short
<1>4. /\ {goHome', eof', held'} \subseteq BOOLEAN /\ stage' = stage
      /\ ~(jumped' = "screen" /\ stack[1] = "home")
  BY DEF Flow, Settled, DrawHome, given
<1> QED
  BY <1>1, <1>3, <1>4, SameScreen DEF Flow

LEMMA ChoicePlaced == ASSUME Len(stack) >= 2 PROVE Placed(<<"choice">>)
BY DEF Placed

LEMMA FlowDrawLoop == ASSUME Flow, DrawLoop PROVE Flow'
<1>1. Len(stack) >= 2 /\ reads = <<>>
  <2>1. stack # <<>> /\ Screen \notin {"home", "setup"} /\ reads = <<>>
    BY DEF DrawLoop
  <2>2. Len(stack) >= 1
    BY <2>1, EmptySeq DEF Flow, Shape
  <2> QED
    BY <2>1, <2>2, Innermost DEF Flow, Shape
<1>2. {goHome', eof', held'} \subseteq BOOLEAN /\ stage' = stage /\ goHome' = goHome /\ jumped' = jumped
  BY DEF DrawLoop, Flow, Settled, given
<1>3. CASE goHome
  <2>1. stack' = Front(stack) /\ reads' = <<>>
    BY <1>1, <1>3 DEF DrawLoop, Look, Pop
  <2> QED
    BY <1>1, <1>2, <1>3, <2>1, OuterScreen DEF Flow
<1>4. CASE ~goHome
  <2>1. ~(jumped = "screen" /\ stack[1] = "home")
    <3>1. jumped = "screen" /\ stack[1] = "home" => goHome \/ Len(stack) = 1
      BY <1>1 DEF Flow, Homeward
    <3>2. Len(stack) # 1
      BY <1>1 DEF Flow, Shape
    <3> QED
      BY <1>4, <3>1, <3>2
  <2>2. CASE Look
    <3>1. stack' = stack /\ reads' = <<"choice">>
      BY <1>4, <2>2 DEF Look
    <3>2. Fine(reads') /\ Placed(reads')
      BY <1>1, <3>1, Short, ChoicePlaced
    <3> QED
      BY <1>1, <1>2, <2>1, <3>1, <3>2, SameScreen DEF Flow
  <2>3. CASE Pop /\ reads' = <<"pause">>
    BY <1>1, <1>2, <2>1, <2>3, OuterScreen DEF Flow, Pop
  <2> QED
    BY <2>2, <2>3 DEF DrawLoop
<1> QED
  BY <1>3, <1>4 DEF Flow, Settled

LEMMA FlowNextStage == ASSUME Flow, NextStage PROVE Flow'
<1>1. /\ Len(stack) = 1 /\ stack[1] = "setup" /\ reads = <<>> /\ AtScreen("setup")
      /\ stage \in 0..5 /\ stage' = stage + 1 /\ goHome' = FALSE /\ jumped' = jumped
      /\ {eof', held'} \subseteq BOOLEAN /\ Len(Setup) = 5
  BY DEF NextStage, Flow, Settled, given, AtScreen, Setup
<1>2. CASE stage = 5
  <2>1. stack' = <<"home">> /\ reads' = <<>>
    BY <1>1, <1>2 DEF NextStage
  <2>2. Shape'
    BY <2>1 DEF Shape, ScreenNames
  <2>3. Settled'
    <3>1. {goHome', eof', held'} \subseteq BOOLEAN
      BY <1>1
    <3>2. stage' \in 0..6 /\ stack'[1] # "setup"
      BY <1>1, <1>2, <2>1
    <3> QED
      BY <3>1, <3>2 DEF Settled
  <2>4. Fine(reads)' /\ Placed(reads)' /\ Closed'
    BY <2>1, Short DEF Placed, Fine, Closed
  <2>5. Homeward'
    BY <2>1 DEF Homeward
  <2> QED
    BY <2>2, <2>3, <2>4, <2>5 DEF Flow
<1>3. CASE stage \in 0..4
  <2>1. stack' = stack /\ reads' = Setup[stage + 1]
    BY <1>1, <1>3 DEF NextStage
  <2>2. Fine(reads') /\ Placed(reads')
    BY <1>1, <1>3, <2>1, SetupFine
  <2>3. Shape' /\ Settled'
    <3>1. Shape'
      BY <2>1 DEF Flow, Shape
    <3>2. {goHome', eof', held'} \subseteq BOOLEAN
      BY <1>1
    <3>3. stage' \in 0..6 /\ stage' \in 0..5
      BY <1>1, <1>3
    <3> QED
      BY <3>1, <3>2, <3>3 DEF Settled
  <2>4. Fine(reads)' /\ Placed(reads)' /\ Closed'
    <3>1. Fine(reads)'
      BY <2>2 DEF Fine
    <3>2. Placed(reads)'
      BY <2>1, <2>2 DEF Placed, AtScreen, AtMenus
    <3> QED
      BY <1>1, <2>1, <3>1, <3>2 DEF Closed
  <2>5. Homeward'
    BY <1>1, <2>1 DEF Homeward
  <2> QED
    BY <2>3, <2>4, <2>5 DEF Flow
<1> QED
  BY <1>1, <1>2, <1>3

LEMMA FlowDrawListings == ASSUME Flow, DrawListings PROVE Flow'
<1>1. Len(stack) >= 2 /\ stack[1] = "home" /\ reads = <<>>
  <2>1. stack # <<>> /\ Screen = "listings" /\ reads = <<>>
    BY DEF DrawListings
  <2>2. Len(stack) >= 1
    BY <2>1, EmptySeq DEF Flow, Shape
  <2> QED
    BY <2>1, <2>2, Innermost DEF Flow, Shape
<1>2. {goHome', eof', held'} \subseteq BOOLEAN /\ stage' = stage /\ goHome' = goHome /\ jumped' = jumped
  BY DEF DrawListings, Flow, Settled, given
<1>3. CASE goHome
  <2>1. stack' = Front(stack) /\ reads' = <<>>
    BY <1>1, <1>3 DEF DrawListings, Pop
  <2> QED
    BY <1>1, <1>2, <1>3, <2>1, OuterScreen DEF Flow
<1>4. CASE ~goHome
  <2>1. ~(jumped = "screen" /\ stack[1] = "home")
    <3>1. jumped = "screen" /\ stack[1] = "home" => goHome \/ Len(stack) = 1
      BY <1>1 DEF Flow, Homeward
    <3>2. Len(stack) # 1
      BY <1>1 DEF Flow, Shape
    <3> QED
      BY <1>4, <3>1, <3>2
  <2>2. \/ Pop /\ reads' \in {<<"wait">>, <<"empty">>}
        \/ stack' = stack /\ reads' = <<"choice">>
    BY <1>4 DEF DrawListings
  <2>3. CASE Pop /\ reads' \in {<<"wait">>, <<"empty">>}
    BY <1>1, <1>2, <2>1, <2>3, OuterScreen DEF Flow, Pop
  <2>4. CASE stack' = stack /\ reads' = <<"choice">>
    <3>1. Fine(reads') /\ Placed(reads')
      BY <1>1, <2>4, Short, ChoicePlaced
    <3> QED
      BY <1>1, <1>2, <2>1, <2>4, <3>1, SameScreen DEF Flow
  <2> QED
    BY <2>2, <2>3, <2>4
<1> QED
  BY <1>3, <1>4 DEF Flow, Settled

LEMMA FlowReadLine == ASSUME Flow, ReadLine PROVE Flow'
<1>1. reads # <<>> /\ Head(reads) \notin Works \cup {"menu", "choice", "empty", "number", "find"}
  BY DEF ReadLine
<1>2. Len(stack) >= 1 /\ Len(reads) \in 1..9 /\ Head(reads) = reads[1] /\ reads \in Seq(Kinds)
  BY <1>1, Somewhere
<1>3. Head(reads) \in Questions
  <2>1. reads[1] \in Kinds
    BY <1>2, ElementOfSeq
  <2> QED
    BY <1>1, <1>2, <2>1 DEF Kinds, Questions
<1>0. PICK l \in Lines : \E v \in Verdicts(Head(reads), l) :
         /\ reads' = Rest(v) /\ goHome' = (goHome \/ (l = "m" /\ Head(reads) \in Navs))
         /\ Typed(Head(reads), l)
  BY DEF ReadLine
<1>4. PICK v \in Verdicts(Head(reads), l) :
         /\ reads' = Rest(v) /\ goHome' = (goHome \/ (l = "m" /\ Head(reads) \in Navs))
         /\ Typed(Head(reads), l)
  BY <1>0
<1>5. stack' = stack /\ stage' = stage /\ held' = held /\ eof' = eof
  BY DEF ReadLine, given
<1>6. Fine(reads') /\ Placed(reads')
  BY <1>1, <1>3, <1>4, Rests DEF Flow
<1>7. /\ goHome' = (goHome \/ (l = "m" /\ Head(reads) \in Navs))
      /\ ~(l = "m" /\ Head(reads) \in Navs) => jumped' \in {jumped, "menu"}
  BY <1>4 DEF Typed
<1>8. {goHome', eof', held'} \subseteq BOOLEAN
  BY <1>5, <1>7 DEF Flow, Settled
<1>9. CASE l = "m" /\ Head(reads) \in Navs
  <2>1. goHome'
    BY <1>7, <1>9
  <2>2. CASE Head(reads) # "pause"
    <3>1. reads' = <<>>
      BY <1>3, <1>4, <1>9, <2>2, Outcomes DEF Rest
    <3> QED
      BY <1>2, <1>5, <1>6, <1>8, <2>1, <3>1, SameScreen DEF Flow
  <2>3. CASE Head(reads) = "pause"
    <3>1. reads' = Tail(reads)
      BY <1>3, <1>4, <2>3, Outcomes DEF Rest
    <3>2. Len(reads') = Len(reads) - 1 /\ \A i \in 1..(Len(reads) - 1) : reads'[i] = reads[i + 1]
      BY <1>1, <1>2, <3>1, Tails
    <3>3. reads' \in Seq(Kinds)
      BY <1>1, <1>2, <3>1, Tails
    <3>4. \/ 1 = Len(reads)
          \/ Len(reads) = 1 + 3 /\ reads[1 + 1] = "ask" /\ reads[1 + 2] = "automate" /\ reads[1 + 3] = "pause"
      <4>1. reads[1] = "pause" /\ 1 \in 1..Len(reads)
        BY <1>2, <2>3
      <4>2. reads[1] = "pause" =>
               \/ 1 = Len(reads)
               \/ Len(reads) = 1 + 3 /\ reads[1 + 1] = "ask" /\ reads[1 + 2] = "automate" /\ reads[1 + 3] = "pause"
        BY <4>1 DEF Flow, Fine
      <4> QED
        BY <4>1, <4>2
    <3>5. CASE Len(reads) = 1
      <4>1. reads' = <<>>
        BY <3>2, <3>3, <3>5, EmptySeq
      <4> QED
        BY <1>2, <1>5, <1>6, <1>8, <2>1, <4>1, SameScreen DEF Flow
    <3>6. CASE Len(reads) = 4 /\ reads[2] = "ask" /\ reads[3] = "automate" /\ reads[4] = "pause"
      <4>1. Len(stack) = 2 /\ stack[2] = "playbooks"
        BY <3>6 DEF Flow, Placed
      <4>2. Len(reads') = 3 /\ reads'[1] = "ask" /\ reads'[2] = "automate" /\ reads'[3] = "pause"
        BY <3>2, <3>6
      <4>3. Offer(reads')
        BY <4>2 DEF Offer
      <4> QED
        BY <1>2, <1>5, <1>6, <1>8, <2>1, <4>1, <4>3, SameScreen DEF Flow
    <3> QED
      BY <3>4, <3>5, <3>6
  <2> QED
    BY <2>2, <2>3
<1>10. CASE ~(l = "m" /\ Head(reads) \in Navs)
  <2>1. goHome' = goHome
    BY <1>7, <1>10 DEF Flow, Settled
  <2>2. CASE ~(jumped = "screen" /\ stack[1] = "home")
    <3>1. ~(jumped' = "screen" /\ stack[1] = "home")
      BY <1>7, <1>10, <2>2
    <3> QED
      BY <1>2, <1>5, <1>6, <1>8, <3>1, SameScreen DEF Flow
  <2>3. CASE jumped = "screen" /\ stack[1] = "home"
    <3>1. goHome /\ Len(stack) = 2 /\ stack[2] = "playbooks" /\ Offer(reads)
      BY <1>2, <2>3 DEF Flow, Homeward
    <3>2. Head(reads) \in {"ask", "automate", "pause"}
      BY <1>1, <1>2, <2>3, NotOnTheWay DEF Flow
    <3>3. Head(reads) \in {"ask", "pause"}
      BY <1>1, <3>2 DEF Works
    <3>4. v \in {"on", "stop"}
      BY <1>3, <1>4, <3>3, Outcomes
    <3>5. Offer(Tail(reads)) /\ Offer(<<>>)
      BY <1>1, <3>1, OfferTail, Short DEF Flow
    <3>6. Offer(reads')
      BY <1>4, <3>4, <3>5 DEF Rest
    <3> QED
      BY <1>2, <1>5, <1>6, <1>8, <2>1, <3>1, <3>6, SameScreen DEF Flow
  <2> QED
    BY <2>2, <2>3
<1> QED
  BY <1>9, <1>10

\* Most lines leave the screens and the flag alone.
LEMMA NextRead ==
    ASSUME Flow, reads # <<>>, Head(reads) \notin {"ask", "automate", "pause"},
           stack' = stack, UNCHANGED <<goHome, stage, jumped, held, eof>>, Fine(reads'), Placed(reads')
    PROVE  Flow'
<1>1. Len(stack) >= 1
  BY Somewhere
<1>2. ~(jumped = "screen" /\ stack[1] = "home")
  BY <1>1, NotOnTheWay DEF Flow
<1>3. {goHome', eof', held'} \subseteq BOOLEAN /\ ~(jumped' = "screen" /\ stack[1] = "home")
  BY <1>2 DEF Flow, Settled
<1> QED
  BY <1>1, <1>3, SameScreen DEF Flow

LEMMA FlowEnds ==
    ASSUME Flow, stack' = <<>>, reads' = <<>>, UNCHANGED <<goHome, stage, jumped, held, eof>>
    PROVE  Flow'
<1>1. Shape' /\ Settled'
  <2>1. Shape'
    BY DEF Shape
  <2>2. {goHome', eof', held'} \subseteq BOOLEAN
    BY DEF Flow, Settled
  <2>3. stage' \in 0..6 /\ Len(stack') = 0
    BY DEF Flow, Settled
  <2> QED
    BY <2>1, <2>2, <2>3 DEF Settled
<1>2. Fine(reads)' /\ Placed(reads)' /\ Closed' /\ Homeward'
  <2>1. Fine(reads)'
    BY Short DEF Fine
  <2> QED
    BY <2>1 DEF Placed, Closed, Homeward
<1> QED
  BY <1>1, <1>2 DEF Flow

LEMMA FlowWork == ASSUME Flow, Work PROVE Flow'
<1>1. /\ reads # <<>> /\ Head(reads) \in Works /\ UNCHANGED <<goHome, stage, jumped, held, eof>>
  BY DEF Work, given
<1>2. Len(stack) >= 1 /\ Len(reads) \in 1..9
  BY <1>1, Somewhere
<1>3. CASE stack' = <<>> /\ reads' = <<>>
  BY <1>1, <1>3, FlowEnds
<1>4. CASE stack' = stack /\ reads' \in {Tail(reads), Shown}
  <2>1. Fine(reads') /\ Placed(reads')
    BY <1>1, <1>4, TailFine, ShownFine DEF Flow
  <2>2. CASE Head(reads) # "automate"
    <3>1. Head(reads) \notin {"ask", "automate", "pause"}
      BY <1>1, <2>2 DEF Works
    <3> QED
      BY <1>1, <1>4, <2>1, <3>1, NextRead
  <2>3. CASE ~(jumped = "screen" /\ stack[1] = "home")
    <3>1. {goHome', eof', held'} \subseteq BOOLEAN /\ ~(jumped' = "screen" /\ stack[1] = "home")
      BY <1>1, <2>3 DEF Flow, Settled
    <3> QED
      BY <1>1, <1>2, <1>4, <2>1, <3>1, SameScreen DEF Flow
  <2>4. CASE jumped = "screen" /\ stack[1] = "home"
    <3>1. goHome /\ Len(stack) = 2 /\ stack[2] = "playbooks" /\ Offer(reads)
      <4>1. Homeward
        BY DEF Flow
      <4>2. Len(reads) >= 1
        BY <1>2
      <4>3. (goHome \/ Len(stack) = 1) /\ Len(stack) = 2 /\ stack[2] = "playbooks" /\ Offer(reads)
        BY <1>2, <2>4, <4>1, <4>2 DEF Homeward
      <4> QED
        BY <4>3
    <3>2. Last(reads) = "pause"
      BY <1>2, <3>1 DEF Offer, Last
    <3>3. Shown = <<"pause">>
      BY <3>2 DEF Shown
    <3>4. Offer(reads')
      BY <1>1, <1>4, <3>1, <3>3, OfferTail, Short DEF Flow
    <3>5. {goHome', eof', held'} \subseteq BOOLEAN /\ goHome'
      BY <1>1, <3>1 DEF Flow, Settled
    <3> QED
      BY <1>1, <1>2, <1>4, <2>1, <3>1, <3>4, <3>5, SameScreen DEF Flow
  <2> QED
    BY <2>2, <2>3, <2>4
<1> QED
  BY <1>3, <1>4 DEF Work

LEMMA FlowVerify == ASSUME Flow, Verify PROVE Flow'
<1>1. /\ reads # <<>> /\ Head(reads) = "verify" /\ stack' = stack
      /\ UNCHANGED <<goHome, stage, jumped, held, eof>> /\ reads' \in {Tail(reads), Shown}
  BY DEF Verify, given
<1>2. Fine(reads') /\ Placed(reads')
  BY <1>1, TailFine, ShownFine DEF Flow
<1> QED
  BY <1>1, <1>2, NextRead

\* A screen opens before anything is read on it.
LEMMA InnerScreen ==
    ASSUME Flow, reads # <<>>, Head(reads) \notin {"ask", "automate", "pause"}, reads' = <<>>,
           NEW screen \in ScreenNames, stack' = Append(stack, screen),
           \/ AtScreen("home") /\ screen \in Loops
           \/ AtScreen("setup") /\ screen = "email"
           \/ Len(stack) = 2 /\ stack[2] = "listings" /\ screen = "progress",
           UNCHANGED <<goHome, stage, jumped, held, eof>>
    PROVE  Flow'
<1>1. Len(stack) >= 1
  BY Somewhere
<1>2. ~(jumped = "screen" /\ stack[1] = "home")
  BY <1>1, NotOnTheWay DEF Flow
<1>3. Shape' /\ Len(stack') = Len(stack) + 1 /\ stack'[1] = stack[1]
  BY Opened DEF Flow
<1>4. Settled'
  <2>1. {goHome', eof', held'} \subseteq BOOLEAN
    BY DEF Flow, Settled
  <2>2. stage' \in 0..6 /\ (stack'[1] = "setup" => stage' \in 0..5)
    BY <1>1, <1>3 DEF Flow, Settled
  <2> QED
    BY <2>1, <2>2 DEF Settled
<1>5. Fine(reads)' /\ Placed(reads)' /\ Closed'
  <2>1. Fine(reads)'
    BY Short DEF Fine
  <2> QED
    BY <2>1 DEF Placed, Closed
<1>6. Homeward'
  BY <1>2, <1>3 DEF Homeward
<1> QED
  BY <1>3, <1>4, <1>5, <1>6 DEF Flow

LEMMA FlowOpenMail == ASSUME Flow, OpenMail PROVE Flow'
<1>1. /\ reads # <<>> /\ Head(reads) = "email" /\ stack' = Append(stack, "email") /\ reads' = <<>>
      /\ UNCHANGED <<goHome, stage, jumped, held, eof>>
  BY DEF OpenMail, given
<1>2. AtScreen("setup")
  <2>1. 1 \in 1..Len(reads) /\ reads[1] = "email"
    BY <1>1, Somewhere
  <2> QED
    BY <2>1 DEF Flow, Placed
<1> QED
  BY <1>1, <1>2, InnerScreen DEF ScreenNames, Loops

LEMMA FlowChooseHome == ASSUME Flow, ChooseHome PROVE Flow'
<1>1. /\ reads # <<>> /\ Head(reads) = "menu" /\ Len(reads) = 1 /\ reads[1] = "menu"
      /\ UNCHANGED <<goHome, stage, jumped, held, eof>>
  <2>1. reads = <<"menu">> /\ UNCHANGED <<goHome, stage, jumped, held, eof>>
    BY DEF ChooseHome, given
  <2> QED
    BY <2>1
<1>2. AtScreen("home")
  BY <1>1 DEF Flow, Placed
<1>3. CASE stack' = <<>> /\ reads' = <<>>
  BY <1>1, <1>3, FlowEnds
<1>4. CASE stack' = stack /\ reads' = <<>>
  BY <1>1, <1>4, Short, NextRead
<1>5. CASE stack' = stack /\ reads' \in Dialogs
  <2>1. Fine(reads') /\ Placed(reads')
    BY <1>2, <1>5, Dialogues DEF Flow, AtScreen
  <2> QED
    BY <1>1, <1>5, <2>1, NextRead
<1>6. CASE stack' = stack /\ reads' \in NeedLocal
  <2>1. Fine(reads') /\ Placed(reads')
    BY <1>6, Short DEF NeedLocal
  <2> QED
    BY <1>1, <1>6, <2>1, NextRead
<1>7. CASE \E screen \in Loops : stack' = Append(stack, screen) /\ reads' = <<>>
  <2>1. PICK screen \in Loops : stack' = Append(stack, screen) /\ reads' = <<>>
    BY <1>7
  <2>2. screen \in ScreenNames
    BY DEF ScreenNames
  <2> QED
    BY <1>1, <1>2, <2>1, <2>2, InnerScreen
<1> QED
  BY <1>3, <1>4, <1>5, <1>6, <1>7 DEF ChooseHome

LEMMA Chosen ==
    ASSUME Flow, reads = <<"choice">>
    PROVE  /\ Len(stack) >= 2 /\ ~(jumped = "screen" /\ stack[1] = "home") /\ reads # <<>> /\ Head(reads) = "choice"
<1>1. reads # <<>> /\ Head(reads) = "choice" /\ 1 \in 1..Len(reads) /\ reads[1] = "choice"
  OBVIOUS
<1>2. Len(stack) >= 2
  BY <1>1 DEF Flow, Placed
<1>3. Len(stack) >= 1
  BY <1>1, Somewhere
<1> QED
  BY <1>1, <1>2, <1>3, NotOnTheWay DEF Flow

LEMMA FlowChoose == ASSUME Flow, Choose PROVE Flow'
<1>1. reads = <<"choice">> /\ UNCHANGED <<stage, held, eof>>
  BY DEF Choose, given
<1>2. Len(stack) >= 2 /\ ~(jumped = "screen" /\ stack[1] = "home") /\ Len(stack) >= 1
  BY <1>1, Chosen, Somewhere
<1>3. PICK l \in Lines :
         /\ Jump(l = "m")
         /\ \/ l \in {"m", "0", ""} /\ Pop /\ reads' = <<>>
            \/ l = "text" /\ reads' \in Dialogs /\ UNCHANGED stack
            \/ l \in {"y", "bad"} /\ reads' = <<>> /\ UNCHANGED stack
  BY DEF Choose
<1>4. goHome' = (goHome \/ l = "m") /\ jumped' = IF l = "m" THEN "screen" ELSE jumped
  BY <1>3 DEF Jump
<1>5. {goHome', eof', held'} \subseteq BOOLEAN
  BY <1>1, <1>4 DEF Flow, Settled
<1>6. l # "m" => ~(jumped' = "screen" /\ stack[1] = "home")
  BY <1>2, <1>4
<1>7. CASE l \in {"m", "0", ""} /\ Pop /\ reads' = <<>>
  <2>1. stack' = Front(stack)
    BY <1>7 DEF Pop
  <2>2. goHome' \/ ~(jumped' = "screen" /\ stack[1] = "home")
    BY <1>4, <1>6
  <2> QED
    BY <1>1, <1>2, <1>5, <1>7, <2>1, <2>2, OuterScreen DEF Flow
<1>8. CASE l = "text" /\ reads' \in Dialogs /\ UNCHANGED stack
  <2>1. Fine(reads') /\ Placed(reads')
    BY <1>2, <1>8, Dialogues DEF Flow
  <2>2. ~(jumped' = "screen" /\ stack[1] = "home")
    BY <1>6, <1>8
  <2> QED
    BY <1>1, <1>2, <1>5, <1>8, <2>1, <2>2, SameScreen DEF Flow
<1>9. CASE l \in {"y", "bad"} /\ reads' = <<>> /\ UNCHANGED stack
  <2>1. ~(jumped' = "screen" /\ stack[1] = "home")
    BY <1>6, <1>9
  <2> QED
    BY <1>1, <1>2, <1>5, <1>9, <2>1, Short, SameScreen DEF Flow
<1> QED
  BY <1>3, <1>7, <1>8, <1>9

LEMMA FlowLeaveEmpty == ASSUME Flow, LeaveEmpty PROVE Flow'
<1>1. /\ reads # <<>> /\ Head(reads) = "empty" /\ reads' = <<>> /\ stack' = stack
      /\ UNCHANGED <<stage, held, eof>>
  BY DEF LeaveEmpty, given
<1>2. Len(stack) >= 1
  BY <1>1, Somewhere
<1>3. ~(jumped = "screen" /\ stack[1] = "home")
  BY <1>1, <1>2, NotOnTheWay DEF Flow
<1>4. PICK l \in Lines : goHome' = (goHome \/ l = "m") /\ jumped' = IF l = "m" THEN "screen" ELSE jumped
  BY DEF LeaveEmpty, Jump
<1>5. {goHome', eof', held'} \subseteq BOOLEAN
  BY <1>1, <1>4 DEF Flow, Settled
<1>6. goHome' \/ ~(jumped' = "screen" /\ stack[1] = "home")
  BY <1>3, <1>4
<1> QED
  BY <1>1, <1>2, <1>5, <1>6, Short, SameScreen DEF Flow

LEMMA FlowLeaveListings == ASSUME Flow, LeaveListings PROVE Flow'
<1>1. reads = <<"choice">> /\ stack' = Front(stack) /\ reads' = <<>> /\ UNCHANGED <<stage, held, eof>>
  BY DEF LeaveListings, Listing, Pop, given
<1>2. Len(stack) >= 2 /\ ~(jumped = "screen" /\ stack[1] = "home")
  BY <1>1, Chosen
<1>3. PICK l \in Lines : goHome' = (goHome \/ l = "m") /\ jumped' = IF l = "m" THEN "screen" ELSE jumped
  BY DEF LeaveListings, Jump
<1>4. {goHome', eof', held'} \subseteq BOOLEAN
  BY <1>1, <1>3 DEF Flow, Settled
<1>5. goHome' \/ ~(jumped' = "screen" /\ stack[1] = "home")
  BY <1>2, <1>3
<1> QED
  BY <1>1, <1>2, <1>4, <1>5, OuterScreen DEF Flow

\* The page, the filter, a search, the progress and a record: the reads that follow.
LEMMA FlowPaging ==
    ASSUME Flow, TurnPage \/ AskPage \/ GotoPage \/ Clear \/ Find \/ FindText \/ ShowListing
    PROVE  Flow'
<1>1. /\ reads \in {<<"choice">>, <<"number">>, <<"find">>} /\ stack' = stack
      /\ UNCHANGED <<goHome, stage, jumped, held, eof>>
      /\ reads' \in {<<>>, <<"number">>, <<"find">>} \cup Record
  <2>1. CASE TurnPage
    BY <2>1 DEF TurnPage, Listing, given
  <2>2. CASE AskPage
    BY <2>2 DEF AskPage, Listing, given
  <2>3. CASE GotoPage
    BY <2>3 DEF GotoPage, given
  <2>4. CASE Clear
    BY <2>4 DEF Clear, Listing, given
  <2>5. CASE Find
    BY <2>5 DEF Find, Listing, given
  <2>6. CASE FindText
    BY <2>6 DEF FindText, given
  <2>7. CASE ShowListing
    BY <2>7 DEF ShowListing, Listing, given
  <2> QED
    BY <2>1, <2>2, <2>3, <2>4, <2>5, <2>6, <2>7
<1>2. reads # <<>> /\ Head(reads) \notin {"ask", "automate", "pause"}
  BY <1>1
<1>3. \A r \in Record : Fine(r) /\ Placed(r)
  <2>1. Fine(<<"record">>) /\ Placed(<<"record">>)
    BY DEF Fine, Placed, Kinds
  <2>2. Fine(<<"record", "pause">>) /\ Placed(<<"record", "pause">>)
    BY DEF Fine, Placed, Kinds
  <2>3. Fine(<<"record", "verify", "pause">>) /\ Placed(<<"record", "verify", "pause">>)
    BY DEF Fine, Placed, Kinds, Works
  <2> QED
    BY <2>1, <2>2, <2>3 DEF Record
<1>4. Fine(reads') /\ Placed(reads')
  BY <1>1, <1>3, Short
<1> QED
  BY <1>1, <1>2, <1>4, NextRead

LEMMA FlowElsewhere == ASSUME Flow, Elsewhere PROVE Flow'
<1>1. reads = <<"choice">> /\ Screen = "listings" /\ UNCHANGED <<goHome, stage, jumped, held, eof>>
  BY DEF Elsewhere, Listing, given
<1>2. Len(stack) >= 2 /\ reads # <<>> /\ Head(reads) = "choice"
  BY <1>1, Chosen
<1>3. CASE stack' = stack /\ reads' = <<"rows", "export", "line", "pause">>
  <2>1. Fine(reads') /\ Placed(reads')
    <3>1. Fine(<<"rows", "export", "line", "pause">>)
      BY DEF Fine, Kinds, Works
    <3>2. Placed(<<"rows", "export", "line", "pause">>)
      BY DEF Placed
    <3> QED
      BY <1>3, <3>1, <3>2
  <2> QED
    BY <1>1, <1>2, <1>3, <2>1, NextRead
<1>4. CASE reads' = <<>> /\ stack' = Append(stack, "progress")
  <2>1. Len(stack) = 2 /\ stack[2] = "listings"
    BY <1>1, <1>2, Innermost DEF Flow, Shape
  <2> QED
    BY <1>1, <1>2, <1>4, <2>1, InnerScreen DEF ScreenNames
<1>5. CASE reads' = <<>> /\ stack' = stack
  BY <1>1, <1>2, <1>5, Short, NextRead
<1> QED
  BY <1>3, <1>4, <1>5 DEF Elsewhere

LEMMA FlowOthers ==
    ASSUME Flow, Stored \/ EndOfInput \/ UNCHANGED tvars
    PROVE  Flow'
<1>1. UNCHANGED <<stack, reads, goHome, stage, jumped, held>> /\ (eof' = eof \/ eof' = TRUE)
  BY DEF Stored, EndOfInput, tvars, flow, given
<1>2. Settled'
  <2>1. {goHome', eof', held'} \subseteq BOOLEAN
    BY <1>1 DEF Flow, Settled
  <2>2. stage' \in 0..6 /\ (Len(stack') >= 1 /\ stack'[1] = "setup" => stage' \in 0..5)
    BY <1>1 DEF Flow, Settled
  <2> QED
    BY <2>1, <2>2 DEF Settled
<1>3. Shape' /\ Closed' /\ Homeward'
  BY <1>1 DEF Flow, Shape, Closed, Homeward
<1>4. Fine(reads)' /\ Placed(reads)'
  BY <1>1 DEF Flow, Fine, Placed, AtScreen, AtMenus
<1> QED
  BY <1>2, <1>3, <1>4 DEF Flow

LEMMA FlowNext == ASSUME Flow, [TNext]_tvars PROVE Flow'
BY FlowDrawHome, FlowDrawLoop, FlowNextStage, FlowDrawListings, FlowReadLine, FlowWork, FlowVerify,
   FlowOpenMail, FlowChooseHome, FlowChoose, FlowLeaveEmpty, FlowLeaveListings, FlowPaging,
   FlowElsewhere, FlowOthers DEF TNext, Session

-----------------------------------------------------------------------------
(***************************************************************************)
(* An "m" at a menu that does not hear it.                                 *)
(***************************************************************************)
Known == jumped \in {"none", "screen", "menu"}

\* The screen that the menu belongs to stays, or is left for the home screen that forgets the "m".
NotHeard ==
    jumped = "menu" /\ Len(stack) >= 1 /\ stack[1] = "home" => AtMenus \/ (Len(stack) = 1 /\ reads = <<>>)

\* A line that is read on a screen that stays.
LEMMA NotHeardStays ==
    ASSUME Flow, NotHeard, reads # <<>>, stack' = stack,
           jumped' = "menu" => jumped = "menu" \/ Head(reads) = "pick"
    PROVE  NotHeard'
<1> SUFFICES ASSUME jumped' = "menu", stack[1] = "home" PROVE AtMenus'
  BY DEF NotHeard
<1>1. Len(stack) >= 1 /\ Head(reads) = reads[1] /\ 1 \in 1..Len(reads)
  BY Somewhere
<1>2. CASE jumped = "menu"
  BY <1>1, <1>2 DEF NotHeard, AtMenus
<1>3. CASE Head(reads) = "pick"
  <2>1. AtScreen("setup") \/ AtMenus
    BY <1>1, <1>3 DEF Flow, Placed
  <2> QED
    BY <2>1 DEF AtScreen, AtMenus
<1> QED
  BY <1>2, <1>3

\* A screen that ends, before or after it asked.
LEMMA NotHeardPops ==
    ASSUME Flow, NotHeard, Len(stack) >= 2, stack' = Front(stack), jumped' \in {jumped, "screen"},
           reads' = <<>> \/ ~AtMenus
    PROVE  NotHeard'
<1> SUFFICES ASSUME jumped' = "menu", Len(stack') >= 1, stack'[1] = "home"
             PROVE  Len(stack') = 1 /\ reads' = <<>>
  BY DEF NotHeard
<1>1. Len(stack') = Len(stack) - 1 /\ stack'[1] = stack[1] /\ Len(stack) \in 2..3
  <2>1. Len(stack') = Len(stack) - 1 /\ \A i \in 1..Len(stack') : stack'[i] = stack[i]
    BY Popped DEF Flow
  <2>2. Len(stack) \in 2..3
    BY DEF Flow, Shape
  <2> QED
    BY <2>1, <2>2
<1>2. AtMenus
  BY <1>1 DEF NotHeard
<1> QED
  BY <1>1, <1>2 DEF AtMenus

LEMMA NotHeardNext == ASSUME Flow, NotHeard, [TNext]_tvars PROVE NotHeard'
<1>1. CASE DrawHome
  BY <1>1 DEF DrawHome, NotHeard
<1>2. CASE DrawLoop
  <2>1. stack # <<>> /\ Screen \notin {"home", "setup"} /\ reads = <<>> /\ jumped' = jumped
    BY <1>2 DEF DrawLoop
  <2>2. Len(stack) >= 2
    <3>1. Len(stack) >= 1
      BY <2>1, EmptySeq DEF Flow, Shape
    <3> QED
      BY <2>1, <3>1, Innermost DEF Flow, Shape
  <2>3. CASE Pop /\ reads' = <<>>
    BY <2>1, <2>2, <2>3, NotHeardPops DEF Pop
  <2>4. CASE Screen \in {"progress", "identity", "playbooks"} /\ Pop
    <3>1. ~AtMenus
      BY <2>4 DEF AtMenus, Screen, Last
    <3> QED
      BY <2>1, <2>2, <2>4, <3>1, NotHeardPops DEF Pop
  <2>5. CASE stack' = stack
    <3>1. Len(stack) # 1
      BY <2>2 DEF Flow, Shape
    <3> QED
      BY <2>1, <2>2, <2>5, <3>1 DEF NotHeard, AtMenus
  <2> QED
    BY <1>2, <2>1, <2>3, <2>4, <2>5 DEF DrawLoop, Look
<1>3. CASE NextStage
  <2>1. stack = <<"setup">> /\ reads = <<>> /\ Len(stack) = 1 /\ stack[1] = "setup"
    BY <1>3 DEF NextStage
  <2>2. CASE stack' = stack
    BY <2>1, <2>2 DEF NotHeard
  <2>3. CASE stack' = <<"home">> /\ reads' = reads
    BY <2>1, <2>3 DEF NotHeard
  <2> QED
    BY <1>3, <2>2, <2>3 DEF NextStage
<1>4. CASE DrawListings
  <2>1. stack # <<>> /\ Screen = "listings" /\ jumped' = jumped
    BY <1>4 DEF DrawListings
  <2>2. Len(stack) = 2 /\ stack[1] = "home" /\ stack[2] = "listings"
    <3>1. Len(stack) >= 1
      BY <2>1, EmptySeq DEF Flow, Shape
    <3> QED
      BY <2>1, <3>1, Innermost DEF Flow
  <2>3. ~AtMenus
    BY <2>2 DEF AtMenus
  <2>4. jumped' # "menu"
    BY <2>1, <2>2, <2>3 DEF NotHeard
  <2> QED
    BY <2>4 DEF NotHeard
<1>5. CASE ReadLine
  <2>1. /\ reads # <<>> /\ stack' = stack
        /\ jumped' = "menu" => jumped = "menu" \/ Head(reads) = "pick"
    BY <1>5 DEF ReadLine, Typed, Menus
  <2> QED
    BY <2>1, NotHeardStays
<1>6. CASE Work \/ ChooseHome \/ Elsewhere \/ Verify \/ OpenMail
  <2>1. reads # <<>> /\ jumped' = jumped
    <3>1. \A s : reads = <<s>> => reads # <<>>
      OBVIOUS
    <3>2. CASE Work \/ Verify \/ OpenMail
      BY <3>2 DEF Work, Verify, OpenMail
    <3>3. CASE ChooseHome \/ Elsewhere
      BY <3>1, <3>3 DEF ChooseHome, Elsewhere, Listing
    <3> QED
      BY <1>6, <3>2, <3>3
  <2>2. CASE stack' = stack
    BY <2>1, <2>2, NotHeardStays
  <2>3. CASE stack' = <<>>
    BY <2>3 DEF NotHeard
  <2>4. CASE ChooseHome /\ \E screen \in Loops : stack' = Append(stack, screen)
    <3>1. 1 \in 1..Len(reads) /\ reads[1] = "menu"
      <4>1. reads = <<"menu">>
        BY <2>4 DEF ChooseHome
      <4> QED
        BY <4>1
    <3>2. AtScreen("home") /\ ~AtMenus
      BY <3>1 DEF Flow, Placed, AtScreen, AtMenus
    <3>3. jumped' # "menu"
      BY <2>1, <3>2 DEF NotHeard, AtScreen
    <3> QED
      BY <3>3 DEF NotHeard
  <2>5. CASE OpenMail /\ stack' = Append(stack, "email")
    <3>1. 1 \in 1..Len(reads) /\ reads[1] = "email"
      BY <2>1, <2>5, Somewhere DEF OpenMail
    <3>2. AtScreen("setup")
      BY <3>1 DEF Flow, Placed
    <3>3. stack'[1] = stack[1]
      BY <2>5, <3>2, Opened DEF Flow, ScreenNames, Loops
    <3> QED
      BY <3>2, <3>3 DEF AtScreen, NotHeard
  <2>6. CASE Elsewhere /\ stack' = Append(stack, "progress")
    <3>1. Len(stack) >= 1 /\ Screen = "listings"
      BY <2>1, <2>6, Somewhere DEF Elsewhere, Listing
    <3>2. Len(stack) = 2 /\ stack[1] = "home" /\ stack[2] = "listings"
      BY <3>1, Innermost DEF Flow
    <3>3. jumped' # "menu"
      BY <2>1, <3>2 DEF NotHeard, AtMenus
    <3> QED
      BY <3>3 DEF NotHeard
  <2> QED
    BY <1>6, <2>2, <2>3, <2>4, <2>5, <2>6 DEF Work, ChooseHome, Elsewhere, Verify, OpenMail
<1>7. CASE Choose \/ LeaveListings
  <2>1. reads = <<"choice">> /\ reads # <<>> /\ jumped' \in {jumped, "screen"}
    <3>1. reads = <<"choice">>
      BY <1>7 DEF Choose, LeaveListings, Listing
    <3>2. CASE Choose
      BY <3>2 DEF Choose, Jump
    <3>3. CASE LeaveListings
      <4>1. PICK l \in Lines : jumped' = IF l = "m" THEN "screen" ELSE jumped
        BY <3>3 DEF LeaveListings, Jump
      <4> QED
        BY <3>1, <4>1
    <3> QED
      BY <1>7, <3>1, <3>2, <3>3
  <2>2. Len(stack) >= 2
    BY <2>1, Chosen
  <2>3. CASE Pop /\ reads' = <<>>
    BY <2>1, <2>2, <2>3, NotHeardPops DEF Pop
  <2>4. CASE stack' = stack
    BY <2>1, <2>4, NotHeardStays
  <2> QED
    BY <1>7, <2>3, <2>4 DEF Choose, LeaveListings
<1>8. CASE LeaveEmpty \/ TurnPage \/ AskPage \/ GotoPage \/ Clear \/ Find \/ FindText \/ ShowListing
  <2>1. reads # <<>> /\ stack' = stack /\ jumped' \in {jumped, "screen"}
    BY <1>8 DEF LeaveEmpty, TurnPage, AskPage, GotoPage, Clear, Find, FindText, ShowListing, Listing, Jump
  <2> QED
    BY <2>1, NotHeardStays
<1>9. CASE Stored \/ EndOfInput \/ UNCHANGED tvars
  <2>1. UNCHANGED <<stack, reads, jumped>>
    BY <1>9 DEF Stored, EndOfInput, tvars, flow
  <2> QED
    BY <2>1 DEF NotHeard, AtMenus
<1> QED
  BY <1>1, <1>2, <1>3, <1>4, <1>5, <1>6, <1>7, <1>8, <1>9 DEF TNext, Session

LEMMA KnownNext == ASSUME Known, [TNext]_tvars PROVE Known'
<1>1. CASE ReadLine
  BY <1>1 DEF ReadLine, Typed, Known
<1>2. CASE Choose \/ LeaveEmpty \/ LeaveListings
  BY <1>2 DEF Choose, LeaveEmpty, LeaveListings, Jump, Known
<1>3. CASE DrawHome
  BY <1>3 DEF DrawHome, Known
<1>4. CASE \/ DrawLoop \/ NextStage \/ DrawListings \/ Work \/ Verify \/ OpenMail \/ ChooseHome \/ TurnPage
           \/ AskPage \/ GotoPage \/ Clear \/ Find \/ FindText \/ Elsewhere \/ ShowListing
           \/ Stored \/ EndOfInput \/ UNCHANGED tvars
  BY <1>4 DEF DrawLoop, NextStage, DrawListings, Work, Verify, OpenMail, ChooseHome, TurnPage, AskPage,
              GotoPage, Clear, Find, FindText, Elsewhere, ShowListing, Stored, EndOfInput, tvars, flow, Known
<1> QED
  BY <1>1, <1>2, <1>3, <1>4 DEF TNext, Session

\* After an "m" at a screen or a pause nothing is asked any more before the home screen, however deep
\* the screens are, but for the offer of the browser after a playbook without an address; and after an
\* "m" at the menus of the laws and of the mail hosts, which do not hear it, only the screen they
\* belong to asks again: whatever is stored, sought and shown (interactive.go doGuide: "m jumps to the
\* main menu from any nested screen"; wizards.go setLaw, doIMAPCustom).
THEOREM HomeAtOnce == TSpec => []JumpsHome
<1>1. Flow /\ NotHeard => JumpsHome
  <2> SUFFICES ASSUME Flow, NotHeard, stack # <<>>, Head(stack) = "home", reads # <<>>
               PROVE  /\ jumped = "screen" => Screen = "playbooks" /\ Head(reads) \in {"ask", "automate", "pause"}
                      /\ jumped = "menu" => Screen \in {"settings", "inbox"}
    BY DEF JumpsHome
  <2>1. Len(stack) >= 1 /\ Len(reads) \in 1..9
    BY Somewhere
  <2>2. stack[1] = "home"
    BY Tails DEF Flow, Shape
  <2>3. ASSUME jumped = "screen" PROVE Screen = "playbooks" /\ Head(reads) \in {"ask", "automate", "pause"}
    <3>1. Len(stack) = 2 /\ stack[2] = "playbooks"
      BY <2>1, <2>2, <2>3 DEF Flow, Homeward
    <3>2. Head(reads) \in {"ask", "automate", "pause"}
      BY <2>1, <2>2, <2>3, NotOnTheWay DEF Flow
    <3> QED
      BY <3>1, <3>2 DEF Screen, Last
  <2>4. ASSUME jumped = "menu" PROVE Screen \in {"settings", "inbox"}
    BY <2>1, <2>2, <2>4 DEF NotHeard, AtMenus, Screen, Last
  <2> QED
    BY <2>3, <2>4
<1>2. TInit => NotHeard
  BY DEF TInit, NotHeard
<1>3. Flow /\ NotHeard /\ [TNext]_tvars => Flow' /\ NotHeard'
  BY FlowNext, NotHeardNext
<1> QED
  BY FlowInit, <1>1, <1>2, <1>3, PTL DEF TSpec

-----------------------------------------------------------------------------
(***************************************************************************)
(* Sorting and paging.                                                     *)
(***************************************************************************)
\* The sorted listings exist: each has its rank, the number of those that are not above it.
LEMMA SortedExists ==
    ASSUME NEW S \in SUBSET Nat, IsFiniteSet(S)
    PROVE  \E q \in SetToSeqs(S) : Ascending(q)
<1> DEFINE n == Cardinality(S)
           Below(x) == {y \in S : y <= x}
           rank == [x \in S |-> Cardinality(Below(x))]
<1>1. n \in Nat
  BY FS_CardinalityType
<1>2. \A x \in S : IsFiniteSet(Below(x)) /\ Cardinality(Below(x)) \in 1..n
  <2> SUFFICES ASSUME NEW x \in S PROVE IsFiniteSet(Below(x)) /\ Cardinality(Below(x)) \in 1..n
    OBVIOUS
  <2>1. Below(x) \in SUBSET S /\ {x} \in SUBSET Below(x)
    OBVIOUS
  <2>2. IsFiniteSet(Below(x)) /\ Cardinality(Below(x)) <= n
    BY <2>1, FS_Subset
  <2>3. Cardinality({x}) = 1 /\ Cardinality({x}) <= Cardinality(Below(x))
    BY <2>1, <2>2, FS_Subset, FS_Singleton
  <2>4. Cardinality(Below(x)) \in Nat
    BY <2>2, FS_CardinalityType
  <2> QED
    BY <1>1, <2>2, <2>3, <2>4
<1>3. \A x, z \in S : x < z => Cardinality(Below(x)) < Cardinality(Below(z))
  <2> SUFFICES ASSUME NEW x \in S, NEW z \in S, x < z
               PROVE  Cardinality(Below(x)) < Cardinality(Below(z))
    OBVIOUS
  <2>1. Below(x) \in SUBSET Below(z)
    <3>1. \A y \in S : y <= x => y <= z
      OBVIOUS
    <3> QED
      BY <3>1
  <2>2. z \in Below(z) /\ z \notin Below(x)
    OBVIOUS
  <2>3. /\ Cardinality(Below(x)) <= Cardinality(Below(z))
        /\ Cardinality(Below(x)) # Cardinality(Below(z))
    BY <1>2, <2>1, <2>2, FS_Subset
  <2> QED
    BY <1>2, <2>3
<1>4. rank \in [S -> 1..n] /\ \A x, z \in S : x < z => rank[x] < rank[z]
  BY <1>2, <1>3
<1> HIDE DEF rank
<1>5. \A x, z \in S : rank[x] = rank[z] => x = z
  <2> SUFFICES ASSUME NEW x \in S, NEW z \in S, rank[x] = rank[z] PROVE x = z
    OBVIOUS
  <2>1. x \in Nat /\ z \in Nat /\ rank[x] \in 1..n
    BY <1>4
  <2>2. ~(x < z) /\ ~(z < x)
    BY <1>4, <2>1
  <2> QED
    BY <2>1, <2>2
<1>6. rank \in Injection(S, 1..n)
  BY <1>4, <1>5 DEF Injection, IsInjective
<1>7. IsFiniteSet(1..n) /\ Cardinality(1..n) = n
  BY <1>1, FS_Interval
<1>8. rank \in Surjection(S, 1..n)
  BY <1>6, <1>7, FS_Injection
<1>9. \A k \in 1..n : \E x \in S : rank[x] = k
  BY <1>8 DEF Surjection
<1> DEFINE q == [k \in 1..n |-> CHOOSE x \in S : rank[x] = k]
<1>10. \A k \in 1..n : q[k] \in S /\ rank[q[k]] = k
  BY <1>9
<1>11. q \in [1..n -> S] /\ DOMAIN q = 1..n
  BY <1>10
<1> HIDE DEF q
<1>12. \A i, j \in 1..n : i # j => q[i] # q[j]
  BY <1>10
<1>13. q \in SetToSeqs(S)
  BY <1>11, <1>12 DEF SetToSeqs
<1>14. Ascending(q)
  <2> SUFFICES ASSUME NEW i \in 1..n, NEW j \in 1..n, i < j
               PROVE  q[i] < q[j]
    BY <1>11 DEF Ascending
  <2>1. q[i] \in S /\ q[j] \in S /\ q[i] \in Nat /\ q[j] \in Nat /\ rank[q[i]] = i /\ rank[q[j]] = j
    BY <1>10
  <2>2. ~(q[j] < q[i])
    BY <1>1, <1>4, <2>1
  <2>3. q[j] # q[i]
    BY <2>1
  <2> QED
    BY <2>1, <2>2, <2>3
<1> QED
  BY <1>13, <1>14

\* How many pages n rows fill.
LEMMA PagesBounds ==
    ASSUME NEW n \in Nat
    PROVE  /\ Pages(n) \in 0..n /\ (n > 0 => Pages(n) > 0)
           /\ \A p \in Int : p < Pages(n) => p * SheetRows < n
<1> DEFINE R == SheetRows
           a == n + R - 1
           k == a \div R
<1>1. R \in Nat /\ R > 0
  BY TerminalAssumption
<1>2. a \in Nat /\ a = n + R - 1
  BY <1>1
<1> HIDE DEF R, a
<1>3. k \in Int /\ k >= 0 /\ R * k <= a /\ a < R * k + R
  BY <1>1, <1>2
<1> HIDE DEF k
<1>4. k <= n
  <2> SUFFICES ASSUME k >= n + 1 PROVE FALSE
    BY <1>3
  <2>1. R * (n + 1) <= R * k
    BY <1>1, <1>3
  <2>2. R * (n + 1) = R * n + R /\ R * n >= n /\ R * n \in Int
    BY <1>1
  <2> QED
    BY <1>1, <1>2, <1>3, <2>1, <2>2
<1>5. n > 0 => k > 0
  <2> SUFFICES ASSUME n > 0, k = 0 PROVE FALSE
    BY <1>3
  <2>1. R * k = 0
    BY <1>1
  <2> QED
    BY <1>1, <1>2, <1>3, <2>1
<1>6. \A p \in Int : p < k => p * R < n
  <2> SUFFICES ASSUME NEW p \in Int, p < k PROVE p * R < n
    OBVIOUS
  <2>1. R * (p + 1) <= R * k
    BY <1>1, <1>3
  <2>2. R * (p + 1) = p * R + R /\ p * R \in Int /\ R * k \in Int
    BY <1>1, <1>3
  <2> QED
    BY <1>1, <1>2, <1>3, <2>1, <2>2
<1> QED
  BY <1>3, <1>4, <1>5, <1>6 DEF k, a, R, Pages

LEMMA ClampedBounds ==
    ASSUME NEW p \in Int, NEW n \in Nat, n > 0
    PROVE  Clamped(p, n) \in 0..(n - 1)
BY DEF Clamped

\* A page that is there has at least one row and never too many.
LEMMA ChunkOfPage ==
    ASSUME NEW q \in Seq(Sites), NEW p \in 0..(Pages(Len(q)) - 1)
    PROVE  LET c == SubSeq(q, p * SheetRows + 1, Least((p + 1) * SheetRows, Len(q)))
           IN  c \in Seq(Sites) /\ Len(c) \in 1..SheetRows
<1> DEFINE R == SheetRows
           m == p * R + 1
           w == Least((p + 1) * R, Len(q))
<1>1. R \in Nat /\ R > 0 /\ Len(q) \in Nat /\ Pages(Len(q)) \in 0..Len(q)
  BY TerminalAssumption, PagesBounds, LenProperties
<1>2. p \in Nat /\ p < Pages(Len(q))
  BY <1>1
<1>3. p * R < Len(q)
  BY <1>1, <1>2, PagesBounds
<1> HIDE DEF R
<1>4. p * R \in Nat /\ (p + 1) * R = p * R + R
  BY <1>1, <1>2
<1>5. m \in Nat \ {0} /\ w \in Nat /\ m <= w /\ w <= Len(q) /\ w - m + 1 <= R
  BY <1>1, <1>3, <1>4 DEF Least
<1> HIDE DEF m, w
<1>6. \A i \in m..w : q[i] \in Sites
  <2>1. \A i \in m..w : i \in 1..Len(q)
    BY <1>1, <1>5
  <2> QED
    BY <2>1, ElementOfSeq
<1>7. SubSeq(q, m, w) \in Seq(Sites) /\ Len(SubSeq(q, m, w)) = IF m <= w THEN w - m + 1 ELSE 0
  BY <1>5, <1>6, SubSeqProperties
<1>8. Len(SubSeq(q, m, w)) \in 1..R
  BY <1>1, <1>5, <1>7
<1> QED
  BY <1>7, <1>8 DEF m, w, R

LEMMA SortedRows ==
    ASSUME stored \subseteq Sites
    PROVE  Sorted \in Seq(Sites) /\ Len(Sorted) \in 0..Cardinality(Sites) /\ Ascending(Sorted)
<1> DEFINE S == stored \cap filter
           n == Cardinality(S)
<1>1. S \in SUBSET Sites /\ S \in SUBSET Nat
  BY TerminalAssumption
<1>2. IsFiniteSet(S) /\ n <= Cardinality(Sites) /\ n \in Nat /\ Cardinality(Sites) \in Nat
  BY <1>1, TerminalAssumption, FS_Subset, FS_CardinalityType
<1>3. Sorted \in SetToSeqs(S) /\ Ascending(Sorted)
  <2>1. \E q \in SetToSeqs(S) : Ascending(q)
    BY <1>1, <1>2, SortedExists
  <2> QED
    BY <2>1 DEF Sorted
<1> DEFINE q == Sorted
<1> HIDE DEF q, S
<1>4. q \in [1..n -> S]
  BY <1>3 DEF SetToSeqs, q
<1>5. q \in [1..n -> Sites]
  BY <1>1, <1>4
<1>6. q \in Seq(Sites) /\ Len(q) = n
  BY <1>2, <1>5
<1> QED
  BY <1>2, <1>3, <1>6 DEF q

-----------------------------------------------------------------------------
(***************************************************************************)
(* The inductive invariant of the listings.                                *)
(***************************************************************************)
Rows ==
    /\ stored \subseteq Sites /\ filter \subseteq Sites
    /\ sheet \in Int /\ sheets \in 0..Cardinality(Sites)
    /\ shown \in Seq(Sites) /\ Len(shown) \in 0..SheetRows /\ (sheets > 0 => Len(shown) >= 1)
    /\ picked \in Sites \cup {0} /\ picked = meant /\ marked \in {0, meant}

LEMMA RowsInit == TInit => Rows
<1> SUFFICES ASSUME TInit PROVE Rows
  OBVIOUS
<1>1. Cardinality(Sites) \in Nat /\ SheetRows \in Nat
  BY TerminalAssumption, FS_CardinalityType
<1>2. <<>> \in Seq(Sites) /\ Len(<<>>) = 0
  OBVIOUS
<1> QED
  BY <1>1, <1>2 DEF TInit, Rows

LEMMA RowsDrawListings == ASSUME Rows, DrawListings PROVE Rows'
<1>1. UNCHANGED <<stored, filter, picked, marked, meant>>
  BY DEF DrawListings, given
<1>2. CASE UNCHANGED <<shown, sheet, sheets>>
  BY <1>1, <1>2 DEF Rows
<1>3. CASE /\ sheets' = Pages(Len(Sorted))
           /\ sheet' = IF Sorted = <<>> THEN sheet ELSE Clamped(sheet, sheets')
           /\ shown' = IF Sorted = <<>> THEN <<>> ELSE Chunk(sheet')
  <2>1. Sorted \in Seq(Sites) /\ Len(Sorted) \in 0..Cardinality(Sites)
    BY SortedRows DEF Rows
  <2>2. Cardinality(Sites) \in Nat /\ SheetRows \in Nat
    BY TerminalAssumption, FS_CardinalityType
  <2>3. Len(Sorted) \in Nat /\ sheets' \in 0..Len(Sorted) /\ (Len(Sorted) > 0 => sheets' > 0)
    BY <1>3, <2>1, <2>2, PagesBounds
  <2>4. sheets' \in 0..Cardinality(Sites)
    BY <2>1, <2>2, <2>3
  <2>5. CASE Sorted = <<>>
    <3>1. sheet' = sheet /\ shown' = <<>> /\ Len(Sorted) = 0 /\ sheets' = 0
      BY <1>3, <2>3, <2>5
    <3>2. shown' \in Seq(Sites) /\ Len(shown') = 0
      BY <3>1
    <3> QED
      BY <1>1, <2>2, <2>4, <3>1, <3>2 DEF Rows
  <2>6. CASE Sorted # <<>>
    <3>1. Len(Sorted) > 0 /\ sheets' \in Nat /\ sheets' > 0
      BY <2>1, <2>3, <2>6, EmptySeq
    <3>2. sheet' \in 0..(sheets' - 1)
      BY <1>3, <2>6, <3>1, ClampedBounds DEF Rows
    <3>3. shown' \in Seq(Sites) /\ Len(shown') \in 1..SheetRows
      <4>1. sheet' \in 0..(Pages(Len(Sorted)) - 1)
        BY <1>3, <3>2
      <4>2. shown' = SubSeq(Sorted, sheet' * SheetRows + 1, Least((sheet' + 1) * SheetRows, Len(Sorted)))
        BY <1>3, <2>6 DEF Chunk
      <4> QED
        BY <2>1, <4>1, <4>2, ChunkOfPage
    <3>4. Len(shown') \in 0..SheetRows /\ Len(shown') >= 1 /\ sheet' \in Int
      BY <2>2, <3>2, <3>3
    <3> QED
      BY <1>1, <2>4, <3>3, <3>4 DEF Rows
  <2> QED
    BY <2>5, <2>6
<1> QED
  BY <1>2, <1>3 DEF DrawListings

\* Turning the page moves the number alone; what is on the screen is drawn again.
LEMMA RowsSheet ==
    ASSUME Rows, TurnPage \/ GotoPage \/ Clear \/ Find \/ FindText
    PROVE  Rows'
<1>1. Cardinality(Sites) \in Nat
  BY TerminalAssumption, FS_CardinalityType
<1>2. UNCHANGED <<stored, shown, sheets, picked, marked, meant>>
  BY DEF TurnPage, GotoPage, Clear, Find, FindText, given
<1>3. sheets \in Int /\ sheet \in Int
  BY <1>1 DEF Rows
<1>4. sheet' \in Int
  <2>1. CASE TurnPage
    BY <1>3, <2>1 DEF TurnPage, Least
  <2>2. CASE GotoPage
    BY <1>3, <2>2 DEF GotoPage
  <2>3. CASE Clear \/ Find \/ FindText
    BY <1>3, <2>3 DEF Clear, Find, FindText
  <2> QED
    BY <2>1, <2>2, <2>3
<1>5. filter' \subseteq Sites
  BY TerminalAssumption DEF Rows, TurnPage, GotoPage, Clear, Find, FindText
<1> QED
  BY <1>2, <1>4, <1>5 DEF Rows

LEMMA RowsNext == ASSUME Rows, [TNext]_tvars PROVE Rows'
<1>1. CASE DrawHome
  <2>1. Cardinality(Sites) \in Nat /\ SheetRows \in Nat
    BY TerminalAssumption, FS_CardinalityType
  <2>2. <<>> \in Seq(Sites) /\ Len(<<>>) = 0
    OBVIOUS
  <2> QED
    BY <1>1, <2>1, <2>2 DEF DrawHome, Rows, given
<1>2. CASE \/ DrawLoop \/ NextStage \/ ReadLine \/ Work \/ OpenMail \/ ChooseHome \/ Choose
           \/ LeaveEmpty \/ LeaveListings \/ AskPage \/ Elsewhere
  <2>1. UNCHANGED <<stored, shown, sheet, sheets, filter, picked, marked, meant>>
    BY <1>2 DEF DrawLoop, NextStage, ReadLine, Work, OpenMail, ChooseHome, Choose,
                LeaveEmpty, LeaveListings, AskPage, Elsewhere, given, paging
  <2> QED
    BY <2>1 DEF Rows
<1>3. CASE DrawListings
  BY <1>3, RowsDrawListings
<1>4. CASE TurnPage \/ GotoPage \/ Clear \/ Find \/ FindText
  BY <1>4, RowsSheet
<1>5. CASE Verify
  <2>1. /\ UNCHANGED <<stored, shown, sheet, sheets, filter, picked, meant>>
        /\ marked' \in {picked, marked}
    BY <1>5 DEF Verify, given, paging
  <2> QED
    BY <2>1 DEF Rows
<1>6. CASE ShowListing
  <2>1. PICK i \in DOMAIN shown : picked' = shown[i] /\ meant' = shown[i] /\ marked' = 0
    BY <1>6 DEF ShowListing
  <2>2. UNCHANGED <<stored, shown, sheet, sheets, filter>>
    BY <1>6 DEF ShowListing, given
  <2>3. shown[i] \in Sites
    BY <2>1, LenProperties, ElementOfSeq DEF Rows
  <2> QED
    BY <2>1, <2>2, <2>3 DEF Rows
<1>7. CASE Stored
  BY <1>7 DEF Stored, Rows, paging
<1>8. CASE EndOfInput \/ UNCHANGED tvars
  BY <1>8 DEF EndOfInput, tvars, given, paging, Rows
<1> QED
  BY <1>1, <1>2, <1>3, <1>4, <1>5, <1>6, <1>7, <1>8 DEF TNext, Session

\* The rows on the screen are a page that is there, whatever page was asked for and whatever was
\* stored, sought or cleared meanwhile, and what is marked as gone is what was on the screen under the
\* number that was typed: for every length of a page (listings.go doListings, showListing).
THEOREM PageIsThere == TSpec => []RowsOnScreen
<1>1. Rows => RowsOnScreen
  <2> SUFFICES ASSUME Rows PROVE RowsOnScreen
    OBVIOUS
  <2>1. SheetRows \in Nat
    BY TerminalAssumption
  <2> QED
    BY <2>1 DEF Rows, RowsOnScreen
<1>2. Rows /\ [TNext]_tvars => Rows'
  BY RowsNext
<1> QED
  BY RowsInit, <1>1, <1>2, PTL DEF TSpec

LEMMA FlowRowsOK == Flow /\ Rows /\ Known => TerminalOK
<1> SUFFICES ASSUME Flow, Rows, Known PROVE TerminalOK
  OBVIOUS
<1>1. Len(stack) <= 3 /\ Range(stack) \subseteq Loops \cup {"home", "setup", "progress"}
  <2>1. stack \in Seq(ScreenNames) /\ Len(stack) \in 0..3
    BY DEF Flow, Shape
  <2>2. Range(stack) \in SUBSET ScreenNames
    BY <2>1, RangeOfSeq
  <2>3. ScreenNames = Loops \cup {"home", "setup", "progress"}
    BY DEF ScreenNames
  <2>4. Len(stack) <= 3
    <3>1. Len(stack) \in 0..3 /\ \A n \in 0..3 : n <= 3
      BY <2>1
    <3> QED
      BY <3>1
  <2> QED
    BY <2>2, <2>3, <2>4
<1>2. Len(reads) <= 10 /\ {held, eof, goHome} \subseteq BOOLEAN
  <2>1. Len(reads) \in 0..9
    BY DEF Flow, Fine
  <2>2. Len(reads) <= 10
    <3>1. \A n \in 0..9 : n <= 10
      OBVIOUS
    <3> QED
      BY <2>1, <3>1
  <2> QED
    BY <2>2 DEF Flow, Settled
<1>3. stage \in 0..(Len(Setup) + 1)
  <2>1. Len(Setup) = 5
    BY DEF Setup
  <2> QED
    BY <2>1 DEF Flow, Settled
<1>4. Range(shown) \subseteq Sites /\ Len(shown) <= SheetRows
  <2>1. shown \in Seq(Sites) /\ Len(shown) \in 0..SheetRows /\ SheetRows \in Nat
    BY TerminalAssumption DEF Rows
  <2>2. Range(shown) \in SUBSET Sites
    BY <2>1, RangeOfSeq
  <2> QED
    BY <2>1, <2>2
<1> QED
  BY <1>1, <1>2, <1>3, <1>4 DEF Rows, Known, TerminalOK

\* The state of a session keeps its type (interactive.go session, listings.go doListings).
THEOREM TerminalTypes == TSpec => []TerminalOK
<1>1. Flow /\ Rows /\ Known /\ [TNext]_tvars => Flow' /\ Rows' /\ Known'
  BY FlowNext, RowsNext, KnownNext
<1>2. TInit => Known
  BY DEF TInit, Known
<1> QED
  BY FlowInit, RowsInit, FlowRowsOK, <1>1, <1>2, PTL DEF TSpec
=============================================================================
