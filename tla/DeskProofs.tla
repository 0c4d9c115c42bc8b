----------------------------- MODULE DeskProofs -----------------------------
(***************************************************************************)
(* Proofs about what the user sees: the hover card and its place, the icon *)
(* and what the application tells the tray, for any number of inputs,      *)
(* slow calls and restarts, any loads, resolutions, desks and contents.    *)
(***************************************************************************)
EXTENDS MCDesk, Sequences, TLAPS

-----------------------------------------------------------------------------
\* A behaviour is of one module and leaves the variables of the others alone.
LEMMA DeskSteps ==
  ASSUME [DeskNext]_deskVars
  PROVE  /\ Next \/ UNCHANGED vars
         /\ Card!Next \/ UNCHANGED cardVars
         /\ Icon!Next \/ UNCHANGED iconVars
         /\ App!Next \/ UNCHANGED appVars
<1>1. CASE OfLayout(Next)
  BY <1>1 DEF OfLayout
<1>2. CASE OfCard(Card!Next)
  BY <1>2 DEF OfCard
<1>3. CASE OfScan(Card!Next)
  BY <1>3 DEF OfScan
<1>4. CASE OfIcon(Icon!Next)
  BY <1>4 DEF OfIcon
<1>5. CASE OfApp(App!Next)
  BY <1>5 DEF OfApp
<1>6. CASE OfRate(App!Next)
  BY <1>6 DEF OfRate
<1>7. CASE UNCHANGED deskVars
  BY <1>7 DEF deskVars
<1> QED
  BY <1>1, <1>2, <1>3, <1>4, <1>5, <1>6, <1>7 DEF DeskNext

-----------------------------------------------------------------------------
(***************************************************************************)
(* The card.                                                               *)
(***************************************************************************)
Opening == {"context", "menu"}
Commands == Opening \cup {"select", "toggle"}

\* A menu that was asked for opens before any other command is taken, as long as
\* the user does not click while it is coming.
OneAtATime ==
    \A i, j \in 1..Len(queue) : queue[i] \in Opening /\ queue[j] \in Commands => j <= i
NoneWhileOpen == cardMenu = "open" => \A i \in 1..Len(queue) : queue[i] \notin Commands

\* So what the menu restores is what the menu and the registry say, and the card
\* has it, too.
Restored == cardMenu = "open" => restore = pinned
PinKept == running => card.pinned = pinned

CardInv ==
    /\ Card!TypeOK
    /\ OneAtATime /\ NoneWhileOpen /\ Restored /\ PinKept
    /\ Card!PinnedShown /\ Card!NothingAfterExit

LEMMA ShownIs ==
  ASSUME NEW c \in Card!Cards, NEW d \in Card!Shown(c)
  PROVE  d \in Card!Cards /\ d.window = "shown" /\ d.pinned = c.pinned
BY DEF Card!Shown, Card!ScanStarted, Card!Cards

LEMMA HiddenIs ==
  ASSUME NEW c \in Card!Cards
  PROVE  /\ Card!Hidden(c) \in Card!Cards
         /\ Card!Hidden(c).pinned = c.pinned /\ Card!Hidden(c).scan = c.scan
         /\ Card!Hidden(c).window = "none" <=> c.window = "none"
         /\ Card!HiddenUnlessPinned(c) \in {c, Card!Hidden(c)}
         /\ c.pinned => Card!HiddenUnlessPinned(c) = c
BY DEF Card!Hidden, Card!HiddenUnlessPinned, Card!Cards

LEMMA ShownPinnedIs ==
  ASSUME NEW c \in Card!Cards, NEW d \in Card!ShownPinned(c)
  PROVE  /\ d \in Card!Cards
         /\ running => d.window = "shown" /\ d.pinned
         /\ ~running => d = c
<1>1. [c EXCEPT !.pinned = TRUE] \in Card!Cards /\ [c EXCEPT !.pinned = TRUE].pinned
  BY DEF Card!Cards
<1> QED
  BY <1>1, ShownIs DEF Card!ShownPinned

LEMMA CardInitially == Card!Init => CardInv
<1> SUFFICES ASSUME Card!Init PROVE CardInv
  OBVIOUS
<1>0. Card!NewCard \in Card!Cards /\ Card!NewCard.window = "none"
      /\ Card!NewCard.scan = "none" /\ ~Card!NewCard.pinned
  BY DEF Card!NewCard, Card!Cards
<1>1. [Card!NewCard EXCEPT !.pinned = TRUE] \in Card!Cards
      /\ [Card!NewCard EXCEPT !.pinned = TRUE].pinned
  BY <1>0 DEF Card!Cards
<1>2. /\ card \in Card!Cards /\ card.pinned = pinned
      /\ pinned => card.window = "shown"
      /\ card.window = "none" => card.scan = "none"
  <2>1. CASE pinned
    BY <2>1, <1>1, ShownIs DEF Card!Init
  <2>2. CASE ~pinned
    <3>1. pinned = FALSE /\ card = Card!NewCard
      BY <2>2 DEF Card!Init
    <3> QED
      BY <3>1, <1>0 DEF Card!Cards
  <2> QED
    BY <2>1, <2>2
<1>3. queue = <<>> /\ cardMenu = "none" /\ hover = "off" /\ running = TRUE
      /\ inputs = 0 /\ pinned \in BOOLEAN /\ pointer = FALSE /\ restore = FALSE
  BY DEF Card!Init
<1>4. Card!TypeOK
  <2>1. inputs \in 0..MaxInputs
    BY <1>3, DeskAssumption DEF DeskAssumption
  <2>2. pointer \in BOOLEAN /\ running \in BOOLEAN /\ pinned \in BOOLEAN /\ restore \in BOOLEAN
    BY DEF Card!Init
  <2>3. queue \in Seq(Card!Messages)
    BY <1>3
  <2> QED
    BY <2>1, <2>2, <2>3, <1>2, <1>3 DEF Card!TypeOK
<1>5. OneAtATime /\ NoneWhileOpen
  BY <1>3 DEF OneAtATime, NoneWhileOpen
<1>6. Restored /\ PinKept /\ Card!PinnedShown /\ Card!NothingAfterExit
  BY <1>2, <1>3 DEF Restored, PinKept, Card!PinnedShown, Card!NothingAfterExit
<1> QED
  BY <1>4, <1>5, <1>6 DEF CardInv

\* What an action leaves alone, or posts at the end, keeps the order of the queue.
LEMMA CardStep == CardInv /\ Card!Next => CardInv'
<1> SUFFICES ASSUME CardInv, Card!Next PROVE CardInv'
  OBVIOUS
<1>t. /\ {pointer, running, pinned, restore} \subseteq BOOLEAN
      /\ queue \in Seq(Card!Messages) /\ inputs \in 0..MaxInputs /\ hover \in {"off", "on", "long"}
      /\ card \in Card!Cards
      /\ card.window = "none" => card.scan = "none"
      /\ cardMenu \in {"none", "open"}
  BY DEF CardInv, Card!TypeOK
<1>n. inputs < MaxInputs => inputs + 1 \in 0..MaxInputs
  BY <1>t, DeskAssumption
<1>i. OneAtATime /\ NoneWhileOpen /\ Restored /\ PinKept
      /\ Card!PinnedShown /\ Card!NothingAfterExit
  BY DEF CardInv
<1>u. queue' = queue => OneAtATime' /\ (cardMenu' = cardMenu => NoneWhileOpen')
  BY <1>i DEF OneAtATime, NoneWhileOpen
<1>h. ASSUME NEW m, Card!Take(m), queue' = Tail(queue)
      PROVE  OneAtATime' /\ (cardMenu' = cardMenu => NoneWhileOpen') /\ queue' \in Seq(Card!Messages)
  <2>1. Len(queue') = Len(queue) - 1 /\ queue # <<>>
        /\ \A i \in 1..Len(queue') : i + 1 \in 1..Len(queue) /\ queue'[i] = queue[i + 1]
    BY <1>h, <1>t DEF Card!Take
  <2>2. OneAtATime'
    <3> SUFFICES ASSUME NEW i \in 1..Len(queue'), NEW j \in 1..Len(queue'),
                        queue'[i] \in Opening, queue'[j] \in Commands
                 PROVE  j <= i
      BY DEF OneAtATime, Opening, Commands
    <3>1. i + 1 \in 1..Len(queue) /\ j + 1 \in 1..Len(queue)
          /\ queue[i + 1] \in Opening /\ queue[j + 1] \in Commands
      BY <2>1
    <3>2. j + 1 <= i + 1
      BY <3>1, <1>i DEF OneAtATime
    <3> QED
      BY <3>2
  <2>3. cardMenu' = cardMenu => NoneWhileOpen'
    BY <2>1, <1>i DEF NoneWhileOpen
  <2> QED
    BY <2>1, <2>2, <2>3, <1>t, <1>h DEF Card!Take
<1>a. ASSUME NEW sent \in Seq(Card!Messages), queue' = queue \o sent, cardMenu' = cardMenu,
             \A i \in 1..Len(sent) : sent[i] \notin Commands
      PROVE  OneAtATime' /\ NoneWhileOpen' /\ queue' \in Seq(Card!Messages)
  <2>1. \A i \in 1..Len(queue') : queue'[i] \in Commands => i \in 1..Len(queue) /\ queue'[i] = queue[i]
    <3> SUFFICES ASSUME NEW i \in 1..Len(queue'), queue'[i] \in Commands
                 PROVE  i \in 1..Len(queue) /\ queue'[i] = queue[i]
      OBVIOUS
    <3>1. CASE i \in 1..Len(queue)
      BY <3>1, <1>a, <1>t
    <3>2. CASE i \notin 1..Len(queue)
      <4>1. i - Len(queue) \in 1..Len(sent) /\ queue'[i] = sent[i - Len(queue)]
        BY <3>2, <1>a, <1>t
      <4> QED
        BY <4>1, <1>a
    <3> QED
      BY <3>1, <3>2
  <2>2. OneAtATime'
    BY <2>1, <1>i DEF OneAtATime, Commands
  <2>3. NoneWhileOpen'
    BY <2>1, <1>i, <1>a DEF NoneWhileOpen
  <2> QED
    BY <2>2, <2>3, <1>a, <1>t
<1>b. ASSUME NEW m \in Card!Messages, NEW rest \in Seq(Card!Messages), queue' = Append(rest, m),
             \A i \in 1..Len(rest) : rest[i] \notin Opening
      PROVE  OneAtATime' /\ queue' \in Seq(Card!Messages)
  <2>1. Len(queue') = Len(rest) + 1
    BY <1>b
  <2>2. \A i \in 1..Len(queue') : queue'[i] \in Opening => i = Len(queue')
    <3> SUFFICES ASSUME NEW i \in 1..Len(queue'), i # Len(queue') PROVE queue'[i] \notin Opening
      OBVIOUS
    <3>1. i \in 1..Len(rest) /\ queue'[i] = rest[i]
      BY <1>b, <2>1
    <3> QED
      BY <3>1, <1>b
  <2> QED
    BY <2>1, <2>2, <1>b DEF OneAtATime
<1>s. card' = card /\ UNCHANGED <<running, pinned, hover, cardMenu, restore>>
        => Restored' /\ PinKept' /\ Card!PinnedShown' /\ Card!NothingAfterExit'
  BY <1>i DEF Restored, PinKept, Card!PinnedShown, Card!NothingAfterExit
<1>p. /\ {pointer', running', pinned', restore'} \subseteq BOOLEAN
      /\ queue' \in Seq(Card!Messages) /\ inputs' \in 0..MaxInputs /\ hover' \in {"off", "on", "long"}
      /\ card' \in Card!Cards
      /\ card'.window = "none" => card'.scan = "none"
      /\ cardMenu' \in {"none", "open"}
      /\ OneAtATime' /\ NoneWhileOpen' /\ Restored' /\ PinKept'
      /\ Card!PinnedShown' /\ Card!NothingAfterExit'
      => CardInv'
  BY DEF CardInv, Card!TypeOK
<1>1. CASE Card!Enter
  <2>1. PICK sent \in {<<"move">>, <<"move", "open">>} : queue' = queue \o sent
    BY <1>1 DEF Card!Enter
  <2>2. sent \in Seq(Card!Messages) /\ \A i \in 1..Len(sent) : sent[i] \notin Commands
    <3>1. CASE sent = <<"move">>
      BY <3>1 DEF Card!Messages, Commands, Opening
    <3>2. CASE sent = <<"move", "open">>
      <4>1. Len(sent) = 2 /\ sent[1] = "move" /\ sent[2] = "open"
        BY <3>2
      <4>2. \A i \in 1..Len(sent) : i = 1 \/ i = 2
        BY <4>1
      <4>3. \A i \in 1..Len(sent) : sent[i] \notin Commands
        BY <4>1, <4>2 DEF Commands, Opening
      <4>4. sent \in Seq(Card!Messages)
        BY <3>2 DEF Card!Messages
      <4> QED
        BY <4>3, <4>4
    <3> QED
      BY <2>1, <3>1, <3>2
  <2>3. /\ inputs' = inputs + 1 /\ inputs < MaxInputs /\ pointer' = TRUE
        /\ UNCHANGED <<running, pinned, hover, card, cardMenu, restore>>
    BY <1>1 DEF Card!Enter, Card!Input
  <2> QED
    BY <2>1, <2>2, <2>3, <1>a, <1>s, <1>t, <1>n, <1>p
<1>2. CASE Card!Leave
  <2>1. PICK sent \in {<<>>, <<"close">>} : queue' = queue \o sent
    BY <1>2 DEF Card!Leave
  <2>2. sent \in Seq(Card!Messages) /\ \A i \in 1..Len(sent) : sent[i] \notin Commands
    <3>1. CASE sent = <<>>
      BY <3>1
    <3>2. CASE sent = <<"close">>
      BY <3>2 DEF Card!Messages, Commands, Opening
    <3> QED
      BY <2>1, <3>1, <3>2
  <2>3. /\ inputs' = inputs + 1 /\ inputs < MaxInputs /\ pointer' = FALSE
        /\ UNCHANGED <<running, pinned, hover, card, cardMenu, restore>>
    BY <1>2 DEF Card!Leave, Card!Input
  <2> QED
    BY <2>1, <2>2, <2>3, <1>a, <1>s, <1>t, <1>n, <1>p
<1>3. CASE Card!Click
  <2>1. PICK button \in {"select", "context"} : queue' = Append(queue, button)
    BY <1>3 DEF Card!Click
  <2>2. cardMenu = "none" /\ \A i \in 1..Len(queue) : queue[i] \notin Opening
    BY <1>3, <1>t DEF Card!Click, Card!MenuComing, Opening
  <2>3. /\ inputs' = inputs + 1 /\ inputs < MaxInputs /\ pointer' = pointer
        /\ UNCHANGED <<running, pinned, hover, card, cardMenu, restore>>
    BY <1>3 DEF Card!Click, Card!Input
  <2>4. OneAtATime' /\ queue' \in Seq(Card!Messages)
    BY <2>1, <2>2, <1>b, <1>t DEF Card!Messages
  <2>5. NoneWhileOpen'
    BY <2>2, <2>3 DEF NoneWhileOpen
  <2> QED
    BY <2>3, <2>4, <2>5, <1>s, <1>t, <1>n, <1>p
<1>4. CASE Card!Post
  <2>1. PICK m \in {"created", "exit"} : queue' = Append(queue, m)
    BY <1>4 DEF Card!Post
  <2>2. /\ inputs' = inputs + 1 /\ inputs < MaxInputs /\ pointer' = pointer
        /\ UNCHANGED <<running, pinned, hover, card, cardMenu, restore>>
    BY <1>4 DEF Card!Post, Card!Input
  <2>3. <<m>> \in Seq(Card!Messages) /\ queue' = queue \o <<m>>
        /\ \A i \in 1..Len(<<m>>) : <<m>>[i] \notin Commands
    BY <2>1, <1>t DEF Card!Messages, Commands, Opening
  <2> QED
    BY <2>2, <2>3, <1>a, <1>s, <1>t, <1>n, <1>p
<1>5. CASE Card!Closed
  <2>1. /\ Card!Take("close") /\ queue' = Tail(queue)
        /\ hover' = "off" /\ card' = Card!HiddenUnlessPinned(card)
        /\ UNCHANGED <<pointer, inputs, running, pinned, cardMenu, restore>>
    BY <1>5 DEF Card!Closed
  <2>2. /\ card' \in Card!Cards /\ card'.pinned = card.pinned /\ card'.scan = card.scan
        /\ card'.window = "none" <=> card.window = "none"
        /\ card.pinned => card' = card
    BY <2>1, <1>t, HiddenIs
  <2>3. Restored' /\ PinKept' /\ Card!PinnedShown' /\ Card!NothingAfterExit'
    BY <2>1, <2>2, <1>i DEF Restored, PinKept, Card!PinnedShown, Card!NothingAfterExit
  <2> QED
    BY <2>1, <2>2, <2>3, <1>h, <1>t, <1>p
<1>6. CASE Card!Opened
  <2>1. PICK m \in {"open", "move"} :
             /\ Card!Take(m) /\ queue' = Tail(queue)
             /\ card' \in IF m = "open" /\ running THEN Card!Shown(card) ELSE {card}
             /\ hover' = IF running /\ ~card'.pinned /\ hover = "off" THEN "on" ELSE hover
             /\ UNCHANGED <<pointer, inputs, running, pinned, cardMenu, restore>>
    BY <1>6 DEF Card!Opened
  <2>2. /\ card' \in Card!Cards /\ card'.pinned = card.pinned
        /\ card' = card \/ (running /\ card'.window = "shown")
    BY <2>1, <1>t, ShownIs
  <2>3. hover' \in {"off", "on", "long"} /\ (~running => hover' = hover)
    BY <2>1, <1>t
  <2>4. Restored' /\ PinKept' /\ Card!PinnedShown' /\ Card!NothingAfterExit'
    BY <2>1, <2>2, <2>3, <1>i DEF Restored, PinKept, Card!PinnedShown, Card!NothingAfterExit
  <2> QED
    BY <2>1, <2>2, <2>3, <2>4, <1>h, <1>t, <1>p
<1>7. CASE Card!Toggle
  <2>1. PICK m \in {"select", "toggle"} :
             /\ Card!Take(m) /\ queue' = Tail(queue)
             /\ hover' = "off" /\ pinned' = ~pinned
             /\ card' \in IF pinned' THEN Card!ShownPinned([card EXCEPT !.pinned = TRUE])
                                     ELSE {Card!Hidden([card EXCEPT !.pinned = FALSE])}
             /\ UNCHANGED <<pointer, inputs, running, cardMenu, restore>>
    BY <1>7 DEF Card!Toggle
  <2>2. [card EXCEPT !.pinned = TRUE] \in Card!Cards /\ [card EXCEPT !.pinned = FALSE] \in Card!Cards
    BY <1>t DEF Card!Cards
  <2>3. /\ [card EXCEPT !.pinned = TRUE].pinned /\ ~[card EXCEPT !.pinned = FALSE].pinned
        /\ [card EXCEPT !.pinned = TRUE].window = card.window
        /\ [card EXCEPT !.pinned = TRUE].scan = card.scan
        /\ [card EXCEPT !.pinned = FALSE].window = card.window
        /\ [card EXCEPT !.pinned = FALSE].scan = card.scan
    BY <1>t DEF Card!Cards
  <2>4. /\ card' \in Card!Cards /\ card'.pinned = pinned'
        /\ card'.window = "none" => card.window = "none" /\ card'.scan = card.scan
        /\ running /\ pinned' => card'.window = "shown"
        /\ ~running /\ card.window = "none" => card'.window = "none" /\ card'.scan = card.scan
    <3>1. CASE pinned' = TRUE
      <4>1. card' \in Card!ShownPinned([card EXCEPT !.pinned = TRUE])
        BY <3>1, <2>1
      <4> QED
        BY <4>1, <3>1, <2>2, <2>3, <1>t, ShownPinnedIs DEF Card!Cards
    <3>2. CASE pinned' = FALSE
      <4>1. card' = Card!Hidden([card EXCEPT !.pinned = FALSE])
        BY <3>2, <2>1
      <4> QED
        BY <4>1, <3>2, <2>2, <2>3, HiddenIs DEF Card!Cards
    <3> QED
      BY <3>1, <3>2, <2>1, <1>t
  <2>5. cardMenu = "none"
    <3>1. 1 \in 1..Len(queue) /\ queue[1] \in Commands
      BY <2>1, <1>t DEF Card!Take, Commands
    <3> QED
      BY <3>1, <1>i, <1>t DEF NoneWhileOpen
  <2>6. Restored' /\ PinKept' /\ Card!PinnedShown' /\ Card!NothingAfterExit'
    BY <2>1, <2>4, <2>5, <1>i, <1>t DEF Restored, PinKept, Card!PinnedShown, Card!NothingAfterExit
  <2> QED
    BY <2>1, <2>4, <2>6, <1>h, <1>t, <1>p
<1>8. CASE Card!Context
  <2>1. /\ Card!Take("context") /\ queue' = Append(Tail(queue), "menu")
        /\ UNCHANGED <<pointer, inputs, running, pinned, hover, card, cardMenu, restore>>
    BY <1>8 DEF Card!Context
  <2>2. 1 \in 1..Len(queue) /\ queue[1] \in Opening /\ Tail(queue) \in Seq(Card!Messages)
    BY <2>1, <1>t DEF Card!Take, Opening
  <2>3. \A i \in 1..Len(Tail(queue)) : Tail(queue)[i] \notin Opening
    <3> SUFFICES ASSUME NEW i \in 1..Len(Tail(queue)), Tail(queue)[i] \in Opening PROVE FALSE
      OBVIOUS
    <3>1. i + 1 \in 1..Len(queue) /\ queue[i + 1] \in Commands
      BY <2>2, <1>t DEF Commands
    <3>2. i + 1 <= 1
      BY <3>1, <2>2, <1>i DEF OneAtATime
    <3> QED
      BY <3>2
  <2>4. OneAtATime' /\ queue' \in Seq(Card!Messages)
    BY <2>1, <2>2, <2>3, <1>b DEF Card!Messages
  <2>5. NoneWhileOpen'
    BY <2>1, <2>2, <1>i, <1>t DEF NoneWhileOpen, Commands
  <2> QED
    BY <2>1, <2>4, <2>5, <1>s, <1>t, <1>p
<1>9. CASE Card!OpenMenu
  <2>1. /\ Card!Take("menu") /\ cardMenu = "none" /\ queue' = Tail(queue)
        /\ hover' = "off" /\ card' = Card!Hidden(card)
        /\ restore' = pinned /\ cardMenu' = "open"
        /\ UNCHANGED <<pointer, inputs, running, pinned>>
    BY <1>9 DEF Card!OpenMenu
  <2>2. 1 \in 1..Len(queue) /\ queue[1] \in Opening /\ Tail(queue) \in Seq(Card!Messages)
    BY <2>1, <1>t DEF Card!Take, Opening
  <2>3. NoneWhileOpen'
    <3> SUFFICES ASSUME NEW i \in 1..Len(Tail(queue)), Tail(queue)[i] \in Commands PROVE FALSE
      BY <2>1 DEF NoneWhileOpen, Commands, Opening
    <3>1. i + 1 \in 1..Len(queue) /\ queue[i + 1] \in Commands
      BY <2>2, <1>t
    <3>2. i + 1 <= 1
      BY <3>1, <2>2, <1>i DEF OneAtATime
    <3> QED
      BY <3>2
  <2>4. /\ card' \in Card!Cards /\ card'.pinned = card.pinned /\ card'.scan = card.scan
        /\ card'.window = "none" <=> card.window = "none"
    BY <2>1, <1>t, HiddenIs
  <2>5. Restored' /\ PinKept' /\ Card!PinnedShown' /\ Card!NothingAfterExit'
    BY <2>1, <2>4, <1>i DEF Restored, PinKept, Card!PinnedShown, Card!NothingAfterExit
  <2> QED
    BY <2>1, <2>3, <2>4, <2>5, <1>h, <1>t, <1>p
<1>10. CASE Card!OpenSecond
  <2>1. queue # <<>> /\ Head(queue) = "menu" /\ cardMenu = "open"
    BY <1>10 DEF Card!OpenSecond, Card!Take
  <2>2. 1 \in 1..Len(queue) /\ queue[1] \in Commands
    BY <2>1, <1>t DEF Commands, Opening
  <2> QED
    BY <2>1, <2>2, <1>i DEF NoneWhileOpen
<1>11. CASE Card!Recreated
  <2>1. /\ Card!Take("created") /\ queue' = Tail(queue)
        /\ card' \in IF running /\ pinned THEN Card!ShownPinned(card) ELSE {card}
        /\ UNCHANGED <<pointer, inputs, running, pinned, hover, cardMenu, restore>>
    BY <1>11 DEF Card!Recreated
  <2>2. /\ card' \in Card!Cards
        /\ card' = card \/ (running /\ pinned /\ card'.window = "shown" /\ card'.pinned)
    BY <2>1, <1>t, ShownPinnedIs
  <2>3. Restored' /\ PinKept' /\ Card!PinnedShown' /\ Card!NothingAfterExit'
    BY <2>1, <2>2, <1>i, <1>t DEF Restored, PinKept, Card!PinnedShown, Card!NothingAfterExit, Card!Cards
  <2> QED
    BY <2>1, <2>2, <2>3, <1>h, <1>t, <1>p
<1>12. CASE Card!Exit
  <2>1. /\ Card!Take("exit") /\ queue' = Tail(queue) /\ running' = FALSE
        /\ card' = IF running THEN Card!Destroyed(card) ELSE card
        /\ hover' = IF running THEN "off" ELSE hover
        /\ UNCHANGED <<pointer, inputs, pinned, cardMenu, restore>>
    BY <1>12 DEF Card!Exit
  <2>2. card' \in Card!Cards /\ card'.window = "none" /\ card'.scan = "none" /\ hover' = "off"
    BY <2>1, <1>t, <1>i DEF Card!Destroyed, Card!Cards, Card!NothingAfterExit
  <2>3. Restored' /\ PinKept' /\ Card!PinnedShown' /\ Card!NothingAfterExit'
    BY <2>1, <2>2, <1>i DEF Restored, PinKept, Card!PinnedShown, Card!NothingAfterExit
  <2> QED
    BY <2>1, <2>2, <2>3, <1>h, <1>t, <1>p
<1>13. CASE Card!Dismiss
  <2>1. /\ cardMenu = "open" /\ cardMenu' = "none"
        /\ card' \in IF restore THEN Card!ShownPinned(card) ELSE {card}
        /\ restore' = FALSE
        /\ UNCHANGED <<pointer, inputs, running, pinned, hover>>
    BY <1>13 DEF Card!Dismiss
  <2>2. PICK command \in {<<>>, <<"toggle">>, <<"exit">>} : queue' = queue \o command
    BY <1>13 DEF Card!Dismiss
  <2>3. OneAtATime' /\ queue' \in Seq(Card!Messages)
    <3>1. \A i \in 1..Len(queue) : queue[i] \notin Opening
      BY <2>1, <1>i DEF NoneWhileOpen, Commands
    <3>2. CASE command = <<>>
      <4>1. queue' = queue
        BY <3>2, <2>2, <1>t
      <4> QED
        BY <4>1, <1>u, <1>t
    <3>3. CASE command = <<"toggle">>
      <4>1. queue' = Append(queue, "toggle")
        BY <3>3, <2>2, <1>t
      <4> QED
        BY <4>1, <3>1, <1>b, <1>t DEF Card!Messages
    <3>4. CASE command = <<"exit">>
      <4>1. queue' = Append(queue, "exit")
        BY <3>4, <2>2, <1>t
      <4> QED
        BY <4>1, <3>1, <1>b, <1>t DEF Card!Messages
    <3> QED
      BY <2>2, <3>2, <3>3, <3>4
  <2>4. NoneWhileOpen'
    BY <2>1 DEF NoneWhileOpen
  <2>5. /\ card' \in Card!Cards
        /\ ~running => card' = card
        /\ card'.pinned = card.pinned \/ (running /\ pinned /\ card'.pinned)
        /\ running /\ pinned => card'.window = "shown"
        /\ card'.window = "none" => card'.scan = "none"
    <3>1. CASE restore = TRUE
      <4>1. card' \in Card!ShownPinned(card) /\ pinned
        BY <3>1, <2>1, <1>i DEF Restored
      <4> QED
        BY <4>1, <1>t, ShownPinnedIs
    <3>2. CASE restore = FALSE
      <4>1. card' = card /\ ~pinned
        BY <3>2, <2>1, <1>i DEF Restored
      <4> QED
        BY <4>1, <1>t
    <3> QED
      BY <3>1, <3>2, <1>t
  <2>6. Restored' /\ PinKept' /\ Card!PinnedShown' /\ Card!NothingAfterExit'
    BY <2>1, <2>5, <1>i, <1>t DEF Restored, PinKept, Card!PinnedShown, Card!NothingAfterExit, Card!Cards
  <2> QED
    BY <2>1, <2>3, <2>4, <2>5, <2>6, <1>t, <1>p
<1>14. CASE Card!Delay
  <2>1. /\ hover = "on" /\ hover' = "long"
        /\ UNCHANGED <<pointer, queue, inputs, running, pinned, card, cardMenu, restore>>
    BY <1>14 DEF Card!Delay
  <2>2. Restored' /\ PinKept' /\ Card!PinnedShown' /\ Card!NothingAfterExit'
    BY <2>1, <1>i DEF Restored, PinKept, Card!PinnedShown, Card!NothingAfterExit
  <2> QED
    BY <2>1, <2>2, <1>u, <1>t, <1>p
<1>15. CASE Card!HoverTimer
  <2>1. /\ hover # "off"
        /\ hover' = IF Card!HoverAction = "stop" THEN "off" ELSE hover
        /\ card' \in CASE Card!HoverAction = "stop" -> {Card!HiddenUnlessPinned(card)}
                       [] Card!HoverAction = "wait" -> {card}
                       [] Card!HoverAction = "show" -> Card!Shown(card)
        /\ UNCHANGED <<pointer, queue, inputs, running, pinned, cardMenu, restore>>
    BY <1>15 DEF Card!HoverTimer
  <2>2. Card!HoverAction \in {"stop", "wait", "show"}
    BY DEF Card!HoverAction
  <2>3. running
    BY <2>1, <1>i DEF Card!NothingAfterExit
  <2>4. /\ card' \in Card!Cards /\ card'.pinned = card.pinned
        /\ card'.window = "none" => card'.scan = "none"
        /\ card.pinned => card' = card \/ card'.window = "shown"
    <3>1. CASE Card!HoverAction = "stop"
      <4>1. card' = Card!HiddenUnlessPinned(card)
        BY <3>1, <2>1
      <4> QED
        BY <4>1, <1>t, HiddenIs
    <3>2. CASE Card!HoverAction = "wait"
      BY <3>2, <2>1, <1>t
    <3>3. CASE Card!HoverAction = "show"
      <4>1. card' \in Card!Shown(card)
        BY <3>3, <2>1
      <4> QED
        BY <4>1, <1>t, ShownIs
    <3> QED
      BY <2>2, <3>1, <3>2, <3>3
  <2>5. Restored' /\ PinKept' /\ Card!PinnedShown' /\ Card!NothingAfterExit'
    BY <2>1, <2>3, <2>4, <1>i DEF Restored, PinKept, Card!PinnedShown, Card!NothingAfterExit
  <2> QED
    BY <2>1, <2>4, <2>5, <1>u, <1>t, <1>p
<1>16. CASE Card!Measured
  <2>1. PICK end \in {"sent", "lost"} : card' = [card EXCEPT !.scan = end]
    BY <1>16 DEF Card!Measured
  <2>2. /\ card.scan = "running"
        /\ UNCHANGED <<pointer, queue, inputs, running, pinned, hover, cardMenu, restore>>
    BY <1>16 DEF Card!Measured
  <2>3. /\ card' \in Card!Cards /\ card'.pinned = card.pinned /\ card'.window = card.window
        /\ card.window # "none"
    BY <2>1, <2>2, <1>t DEF Card!Cards
  <2>4. Restored' /\ PinKept' /\ Card!PinnedShown' /\ Card!NothingAfterExit'
    BY <2>2, <2>3, <1>i DEF Restored, PinKept, Card!PinnedShown, Card!NothingAfterExit
  <2> QED
    BY <2>2, <2>3, <2>4, <1>u, <1>t, <1>p
<1>17. CASE Card!DiskTimer
  <2>1. /\ card.scan \in {"sent", "lost"}
        /\ card' = Card!Placed([card EXCEPT !.scan = "none", !.recent = @ \/ card.scan = "sent"])
        /\ UNCHANGED <<pointer, queue, inputs, running, pinned, hover, cardMenu, restore>>
    BY <1>17 DEF Card!DiskTimer
  <2>2. /\ card' \in Card!Cards /\ card'.pinned = card.pinned
        /\ card.window # "none" /\ card'.window = "shown"
    BY <2>1, <1>t DEF Card!Placed, Card!Cards
  <2>3. Restored' /\ PinKept' /\ Card!PinnedShown' /\ Card!NothingAfterExit'
    BY <2>1, <2>2, <1>i DEF Restored, PinKept, Card!PinnedShown, Card!NothingAfterExit
  <2> QED
    BY <2>1, <2>2, <2>3, <1>u, <1>t, <1>p
<1>18. CASE Card!Outdated
  <2>1. /\ card' = [card EXCEPT !.recent = FALSE]
        /\ UNCHANGED <<pointer, queue, inputs, running, pinned, hover, cardMenu, restore>>
    BY <1>18 DEF Card!Outdated
  <2>2. /\ card' \in Card!Cards /\ card'.pinned = card.pinned
        /\ card'.window = card.window /\ card'.scan = card.scan
    BY <2>1, <1>t DEF Card!Cards
  <2>3. Restored' /\ PinKept' /\ Card!PinnedShown' /\ Card!NothingAfterExit'
    BY <2>1, <2>2, <1>i DEF Restored, PinKept, Card!PinnedShown, Card!NothingAfterExit
  <2> QED
    BY <2>1, <2>2, <2>3, <1>u, <1>t, <1>p
<1> QED
  BY <1>1, <1>2, <1>3, <1>4, <1>5, <1>6, <1>7, <1>8, <1>9, <1>10, <1>11, <1>12, <1>13,
     <1>14, <1>15, <1>16, <1>17, <1>18 DEF Card!Next, Card!Receive

LEMMA CardRests == CardInv /\ UNCHANGED cardVars => CardInv'
BY DEF CardInv, cardVars, Card!TypeOK, OneAtATime, NoneWhileOpen, Restored, PinKept,
       Card!PinnedShown, Card!NothingAfterExit

\* The card is pinned if the menu says so, a pinned card is shown, and nothing
\* comes back after the exit: for any number of inputs, with measurements and
\* without.
THEOREM PinHeld == DeskSpec => []CardTrue
<1>1. DeskInit => CardInv
  BY CardInitially DEF DeskInit
<1>2. CardInv /\ [DeskNext]_deskVars => CardInv'
  BY DeskSteps, CardStep, CardRests
<1>3. CardInv => CardTrue
  BY DEF CardInv, CardTrue, PinKept, Card!PinAgrees
<1> QED
  BY <1>1, <1>2, <1>3, PTL DEF DeskSpec

-----------------------------------------------------------------------------
(***************************************************************************)
(* The icon.                                                               *)
(***************************************************************************)
\* The shell that has the icon runs; and while no call was slow, the program
\* knows of each icon that the shell has, and so takes it away at the exit.
ShellRuns == has => up
KnownWhileFast == slow = 0 /\ iconPhase = "running" /\ has => added

\* What a look at the registry saw to be absent still is, as long as the user does
\* not act in between.
Looked == seen = "no value" => value = "no value"

IconInv == Icon!TypeOK /\ ShellRuns /\ KnownWhileFast /\ Icon!NoGhost /\ Looked

LEMMA ModifyCallIs ==
  ASSUME up \in BOOLEAN, NEW h \in BOOLEAN, NEW late \in BOOLEAN, NEW r \in Icon!ModifyCall(h, late)
  PROVE  /\ r[1] \in BOOLEAN /\ r[2] = h
         /\ r[1] => up /\ h
         /\ ~late /\ up /\ h => r[1]
<1>1. CASE r = <<up /\ h, h>>
  BY <1>1
<1>2. CASE late /\ r = <<FALSE, h>>
  BY <1>2
<1> QED
  BY <1>1, <1>2 DEF Icon!ModifyCall

LEMMA AddCallIs ==
  ASSUME up \in BOOLEAN, NEW h \in BOOLEAN, NEW late \in BOOLEAN, NEW r \in Icon!AddCall(h, late)
  PROVE  /\ r[1] \in BOOLEAN /\ r[2] \in BOOLEAN
         /\ r[2] => h \/ up
         /\ ~late => (~r[1] => r[2] = h /\ (h \/ ~up))
         /\ r[1] => r[2]
<1>1. CASE ~up \/ h
  <2>1. r = <<FALSE, h>>
    BY <1>1 DEF Icon!AddCall
  <2> QED
    BY <2>1, <1>1
<1>2. CASE up /\ ~h
  <2>1. r = <<TRUE, TRUE>> \/ (late /\ r = <<FALSE, FALSE>>)
          \/ (late /\ r = <<FALSE, TRUE>>)
    BY <1>2 DEF Icon!AddCall
  <2>2. CASE r = <<TRUE, TRUE>>
    BY <2>2, <1>2
  <2>3. CASE late /\ r = <<FALSE, FALSE>>
    BY <2>3, <1>2
  <2>4. CASE late /\ r = <<FALSE, TRUE>>
    BY <2>4, <1>2
  <2> QED
    BY <2>1, <2>2, <2>3, <2>4
<1> QED
  BY <1>1, <1>2

LEMMA AddOrModifyIs ==
  ASSUME up \in BOOLEAN, has \in BOOLEAN, ShellRuns, NEW late \in BOOLEAN,
         NEW r \in Icon!AddOrModify(late)
  PROVE  /\ r[1] \in BOOLEAN /\ r[2] \in BOOLEAN
         /\ r[2] => up
         /\ ~late /\ r[2] => r[1]
<1>1. CASE r \in Icon!AddCall(has, late) /\ r[1]
  BY <1>1, AddCallIs DEF ShellRuns
<1>2. CASE \E q \in Icon!AddCall(has, late) : ~q[1] /\ r \in Icon!ModifyCall(q[2], late)
  <2>1. PICK q \in Icon!AddCall(has, late) : ~q[1] /\ r \in Icon!ModifyCall(q[2], late)
    BY <1>2
  <2>2. q[2] \in BOOLEAN /\ (q[2] => up) /\ (~late => (q[2] = has))
    BY <2>1, AddCallIs DEF ShellRuns
  <2> QED
    BY <2>1, <2>2, ModifyCallIs
<1> QED
  BY <1>1, <1>2 DEF Icon!AddOrModify

LEMMA IconTypes ==
  Icon!TypeOK <=>
    /\ up \in BOOLEAN /\ has \in BOOLEAN /\ added \in BOOLEAN /\ timer \in BOOLEAN
    /\ iconPhase \in {"starting", "running", "ended"}
    /\ value \in Icon!Values /\ seen \in Icon!Values \cup {"idle"}
    /\ restarts \in 0..MaxRestarts /\ slow \in 0..MaxSlow /\ changes \in 0..MaxChanges
    /\ failures \in 0..Icon!MaxFailures /\ wait \in 0..MaxWait
    /\ attempts \in 0..MaxAttempts
    /\ failures = 0 => wait = 0
BY DEF Icon!TypeOK

\* What an attempt leaves of the registration: the wait is one of the table.
LEMMA FailIs ==
  ASSUME failures \in 0..Icon!MaxFailures, Icon!Fail
  PROVE  failures' \in 1..Icon!MaxFailures /\ wait' \in 0..MaxWait
<1>1. failures' = IF failures + 1 < 5 THEN failures + 1 ELSE 5
  BY DEF Icon!Fail, Icon!Least, Icon!MaxFailures
<1>2. failures' \in 1..5
  BY <1>1 DEF Icon!MaxFailures
<1>3. Icon!Backoff[failures'] \in Nat
  <2>1. failures' = 1 \/ failures' = 2 \/ failures' = 3 \/ failures' = 4 \/ failures' = 5
    BY <1>2
  <2> QED
    BY <2>1 DEF Icon!Backoff
<1>4. wait' = Icon!Least(Icon!Backoff[failures'], MaxWait)
  BY DEF Icon!Fail
<1>5. MaxWait \in Nat
  BY DeskAssumption
<1> QED
  BY <1>2, <1>3, <1>4, <1>5 DEF Icon!Least, Icon!MaxFailures

LEMMA LateIs ==
  ASSUME slow \in 0..MaxSlow, NEW late \in BOOLEAN, Icon!Late(late)
  PROVE  slow' \in 0..MaxSlow /\ (slow' = 0 => slow = 0 /\ ~late) /\ up' = up /\ restarts' = restarts
<1>1. MaxSlow \in Nat
  BY DeskAssumption
<1> QED
  BY <1>1 DEF Icon!Late

LEMMA PromoteWithIs ==
  ASSUME Icon!TypeOK, NEW tries \in 0..MaxAttempts, Icon!PromoteWith(tries)
  PROVE  /\ attempts' \in 0..MaxAttempts /\ timer' \in BOOLEAN
         /\ seen' \in Icon!Values \cup {"idle"} /\ seen' \in {seen, value}
<1>1. MaxAttempts \in Nat
  BY DeskAssumption
<1>t. /\ timer \in BOOLEAN
      /\ value \in Icon!Values /\ seen \in Icon!Values \cup {"idle"}
  BY IconTypes
<1>2. CASE Icon!StopPromote
  <2>1. attempts' = 0 /\ timer' = FALSE /\ seen' = seen
    BY <1>2 DEF Icon!StopPromote
  <2>2. attempts' \in 0..MaxAttempts
    BY <2>1, <1>1
  <2>3. timer' \in BOOLEAN
    BY <2>1
  <2>4. seen' \in Icon!Values \cup {"idle"}
    BY <2>1, <1>t
  <2> QED
    BY <2>1, <2>2, <2>3, <2>4
<1>3. CASE tries # 0 /\ attempts' = tries - 1 /\ seen' = value /\ UNCHANGED timer
  <2>1. timer' = timer /\ seen' = value
    BY <1>3
  <2>2. attempts' \in 0..MaxAttempts
    BY <1>1, <1>3
  <2> QED
    BY <2>1, <2>2, <1>t
<1> QED
  BY <1>2, <1>3 DEF Icon!PromoteWith

LEMMA AddIs ==
  ASSUME IconInv, NEW late \in BOOLEAN, Icon!Late(late), Icon!Add(late)
  PROVE  /\ has' \in BOOLEAN /\ added' \in BOOLEAN
         /\ failures' \in 0..Icon!MaxFailures /\ wait' \in 0..MaxWait
         /\ failures' = 0 => wait' = 0
         /\ has' => up
         /\ slow' = 0 /\ has' => added'
<1>t. Icon!TypeOK /\ ShellRuns
  BY DEF IconInv
<1>1. PICK r \in Icon!AddOrModify(late) :
        has' = r[2] /\ IF r[1] THEN Icon!Succeed ELSE Icon!Fail /\ UNCHANGED added
  BY DEF Icon!Add
<1>2. r[1] \in BOOLEAN /\ r[2] \in BOOLEAN /\ (r[2] => up) /\ (~late /\ r[2] => r[1])
  BY <1>1, <1>t, AddOrModifyIs, IconTypes
<1>3. slow' = 0 => ~late
  BY <1>t, LateIs, IconTypes
<1>4. CASE r[1] = TRUE
  <2>1. added' = TRUE /\ failures' = 0 /\ wait' = 0
    BY <1>1, <1>4 DEF Icon!Succeed
  <2>2. 0 \in 0..MaxWait /\ 0 \in 0..Icon!MaxFailures
    BY DeskAssumption DEF Icon!MaxFailures
  <2> QED
    BY <2>1, <2>2, <1>1, <1>2
<1>5. CASE r[1] = FALSE
  <2>1. Icon!Fail /\ added' = added
    BY <1>1, <1>5
  <2>2. failures' \in 1..Icon!MaxFailures /\ wait' \in 0..MaxWait
    BY <2>1, <1>t, FailIs, IconTypes
  <2>3. failures' \in 0..Icon!MaxFailures /\ failures' # 0
    BY <2>2 DEF Icon!MaxFailures
  <2> QED
    BY <2>1, <2>2, <2>3, <1>1, <1>2, <1>3, <1>5, <1>t, IconTypes
<1> QED
  BY <1>2, <1>4, <1>5

LEMMA IconStep == IconInv /\ Icon!Next => IconInv'
<1> SUFFICES ASSUME IconInv, Icon!Next PROVE IconInv'
  OBVIOUS
<1>i. Icon!TypeOK /\ ShellRuns /\ KnownWhileFast /\ Icon!NoGhost /\ Looked
  BY DEF IconInv
<1>t. /\ up \in BOOLEAN /\ has \in BOOLEAN /\ added \in BOOLEAN /\ timer \in BOOLEAN
      /\ iconPhase \in {"starting", "running", "ended"}
      /\ value \in Icon!Values /\ seen \in Icon!Values \cup {"idle"}
      /\ restarts \in 0..MaxRestarts /\ slow \in 0..MaxSlow /\ changes \in 0..MaxChanges
      /\ failures \in 0..Icon!MaxFailures /\ wait \in 0..MaxWait
      /\ attempts \in 0..MaxAttempts
      /\ failures = 0 => wait = 0
  BY <1>i, IconTypes
<1>n. /\ 0 \in 0..MaxWait /\ 0 \in 0..MaxAttempts /\ MaxAttempts \in 0..MaxAttempts
      /\ 0 \in 0..Icon!MaxFailures
  BY DeskAssumption DEF Icon!MaxFailures
<1>p. /\ up' \in BOOLEAN /\ has' \in BOOLEAN /\ added' \in BOOLEAN /\ timer' \in BOOLEAN
      /\ iconPhase' \in {"starting", "running", "ended"}
      /\ value' \in Icon!Values /\ seen' \in Icon!Values \cup {"idle"}
      /\ restarts' \in 0..MaxRestarts /\ slow' \in 0..MaxSlow /\ changes' \in 0..MaxChanges
      /\ failures' \in 0..Icon!MaxFailures /\ wait' \in 0..MaxWait
      /\ attempts' \in 0..MaxAttempts
      /\ failures' = 0 => wait' = 0
      /\ ShellRuns' /\ KnownWhileFast' /\ Icon!NoGhost' /\ Looked'
      => IconInv'
  BY DEF IconInv, Icon!TypeOK
<1>1. CASE Icon!AddTray
  <2>1. PICK late \in BOOLEAN : Icon!Late(late) /\ Icon!Add(late)
    BY <1>1 DEF Icon!AddTray
  <2>2. iconPhase' = "running" /\ UNCHANGED <<value, changes>> /\ Icon!PromoteWith(MaxAttempts)
    BY <1>1 DEF Icon!AddTray, Icon!user
  <2>3. /\ attempts' \in 0..MaxAttempts /\ timer' \in BOOLEAN
        /\ seen' \in Icon!Values \cup {"idle"} /\ seen' \in {seen, value}
    BY <2>2, <1>i, <1>n, PromoteWithIs
  <2>4. slow' \in 0..MaxSlow /\ up' = up /\ restarts' = restarts
    BY <2>1, <1>t, LateIs
  <2>5. /\ has' \in BOOLEAN /\ added' \in BOOLEAN
        /\ failures' \in 0..Icon!MaxFailures /\ wait' \in 0..MaxWait
        /\ failures' = 0 => wait' = 0
        /\ has' => up
        /\ slow' = 0 /\ has' => added'
    BY <2>1, AddIs
  <2>6. ShellRuns' /\ KnownWhileFast' /\ Icon!NoGhost' /\ Looked'
    BY <2>2, <2>3, <2>4, <2>5, <1>i DEF ShellRuns, KnownWhileFast, Icon!NoGhost, Looked
  <2> QED
    BY <2>2, <2>3, <2>4, <2>5, <2>6, <1>t, <1>p
<1>2. CASE Icon!ModifyTray
  <2>1. /\ iconPhase = "running" /\ iconPhase' = iconPhase /\ UNCHANGED <<value, changes>>
        /\ IF ~added /\ added' THEN Icon!PromoteWith(MaxAttempts)
           ELSE UNCHANGED <<attempts, timer, seen>>
    BY <1>2 DEF Icon!ModifyTray, Icon!user, Icon!promotion, Icon!running
  <2>2. /\ attempts' \in 0..MaxAttempts /\ timer' \in BOOLEAN
        /\ seen' \in Icon!Values \cup {"idle"} /\ seen' \in {seen, value}
    <3>1. CASE Icon!PromoteWith(MaxAttempts)
      BY <3>1, <1>i, <1>n, PromoteWithIs
    <3>2. CASE UNCHANGED <<attempts, timer, seen>>
      BY <3>2, <1>t
    <3> QED
      BY <2>1, <3>1, <3>2
  <2>3. \E late \in BOOLEAN : Icon!Late(late)
    BY <1>2 DEF Icon!ModifyTray
  <2>4. slow' \in 0..MaxSlow /\ up' = up /\ restarts' = restarts
    BY <2>3, <1>t, LateIs
  <2>5. /\ has' \in BOOLEAN /\ added' \in BOOLEAN
        /\ failures' \in 0..Icon!MaxFailures /\ wait' \in 0..MaxWait
        /\ failures' = 0 => wait' = 0
        /\ has' => up
        /\ slow' = 0 /\ has' => added'
    <3>1. CASE added = FALSE
      <4>1. PICK late \in BOOLEAN : Icon!Late(late) /\ Icon!Add(late)
        BY <1>2, <3>1 DEF Icon!ModifyTray
      <4> QED
        BY <4>1, AddIs
    <3>2. CASE added = TRUE
      <4>0. PICK late \in BOOLEAN : \E r \in Icon!ModifyCall(has, late) :
              /\ Icon!Late(late) /\ has' = r[2]
              /\ IF r[1] THEN Icon!Succeed ELSE added' = FALSE /\ Icon!Fail
        BY <1>2, <3>2 DEF Icon!ModifyTray
      <4>1. PICK r \in Icon!ModifyCall(has, late) :
              /\ Icon!Late(late) /\ has' = r[2]
              /\ IF r[1] THEN Icon!Succeed ELSE added' = FALSE /\ Icon!Fail
        BY <4>0
      <4>2. r[1] \in BOOLEAN /\ r[2] = has /\ (~late /\ up /\ has => r[1])
        BY <4>1, <1>t, ModifyCallIs
      <4>3. slow' = 0 => ~late
        BY <4>1, <1>t, LateIs
      <4>4. CASE r[1] = TRUE
        <5>1. added' = TRUE /\ failures' = 0 /\ wait' = 0
          BY <4>1, <4>4 DEF Icon!Succeed
        <5> QED
          BY <5>1, <4>1, <4>2, <1>n, <1>t, <1>i DEF ShellRuns
      <4>5. CASE r[1] = FALSE
        <5>1. added' = FALSE /\ Icon!Fail
          BY <4>1, <4>5
        <5>2. failures' \in 1..Icon!MaxFailures /\ wait' \in 0..MaxWait
          BY <5>1, <1>t, FailIs
        <5>3. failures' \in 0..Icon!MaxFailures /\ failures' # 0
          BY <5>2 DEF Icon!MaxFailures
        <5>4. slow' = 0 => ~has
          BY <4>2, <4>3, <4>5, <1>i DEF ShellRuns
        <5> QED
          BY <5>1, <5>2, <5>3, <5>4, <4>1, <4>2, <1>t, <1>i DEF ShellRuns
      <4> QED
        BY <4>2, <4>4, <4>5
    <3> QED
      BY <1>t, <3>1, <3>2
  <2>6. ShellRuns' /\ KnownWhileFast' /\ Icon!NoGhost' /\ Looked'
    BY <2>1, <2>2, <2>4, <2>5, <1>i DEF ShellRuns, KnownWhileFast, Icon!NoGhost, Looked
  <2> QED
    BY <2>1, <2>2, <2>4, <2>5, <2>6, <1>t, <1>p
<1>3. CASE Icon!RemoveTray
  <2>1. /\ iconPhase = "running" /\ iconPhase' = "ended" /\ attempts' = 0 /\ timer' = FALSE
        /\ UNCHANGED <<seen, up, restarts, slow, value, changes>>
        /\ added' = FALSE /\ failures' = 0 /\ wait' = 0
    BY <1>3 DEF Icon!RemoveTray, Icon!StopPromote, Icon!running, Icon!user
  <2>2. has' = (has /\ ~added)
    BY <1>3 DEF Icon!RemoveTray
  <2>3. has' \in BOOLEAN /\ (has' => up) /\ (slow = 0 => ~has')
    BY <2>1, <2>2, <1>i DEF ShellRuns, KnownWhileFast
  <2>4. ShellRuns' /\ KnownWhileFast' /\ Icon!NoGhost' /\ Looked'
    BY <2>1, <2>3, <1>i DEF ShellRuns, KnownWhileFast, Icon!NoGhost, Looked
  <2>5. added' \in BOOLEAN /\ timer' \in BOOLEAN
    BY <2>1
  <2> QED
    BY <2>1, <2>3, <2>4, <2>5, <1>n, <1>t, <1>p
<1>4. CASE Icon!PromoteTimer
  <2>1. UNCHANGED <<up, has, restarts, slow, value, changes, iconPhase, added, failures, wait>>
        /\ Icon!PromoteWith(attempts)
    BY <1>4 DEF Icon!PromoteTimer, Icon!shell, Icon!user, Icon!registration
  <2>2. /\ attempts' \in 0..MaxAttempts /\ timer' \in BOOLEAN
        /\ seen' \in Icon!Values \cup {"idle"} /\ seen' \in {seen, value}
    BY <2>1, <1>i, <1>t, PromoteWithIs
  <2>3. ShellRuns' /\ KnownWhileFast' /\ Icon!NoGhost' /\ Looked'
    BY <2>1, <2>2, <1>i DEF ShellRuns, KnownWhileFast, Icon!NoGhost, Looked
  <2> QED
    BY <2>1, <2>2, <2>3, <1>t, <1>p
<1>5. CASE Icon!EndLook
  <2>1. /\ seen' = "idle" /\ value' = (IF seen = "no value" THEN "shown" ELSE value)
        /\ UNCHANGED <<up, has, restarts, slow, changes, iconPhase, added, failures, wait>>
        /\ \/ timer' = TRUE /\ attempts' = attempts
           \/ attempts' = 0 /\ timer' = FALSE
    BY <1>5 DEF Icon!EndLook, Icon!shell, Icon!registration
  <2>2. timer' \in BOOLEAN /\ attempts' \in 0..MaxAttempts
    BY <2>1, <1>n, <1>t
  <2>3. value' \in Icon!Values
    BY <2>1, <1>t DEF Icon!Values
  <2>4. ShellRuns' /\ KnownWhileFast' /\ Icon!NoGhost' /\ Looked'
    BY <2>1, <1>i DEF ShellRuns, KnownWhileFast, Icon!NoGhost, Looked
  <2> QED
    BY <2>1, <2>2, <2>3, <2>4, <1>t, <1>p
<1>6. CASE Icon!Time
  <2>1. /\ wait > 0 /\ wait' = wait - 1
        /\ UNCHANGED <<up, has, restarts, slow, value, changes, iconPhase, added, failures,
                       attempts, timer, seen>>
    BY <1>6 DEF Icon!Time, Icon!shell, Icon!user, Icon!promotion
  <2>2. wait' \in 0..MaxWait /\ (failures' = 0 => wait' = 0)
    BY <2>1, <1>t, DeskAssumption
  <2>3. ShellRuns' /\ KnownWhileFast' /\ Icon!NoGhost' /\ Looked'
    BY <2>1, <1>i DEF ShellRuns, KnownWhileFast, Icon!NoGhost, Looked
  <2> QED
    BY <2>1, <2>2, <2>3, <1>t, <1>p
<1>7. CASE Icon!ShellEnds
  <2>1. /\ restarts < MaxRestarts /\ restarts' = restarts + 1 /\ up' = FALSE /\ has' = FALSE
        /\ UNCHANGED <<slow, value, changes, iconPhase, added, failures, wait, attempts, timer, seen>>
    BY <1>7 DEF Icon!ShellEnds, Icon!user, Icon!registration, Icon!promotion
  <2>2. restarts' \in 0..MaxRestarts
    BY <2>1, <1>t, DeskAssumption
  <2>3. ShellRuns' /\ KnownWhileFast' /\ Icon!NoGhost' /\ Looked'
    BY <2>1, <1>i DEF ShellRuns, KnownWhileFast, Icon!NoGhost, Looked
  <2>4. up' \in BOOLEAN /\ has' \in BOOLEAN
    BY <2>1
  <2> QED
    BY <2>1, <2>2, <2>3, <2>4, <1>t, <1>p
<1>8. CASE Icon!ShellStarts
  <2>1. /\ up' = TRUE
        /\ UNCHANGED <<has, restarts, slow, value, changes, iconPhase, added, failures, wait,
                       attempts, timer, seen>>
    BY <1>8 DEF Icon!ShellStarts, Icon!user, Icon!registration, Icon!promotion
  <2>2. ShellRuns' /\ KnownWhileFast' /\ Icon!NoGhost' /\ Looked'
    BY <2>1, <1>i DEF ShellRuns, KnownWhileFast, Icon!NoGhost, Looked
  <2>3. up' \in BOOLEAN
    BY <2>1
  <2> QED
    BY <2>1, <2>2, <2>3, <1>t, <1>p
<1>9. CASE Icon!KeyCreated
  <2>1. /\ value' = "no value"
        /\ UNCHANGED <<up, has, restarts, slow, changes, iconPhase, added, failures, wait,
                       attempts, timer, seen>>
    BY <1>9 DEF Icon!KeyCreated, Icon!shell, Icon!registration, Icon!promotion
  <2>2. ShellRuns' /\ KnownWhileFast' /\ Icon!NoGhost' /\ Looked'
    BY <2>1, <1>i DEF ShellRuns, KnownWhileFast, Icon!NoGhost, Looked
  <2>3. value' \in Icon!Values
    BY <2>1 DEF Icon!Values
  <2> QED
    BY <2>1, <2>2, <2>3, <1>t, <1>p
<1>10. CASE Icon!Choose
  <2>1. /\ seen = "idle" /\ changes < MaxChanges /\ changes' = changes + 1 /\ value' \in {"hidden", "shown"}
        /\ UNCHANGED <<up, has, restarts, slow, iconPhase, added, failures, wait,
                       attempts, timer, seen>>
    BY <1>10 DEF Icon!Choose, Icon!Idle, Icon!shell, Icon!registration, Icon!promotion
  <2>2. ShellRuns' /\ KnownWhileFast' /\ Icon!NoGhost' /\ Looked'
    BY <2>1, <1>i DEF ShellRuns, KnownWhileFast, Icon!NoGhost, Looked
  <2>3. value' \in Icon!Values
    BY <2>1 DEF Icon!Values
  <2>4. changes' \in 0..MaxChanges
    BY <2>1, <1>t, DeskAssumption
  <2> QED
    BY <2>1, <2>2, <2>3, <2>4, <1>t, <1>p
<1> QED
  BY <1>1, <1>2, <1>3, <1>4, <1>5, <1>6, <1>7, <1>8, <1>9, <1>10 DEF Icon!Next

LEMMA IconInitially == Icon!Init => IconInv
<1> SUFFICES ASSUME Icon!Init PROVE IconInv
  OBVIOUS
<1>1. /\ up \in BOOLEAN /\ has \in BOOLEAN /\ (has => up)
      /\ value \in Icon!Values
      /\ restarts = 0 /\ slow = 0 /\ changes = 0
      /\ iconPhase = "starting" /\ added = FALSE /\ failures = 0 /\ wait = 0
      /\ attempts = 0 /\ timer = FALSE /\ seen = "idle"
  BY DEF Icon!Init
<1>2. /\ 0 \in 0..MaxWait /\ 0 \in 0..MaxAttempts /\ 0 \in 0..MaxRestarts
      /\ 0 \in 0..MaxSlow /\ 0 \in 0..MaxChanges /\ 0 \in 0..Icon!MaxFailures
  BY DeskAssumption DEF Icon!MaxFailures
<1>3. added \in BOOLEAN /\ timer \in BOOLEAN
  BY <1>1
<1>4. Icon!TypeOK
  BY <1>1, <1>2, <1>3, IconTypes
<1> QED
  BY <1>1, <1>4 DEF IconInv, ShellRuns, KnownWhileFast, Icon!NoGhost, Looked

LEMMA IconRests == IconInv /\ UNCHANGED iconVars => IconInv'
<1> SUFFICES ASSUME IconInv, UNCHANGED iconVars PROVE IconInv'
  OBVIOUS
<1>1. Icon!TypeOK'
  BY DEF IconInv, iconVars, Icon!TypeOK
<1>2. ShellRuns' /\ KnownWhileFast' /\ Icon!NoGhost'
  BY DEF IconInv, iconVars, ShellRuns, KnownWhileFast, Icon!NoGhost
<1>3. Looked'
  BY DEF IconInv, iconVars, Looked
<1> QED
  BY <1>1, <1>2, <1>3 DEF IconInv

-----------------------------------------------------------------------------
(***************************************************************************)
(* The rate of the animation.                                              *)
(***************************************************************************)
LEMMA BandIs ==
  /\ App!Band[5] = 0 /\ App!Band[10] = 10 /\ App!Band[15] = 30
  /\ App!Band[20] = 55 /\ App!Band[30] = 75 /\ App!Band[40] = 90
  /\ \A f \in App!Fps : App!Band[f] \in Nat
<1>1. /\ App!Band[5] = 0 /\ App!Band[10] = 10 /\ App!Band[15] = 30
      /\ App!Band[20] = 55 /\ App!Band[30] = 75 /\ App!Band[40] = 90
  BY DEF App!Band, App!Fps
<1> QED
  BY <1>1 DEF App!Fps

\* The highest band that the load reaches within the limit.
Best(f, load, limit) ==
    /\ f \in App!Fps /\ f <= limit /\ App!Band[f] <= load
    /\ \A g \in App!Fps : g <= limit /\ App!Band[g] <= load => g <= f

LEMMA DesiredIs ==
  ASSUME NEW load \in Nat, NEW limit \in App!FpsLimit
  PROVE  Best(App!Desired(load, limit), load, limit)
<1>1. \E f \in App!Fps : Best(f, load, limit)
  <2>1. CASE 40 <= limit /\ 90 <= load
    BY <2>1, BandIs DEF Best, App!Fps
  <2>2. CASE 30 <= limit /\ 75 <= load /\ ~(40 <= limit /\ 90 <= load)
    BY <2>2, BandIs DEF Best, App!Fps, App!FpsLimit
  <2>3. CASE 20 <= limit /\ 55 <= load /\ ~(30 <= limit /\ 75 <= load)
    BY <2>3, BandIs DEF Best, App!Fps, App!FpsLimit
  <2>4. CASE 20 <= limit /\ 30 <= load /\ load < 55
    BY <2>4, BandIs DEF Best, App!Fps, App!FpsLimit
  <2>5. CASE 10 <= load /\ (limit = 10 \/ load < 30)
    BY <2>5, BandIs DEF Best, App!Fps, App!FpsLimit
  <2>6. CASE load < 10
    BY <2>6, BandIs DEF Best, App!Fps, App!FpsLimit
  <2> QED
    BY <2>1, <2>2, <2>3, <2>4, <2>5, <2>6 DEF App!FpsLimit
<1> QED
  BY <1>1 DEF App!Desired, Best

LEMMA LoadIs == Loads \cup {0} \subseteq Nat
BY DeskAssumption

LEMMA UpdatedIs ==
  ASSUME NEW r \in App!Rates, NEW load \in Loads \cup {0}
  PROVE  /\ App!Updated(r, load) \in App!Rates
         /\ App!Updated(r, load).limit = r.limit
         /\ r.fps <= r.limit => App!Updated(r, load).fps <= r.limit
         /\ App!Updated(r, load).fps > r.fps
              => App!Updated(r, load).fps <= r.limit
                 /\ load >= App!Band[App!Updated(r, load).fps] + 2
         /\ App!Updated(r, load).fps < r.fps
              => /\ load + 2 < App!Band[r.fps]
                 /\ \A h \in App!Fps : h <= r.limit /\ App!Band[h] <= load
                                         => h <= App!Updated(r, load).fps
<1> DEFINE want == App!Desired(load, r.limit)
           level == App!Threshold(r.fps, want)
           moves == \/ want > r.fps /\ load >= level
                    \/ want < r.fps /\ load < level
<1>t. /\ r.limit \in App!FpsLimit /\ r.fps \in App!Fps /\ r.load \in Loads \cup {0}
      /\ load \in Nat
  BY LoadIs DEF App!Rates
<1>1. Best(want, load, r.limit)
  BY <1>t, DesiredIs
<1>2. App!Updated(r, load) = [r EXCEPT !.load = load, !.fps = IF moves THEN want ELSE @]
  BY DEF App!Updated
<1>3. want \in App!Fps /\ want <= r.limit
  BY <1>1 DEF Best
<1> HIDE DEF want
<1>4. /\ App!Updated(r, load) \in App!Rates
      /\ App!Updated(r, load).limit = r.limit
      /\ App!Updated(r, load).fps = IF moves THEN want ELSE r.fps
  BY <1>2, <1>3, <1>t DEF App!Rates
<1>5. want > r.fps => level = App!Band[want] + 2
  BY DEF App!Threshold
<1>6. want < r.fps /\ load < level => load + 2 < App!Band[r.fps]
  <2> SUFFICES ASSUME want < r.fps, load < level PROVE load + 2 < App!Band[r.fps]
    OBVIOUS
  <2>1. want \in Nat /\ r.fps \in Nat /\ App!Band[r.fps] \in Nat
    BY <1>3, <1>t, BandIs DEF App!Fps
  <2>2. level = IF App!Band[r.fps] > 2 THEN App!Band[r.fps] - 2 ELSE 0
    BY <2>1 DEF App!Threshold
  <2> QED
    BY <2>1, <2>2, <1>t
<1>7. r.fps \in Nat /\ want \in Nat
  BY <1>3, <1>t DEF App!Fps
<1>8. ASSUME App!Updated(r, load).fps > r.fps
      PROVE  App!Updated(r, load).fps = want /\ load >= App!Band[want] + 2
  BY <1>8, <1>4, <1>5, <1>7
<1>9. ASSUME App!Updated(r, load).fps < r.fps
      PROVE  App!Updated(r, load).fps = want /\ load + 2 < App!Band[r.fps]
  BY <1>9, <1>4, <1>6, <1>7
<1>10. \A h \in App!Fps : h <= r.limit /\ App!Band[h] <= load => h <= want
  BY <1>1 DEF Best
<1> QED
  BY <1>3, <1>4, <1>8, <1>9, <1>10

LEMMA LimitedIs ==
  ASSUME NEW r \in App!Rates, r.fps <= r.limit, NEW limit \in App!FpsLimit
  PROVE  /\ App!Limited(r, limit) \in App!Rates
         /\ App!Limited(r, limit).limit = limit
         /\ App!Limited(r, limit).fps <= limit
         /\ r.limit = limit => App!Limited(r, limit) = r
<1> DEFINE want == App!Desired(r.load, limit)
           other == [r EXCEPT !.limit = limit]
<1>t. r.limit \in App!FpsLimit /\ r.fps \in App!Fps /\ r.load \in Loads \cup {0} /\ r.load \in Nat
  BY LoadIs DEF App!Rates
<1>1. want \in App!Fps /\ want <= limit
  BY <1>t, DesiredIs DEF Best
<1>2. /\ other \in App!Rates /\ other.limit = limit /\ other.fps = r.fps /\ other.load = r.load
  BY <1>t DEF App!Rates
<1>3. CASE r.limit = limit
  BY <1>3 DEF App!Limited
<1>4. CASE r.limit # limit /\ want >= r.fps
  <2>1. App!Limited(r, limit) = App!Updated(other, r.load)
    BY <1>4 DEF App!Limited
  <2>2. other.fps <= other.limit
    BY <1>1, <1>2, <1>4, <1>t DEF App!Fps, App!FpsLimit
  <2> HIDE DEF other
  <2> QED
    BY <2>1, <2>2, <1>2, <1>4, <1>t, UpdatedIs
<1>5. CASE r.limit # limit /\ ~(want >= r.fps)
  <2>1. App!Limited(r, limit) = [r EXCEPT !.limit = limit, !.fps = want]
    BY <1>5 DEF App!Limited
  <2> HIDE DEF want
  <2> QED
    BY <2>1, <1>1, <1>5, <1>t DEF App!Rates
<1> QED
  BY <1>3, <1>4, <1>5

-----------------------------------------------------------------------------
(***************************************************************************)
(* What the application tells the tray.                                    *)
(***************************************************************************)
\* The settings are choices of the menu, and their picture is one the model has.
Made == settings.mode \in Modes

\* What the last change of the rate by a load leaves for the next: a rise was two
\* points above the band that it reached; after a fall no higher band within the
\* limit is reached.
Turns == [way : {"none", "up", "down"}, load : Loads \cup {0}]
Rose == turn.way = "up" => turn.load >= App!Band[rate.fps] + 2
Fell == turn.way = "down" =>
            \A h \in App!Fps : h <= rate.limit /\ App!Band[h] <= turn.load => h <= rate.fps
TurnTrue == turn \in Turns /\ Rose /\ Fell

\* The rate keeps its limit also before the window is there.
Limiting == rate.limit = settings.limit /\ rate.fps <= settings.limit

Windows ==
    /\ desktop \in App!Colours /\ system \in App!Colours /\ told \in BOOLEAN /\ fresh \in BOOLEAN
State ==
    /\ settings \in App!Settings /\ appMenu \in App!Settings /\ Made
    /\ reading \in Loads \cup {App!NoLoad} /\ usage \in App!Periods \cup {App!None}
Rated == rate \in App!Rates /\ Limiting /\ TurnTrue
Timed == timers \subseteq App!Timers /\ interval \in {App!Interval(f) : f \in App!Fps} \cup {0}
Told == appPhase = "running" => icon = App!IconNow /\ App!ImageTrue

AppInv ==
    /\ Windows /\ State /\ Rated /\ Timed
    /\ appPhase \in {"starting", "running", "ended"}
    /\ App!MenuTrue /\ Told /\ App!TimerTrue /\ App!Ended
    /\ icon \in App!Icons \cup {App!Nothing}

\* Whatever was drawn before, the picture is that of the icon, or the dog.
LEMMA ModifyTrayTells ==
  ASSUME Windows', State', App!ModifyTray
  PROVE  /\ icon' = App!IconNow' /\ icon' \in App!Icons
         /\ App!ImageTrue'
<1>1. icon' = App!IconNow' /\ App!Paint
  BY DEF App!ModifyTray
<1>2. /\ icon' \in App!Icons /\ icon'.mode = settings'.mode /\ icon'.tooltip = reading'
      /\ icon'.usage = usage'
  <2>1. App!Resolve(settings'.theme, system') \in App!Colours
    BY DEF App!Resolve, Windows, State, App!Settings, App!ThemePreference, App!Colours
  <2>2. settings'.mode \in App!TrayDisplayMode
    BY DEF State, App!Settings
  <2>3. icon' = [theme |-> App!Resolve(settings'.theme, system'), mode |-> settings'.mode,
                 tooltip |-> reading', usage |-> usage']
    BY <1>1 DEF App!IconNow
  <2> QED
    BY <2>1, <2>2, <2>3 DEF App!Icons, State
<1>3. settings'.mode \in {"dog", "cpu", "claude_week"}
  BY DeskAssumption DEF State, Made
<1>4. image' = App!DogOf(icon'.theme) \/ (icon'.mode # "dog" /\ image' = App!Number')
  BY <1>1 DEF App!Paint, App!Drawn
<1>5. CASE image' = App!DogOf(icon'.theme)
  <2>1. image'[1] = icon'.theme /\ image'[2] = App!Dog
    BY <1>5 DEF App!DogOf
  <2> QED
    BY <1>1, <1>2, <2>1 DEF App!ImageTrue
<1>6. CASE icon'.mode # "dog" /\ image' = App!Number'
  <2>1. image'[1] = icon'.theme /\ image'[2] = App!Glyph'
    BY <1>6 DEF App!Number
  <2>2. CASE icon'.mode = "cpu"
    <3>1. image'[2] = <<"cpu", reading'>>
      BY <2>1, <2>2, <1>2 DEF App!Glyph
    <3> QED
      BY <1>1, <1>2, <2>1, <2>2, <3>1 DEF App!ImageTrue
  <2>3. CASE icon'.mode = "claude_week"
    <3>1. image'[2] \in {<<"claude_week", usage'>>, <<"claude_week", App!None>>}
      BY <2>1, <2>3, <1>2 DEF App!Glyph
    <3> QED
      BY <1>1, <1>2, <2>1, <2>3, <3>1 DEF App!ImageTrue
  <2> QED
    BY <1>2, <1>3, <1>6, <2>2, <2>3
<1> QED
  BY <1>1, <1>2, <1>4, <1>5, <1>6

\* The menu offers only choices of the model.
LEMMA ChoiceIs ==
  ASSUME settings \in App!Settings, Made,
         NEW field \in {"theme", "limit", "mode", "startup", "update"},
         NEW v \in App!Offered[field]
  PROVE  [settings EXCEPT ![field] = v] \in App!Settings
         /\ [settings EXCEPT ![field] = v].mode \in Modes
<1>1. Themes \subseteq App!ThemePreference /\ Limits \subseteq App!FpsLimit
      /\ Modes \subseteq App!TrayDisplayMode
  BY DeskAssumption DEF App!ThemePreference, App!FpsLimit, App!TrayDisplayMode
<1>2. CASE field = "theme"
  <2>1. v \in Themes
    BY <1>2 DEF App!Offered
  <2> QED
    BY <2>1, <1>1, <1>2 DEF App!Settings, Made
<1>3. CASE field = "limit"
  <2>1. v \in Limits
    BY <1>3 DEF App!Offered
  <2> QED
    BY <2>1, <1>1, <1>3 DEF App!Settings, Made
<1>4. CASE field = "mode"
  <2>1. v \in Modes
    BY <1>4 DEF App!Offered
  <2> QED
    BY <2>1, <1>1, <1>4 DEF App!Settings, Made
<1>5. CASE field = "startup"
  <2>1. v \in BOOLEAN
    BY <1>5 DEF App!Offered
  <2> QED
    BY <2>1, <1>5 DEF App!Settings, Made
<1>6. CASE field = "update"
  <2>1. v \in BOOLEAN
    BY <1>6 DEF App!Offered
  <2> QED
    BY <2>1, <1>6 DEF App!Settings, Made
<1> QED
  BY <1>2, <1>3, <1>4, <1>5, <1>6

LEMMA CommitStep ==
  ASSUME AppInv, appPhase = "running", NEW new \in App!Settings, new.mode \in Modes, App!Commit(new)
  PROVE  AppInv'
<1>i. /\ Windows /\ State /\ Rated /\ Timed /\ App!MenuTrue /\ Told /\ App!TimerTrue /\ App!Ended
      /\ icon \in App!Icons \cup {App!Nothing}
  BY DEF AppInv
<1>t. /\ settings \in App!Settings /\ Made /\ rate \in App!Rates /\ Limiting /\ TurnTrue
      /\ timers \subseteq App!Timers
  BY <1>i DEF State, Rated, Timed
<1>1. settings' \in {settings, new} /\ appMenu' = settings'
  BY DEF App!Commit, App!Finished
<1>2. settings' \in App!Settings /\ settings'.mode \in Modes
  BY <1>1, <1>t DEF Made
<1>3. /\ rate' = App!Limited(rate, settings'.limit)
      /\ interval' = IF rate'.fps # rate.fps THEN App!Interval(rate'.fps) ELSE interval
      /\ turn' = IF rate'.limit = rate.limit THEN turn ELSE [way |-> "none", load |-> 0]
      /\ UNCHANGED <<desktop, told, fresh, appPhase, system, reading, usage, timers>>
  BY DEF App!Commit, App!SetRate, App!windows
<1>4. /\ rate' \in App!Rates /\ rate'.limit = settings'.limit /\ rate'.fps <= settings'.limit
      /\ rate'.limit = rate.limit => rate' = rate
  <2>1. settings'.limit \in App!FpsLimit /\ rate.fps <= rate.limit
    BY <1>2, <1>t DEF App!Settings, Limiting
  <2> QED
    BY <2>1, <1>3, <1>t, LimitedIs
<1>5. Windows' /\ State'
  BY <1>1, <1>2, <1>3, <1>i DEF Windows, State, Made
<1>6. Rated'
  <2>1. TurnTrue'
    <3>1. CASE rate'.limit = rate.limit
      BY <3>1, <1>3, <1>4, <1>t DEF TurnTrue, Rose, Fell
    <3>2. CASE rate'.limit # rate.limit
      <4>1. turn' = [way |-> "none", load |-> 0]
        BY <3>2, <1>3
      <4> QED
        BY <4>1 DEF TurnTrue, Turns, Rose, Fell
    <3> QED
      BY <3>1, <3>2
  <2> QED
    BY <2>1, <1>4 DEF Rated, Limiting
<1>7. interval' = App!Interval(rate'.fps) /\ rate'.fps \in App!Fps
  <2>1. interval = App!Interval(rate.fps)
    BY <1>i DEF App!TimerTrue, App!running
  <2> QED
    BY <2>1, <1>3, <1>4 DEF App!Rates
<1>8. Timed' /\ App!TimerTrue' /\ App!MenuTrue' /\ App!Ended'
  <2>1. Timed'
    BY <1>3, <1>7, <1>t DEF Timed
  <2>2. {"cpu", "animation", "update"} \subseteq timers'
    BY <1>3, <1>i DEF App!TimerTrue, App!running
  <2>3. App!TimerTrue'
    BY <2>2, <1>3, <1>4, <1>7 DEF App!TimerTrue, App!running
  <2> QED
    BY <2>1, <2>3, <1>1, <1>3 DEF App!MenuTrue, App!Ended, App!running
<1>9. Told' /\ icon' \in App!Icons \cup {App!Nothing}
  <2>1. CASE App!ModifyTray
    BY <2>1, <1>5, ModifyTrayTells DEF Told
  <2>2. CASE /\ App!Resolve(settings'.theme, system) = App!Resolve(settings.theme, system)
             /\ settings'.mode = settings.mode
             /\ UNCHANGED <<icon, cache, image>>
    <3>1. App!IconNow' = App!IconNow
      BY <2>2, <1>3 DEF App!IconNow
    <3> QED
      BY <3>1, <2>2, <1>3, <1>i DEF Told, App!ImageTrue, App!running
  <2> QED
    BY <2>1, <2>2 DEF App!Commit, App!tray
<1> QED
  BY <1>3, <1>5, <1>6, <1>8, <1>9 DEF AppInv

LEMMA SelectStep ==
  ASSUME AppInv, NEW field \in {"theme", "limit", "mode", "startup", "update"}, App!Select(field)
  PROVE  AppInv'
<1>1. PICK v \in App!Offered[field] \ {settings[field]} : App!Commit([settings EXCEPT ![field] = v])
  BY DEF App!Select
<1>2. appPhase = "running" /\ settings \in App!Settings /\ Made
  BY DEF App!Select, App!running, AppInv, State
<1>3. [settings EXCEPT ![field] = v] \in App!Settings
      /\ [settings EXCEPT ![field] = v].mode \in Modes
  BY <1>1, <1>2, ChoiceIs
<1> QED
  BY <1>1, <1>2, <1>3, CommitStep

LEMMA CpuSampleStep == AppInv /\ App!CpuSample => AppInv'
<1> SUFFICES ASSUME AppInv, App!CpuSample PROVE AppInv'
  OBVIOUS
<1>i. /\ Windows /\ State /\ Rated /\ Timed /\ App!MenuTrue /\ Told /\ App!TimerTrue /\ App!Ended
  BY DEF AppInv
<1>t. /\ rate \in App!Rates /\ rate.limit = settings.limit /\ rate.fps <= rate.limit
      /\ turn \in Turns /\ Rose /\ Fell /\ timers \subseteq App!Timers
  BY <1>i DEF Rated, Limiting, TurnTrue, Timed
<1>1. PICK load \in Loads :
        /\ reading' = load
        /\ App!SetRate(App!Updated(rate, load))
        /\ turn' = IF rate'.fps = rate.fps THEN turn
                   ELSE [way |-> IF rate'.fps > rate.fps THEN "up" ELSE "down", load |-> load]
  BY DEF App!CpuSample
<1>2. /\ rate' = App!Updated(rate, load)
      /\ interval' = IF rate'.fps # rate.fps THEN App!Interval(rate'.fps) ELSE interval
  BY <1>1 DEF App!SetRate
<1>3. /\ appPhase = "running" /\ App!ModifyTray
      /\ UNCHANGED <<desktop, told, fresh, appPhase, settings, system, usage, appMenu, timers>>
  BY DEF App!CpuSample, App!running, App!windows
<1>4. /\ rate' \in App!Rates /\ rate'.limit = rate.limit /\ rate'.fps <= rate.limit
      /\ rate'.fps > rate.fps => load >= App!Band[rate'.fps] + 2
      /\ rate'.fps < rate.fps =>
           \A h \in App!Fps : h <= rate.limit /\ App!Band[h] <= load => h <= rate'.fps
  BY <1>2, <1>t, UpdatedIs
<1>5. Windows' /\ State'
  BY <1>1, <1>3, <1>i DEF Windows, State, Made
<1>6. TurnTrue'
  <2>n. rate.fps \in Nat /\ rate'.fps \in Nat
    BY <1>t, <1>4 DEF App!Rates, App!Fps
  <2>1. CASE rate'.fps = rate.fps
    BY <2>1, <1>1, <1>4, <1>t DEF TurnTrue, Rose, Fell
  <2>2. CASE rate'.fps > rate.fps
    <3>1. turn' = [way |-> "up", load |-> load]
      BY <2>2, <2>n, <1>1
    <3> QED
      BY <3>1, <2>2, <1>4 DEF TurnTrue, Turns, Rose, Fell
  <2>3. CASE rate'.fps < rate.fps
    <3>1. turn' = [way |-> "down", load |-> load]
      BY <2>3, <2>n, <1>1
    <3> QED
      BY <3>1, <2>3, <1>4 DEF TurnTrue, Turns, Rose, Fell
  <2> QED
    BY <2>1, <2>2, <2>3, <2>n
<1>7. Rated'
  BY <1>3, <1>4, <1>6, <1>t DEF Rated, Limiting
<1>8. interval' = App!Interval(rate'.fps) /\ rate'.fps \in App!Fps
  <2>1. interval = App!Interval(rate.fps)
    BY <1>3, <1>i DEF App!TimerTrue, App!running
  <2> QED
    BY <2>1, <1>2, <1>4 DEF App!Rates
<1>9. Timed' /\ App!TimerTrue' /\ App!MenuTrue' /\ App!Ended'
  <2>1. Timed'
    BY <1>3, <1>8, <1>t DEF Timed
  <2>2. {"cpu", "animation", "update"} \subseteq timers'
    BY <1>3, <1>i DEF App!TimerTrue, App!running
  <2>3. App!TimerTrue'
    BY <2>2, <1>3, <1>4, <1>8, <1>t DEF App!TimerTrue, App!running
  <2> QED
    BY <2>1, <2>3, <1>3, <1>i DEF App!MenuTrue, App!Ended, App!running
<1>10. Told' /\ icon' \in App!Icons
  BY <1>3, <1>5, ModifyTrayTells DEF Told
<1> QED
  BY <1>3, <1>5, <1>7, <1>9, <1>10 DEF AppInv

LEMMA AppStep == AppInv /\ App!Next => AppInv'
<1> SUFFICES ASSUME AppInv, App!Next PROVE AppInv'
  OBVIOUS
<1>i. /\ Windows /\ State /\ Rated /\ Timed
      /\ appPhase \in {"starting", "running", "ended"}
      /\ App!MenuTrue /\ Told /\ App!TimerTrue /\ App!Ended
      /\ icon \in App!Icons \cup {App!Nothing}
  BY DEF AppInv
<1>r. UNCHANGED <<settings, rate, turn>> => Rated'
  BY <1>i DEF Rated, Limiting, TurnTrue, Rose, Fell
<1>1. CASE App!Start
  <2>1. /\ appPhase = "starting" /\ appPhase' = "running" /\ appMenu' = settings
        /\ timers' = App!Timers /\ interval' = App!Interval(rate.fps)
        /\ UNCHANGED <<desktop, told, fresh, settings, system, rate, reading, usage, turn>>
        /\ App!ModifyTray
    BY <1>1 DEF App!Start, App!windows
  <2>2. Windows' /\ State'
    BY <2>1, <1>i DEF Windows, State, Made
  <2>3. /\ rate.fps \in App!Fps /\ rate.limit = settings.limit /\ rate.fps <= settings.limit
    BY <1>i DEF Rated, Limiting, App!Rates
  <2>4. Timed' /\ App!TimerTrue' /\ App!MenuTrue' /\ App!Ended'
    BY <2>1, <2>3 DEF Timed, App!TimerTrue, App!MenuTrue, App!Ended, App!running, App!Timers
  <2>5. Told' /\ icon' \in App!Icons
    BY <2>1, <2>2, ModifyTrayTells DEF Told
  <2> QED
    BY <2>1, <2>2, <2>4, <2>5, <1>r DEF AppInv
<1>2. CASE App!CpuSample
  BY <1>2, CpuSampleStep
<1>3. CASE App!AnimationTimerElapsed
  <2>1. /\ UNCHANGED <<desktop, told, fresh, appPhase, settings, system, rate, reading, usage,
                       appMenu, timers, interval, turn>>
        /\ App!ModifyTray \/ UNCHANGED <<icon, cache, image>>
    BY <1>3 DEF App!AnimationTimerElapsed, App!windows, App!app, App!tray
  <2>2. Windows' /\ State'
    BY <2>1, <1>i DEF Windows, State, Made
  <2>3. Timed' /\ App!TimerTrue' /\ App!MenuTrue'
    BY <2>1, <1>i DEF Timed, App!TimerTrue, App!MenuTrue, App!running
  <2>4. App!Ended'
    BY <1>3, <2>1 DEF App!Ended, App!AnimationTimerElapsed, App!running
  <2>5. Told' /\ icon' \in App!Icons \cup {App!Nothing}
    <3>1. CASE App!ModifyTray
      BY <3>1, <2>2, ModifyTrayTells DEF Told
    <3>2. CASE UNCHANGED <<icon, cache, image>>
      BY <3>2, <2>1, <1>i DEF Told, App!ImageTrue, App!IconNow, App!running
    <3> QED
      BY <2>1, <3>1, <3>2
  <2> QED
    BY <2>1, <2>2, <2>3, <2>4, <2>5, <1>i, <1>r DEF AppInv
<1>4. CASE App!SelectTheme
  BY <1>4, SelectStep DEF App!SelectTheme
<1>5. CASE App!SelectFpsLimit
  BY <1>5, SelectStep DEF App!SelectFpsLimit
<1>6. CASE App!SelectDisplayMode
  BY <1>6, SelectStep DEF App!SelectDisplayMode
<1>7. CASE App!ToggleStartup
  BY <1>7, SelectStep DEF App!ToggleStartup
<1>8. CASE App!ToggleAutoUpdate
  BY <1>8, SelectStep DEF App!ToggleAutoUpdate
<1>9. CASE App!ChangeTheme
  <2>1. /\ desktop' \in App!Colours /\ told' = (appPhase = "running")
        /\ UNCHANGED <<fresh, appPhase, settings, system, rate, reading, usage,
                       appMenu, timers, interval, icon, cache, image, turn>>
    BY <1>9 DEF App!ChangeTheme, App!app, App!tray
  <2>2. told' \in BOOLEAN
    BY <2>1
  <2>3. Windows' /\ State'
    BY <2>1, <2>2, <1>i DEF Windows, State, Made
  <2>4. Timed' /\ App!TimerTrue' /\ App!MenuTrue' /\ App!Ended' /\ Told'
    BY <2>1, <1>i
    DEF Timed, App!TimerTrue, App!MenuTrue, App!Ended, Told, App!ImageTrue, App!IconNow, App!running
  <2> QED
    BY <2>1, <2>3, <2>4, <1>i, <1>r DEF AppInv
<1>10. CASE App!SystemThemeChanged
  <2>1. /\ appPhase = "running" /\ told' = FALSE /\ system' = desktop
        /\ UNCHANGED <<desktop, fresh, appPhase, settings, rate, reading, usage, appMenu,
                       timers, interval, turn>>
        /\ IF App!IconNow'.theme = App!IconNow.theme THEN UNCHANGED <<icon, cache, image>>
           ELSE App!ModifyTray
    BY <1>10 DEF App!SystemThemeChanged, App!running, App!tray
  <2>2. Windows' /\ State'
    BY <2>1, <1>i DEF Windows, State, Made
  <2>3. Timed' /\ App!TimerTrue' /\ App!MenuTrue' /\ App!Ended'
    BY <2>1, <1>i DEF Timed, App!TimerTrue, App!MenuTrue, App!Ended, App!running
  <2>4. Told' /\ icon' \in App!Icons \cup {App!Nothing}
    <3>1. CASE App!ModifyTray
      BY <3>1, <2>2, ModifyTrayTells DEF Told
    <3>2. CASE App!IconNow'.theme = App!IconNow.theme /\ UNCHANGED <<icon, cache, image>>
      <4>1. App!IconNow' = App!IconNow
        BY <3>2, <2>1 DEF App!IconNow
      <4> QED
        BY <4>1, <3>2, <2>1, <1>i DEF Told, App!ImageTrue, App!running
    <3> QED
      BY <2>1, <3>1, <3>2
  <2> QED
    BY <2>1, <2>2, <2>3, <2>4, <1>i, <1>r DEF AppInv
<1>11. CASE App!TickUsage
  <2>1. /\ appPhase # "starting" /\ timers' = timers \cup {"usage"}
        /\ usage' \in IF appPhase = "running" THEN App!Periods ELSE {usage}
        /\ fresh' = (fresh \/ usage' # usage)
        /\ UNCHANGED <<desktop, told, appPhase, settings, system, rate, reading, appMenu,
                       interval, turn>>
        /\ IF usage' = usage THEN UNCHANGED <<icon, cache, image>> ELSE App!ModifyTray
    BY <1>11 DEF App!TickUsage, App!running, App!tray
  <2>2. fresh' \in BOOLEAN /\ usage' \in App!Periods \cup {App!None}
    BY <2>1, <1>i DEF Windows, State
  <2>3. Windows' /\ State'
    BY <2>1, <2>2, <1>i DEF Windows, State, Made
  <2>4. Timed'
    BY <2>1, <1>i DEF Timed, App!Timers
  <2>5. App!TimerTrue' /\ App!MenuTrue'
    BY <2>1, <1>i DEF App!TimerTrue, App!MenuTrue, App!running
  <2>6. App!Ended'
    BY <2>1, <1>i DEF App!Ended
  <2>7. Told' /\ icon' \in App!Icons \cup {App!Nothing}
    <3>1. CASE App!ModifyTray
      BY <3>1, <2>3, ModifyTrayTells DEF Told
    <3>2. CASE usage' = usage /\ UNCHANGED <<icon, cache, image>>
      BY <3>2, <2>1, <1>i DEF Told, App!ImageTrue, App!IconNow, App!running
    <3> QED
      BY <2>1, <3>1, <3>2
  <2> QED
    BY <2>1, <2>3, <2>4, <2>5, <2>6, <2>7, <1>i, <1>r DEF AppInv
<1>12. CASE App!Expire
  <2>1. /\ fresh' = FALSE
        /\ UNCHANGED <<desktop, told, appPhase, settings, system, rate, reading, usage,
                       appMenu, timers, interval, icon, cache, image, turn>>
    BY <1>12 DEF App!Expire, App!app, App!tray
  <2>2. fresh' \in BOOLEAN
    BY <2>1
  <2>3. Windows' /\ State'
    BY <2>1, <2>2, <1>i DEF Windows, State, Made
  <2>4. Timed' /\ App!TimerTrue' /\ App!MenuTrue' /\ App!Ended' /\ Told'
    BY <2>1, <1>i
    DEF Timed, App!TimerTrue, App!MenuTrue, App!Ended, Told, App!ImageTrue, App!IconNow, App!running
  <2> QED
    BY <2>1, <2>3, <2>4, <1>i, <1>r DEF AppInv
<1>13. CASE App!TaskbarRecreated
  <2>1. /\ appPhase = "running" /\ App!ModifyTray
        /\ UNCHANGED <<desktop, told, fresh, appPhase, settings, system, rate, reading, usage,
                       appMenu, timers, interval, turn>>
    BY <1>13 DEF App!TaskbarRecreated, App!windows, App!app, App!running
  <2>2. Windows' /\ State'
    BY <2>1, <1>i DEF Windows, State, Made
  <2>3. Timed' /\ App!TimerTrue' /\ App!MenuTrue' /\ App!Ended'
    BY <2>1, <1>i DEF Timed, App!TimerTrue, App!MenuTrue, App!Ended, App!running
  <2>4. Told' /\ icon' \in App!Icons
    BY <2>1, <2>2, ModifyTrayTells DEF Told
  <2> QED
    BY <2>1, <2>2, <2>3, <2>4, <1>i, <1>r DEF AppInv
<1>14. CASE App!Exit
  <2>1. /\ appPhase # "starting" /\ appPhase' = "ended" /\ icon' = App!Nothing
        /\ timers' = IF appPhase = "running" THEN {} ELSE timers \ {"usage", "update"}
        /\ UNCHANGED <<desktop, told, fresh, settings, system, rate, reading, usage, appMenu,
                       interval, turn>>
    BY <1>14 DEF App!Exit, App!running, App!windows
  <2>2. Windows' /\ State'
    BY <2>1, <1>i DEF Windows, State, Made
  <2>3. timers' \subseteq {"usage"}
    BY <2>1, <1>i DEF App!Ended
  <2>4. Timed'
    BY <2>1, <2>3, <1>i DEF Timed, App!Timers
  <2>5. App!TimerTrue' /\ App!MenuTrue' /\ App!Ended' /\ Told'
    BY <2>1, <2>3 DEF App!TimerTrue, App!MenuTrue, App!Ended, Told, App!running
  <2> QED
    BY <2>1, <2>2, <2>4, <2>5, <1>i, <1>r DEF AppInv
<1> QED
  BY <1>1, <1>2, <1>3, <1>4, <1>5, <1>6, <1>7, <1>8, <1>9, <1>10, <1>11, <1>12, <1>13, <1>14
  DEF App!Next

LEMMA AppInitially == App!Init => AppInv
<1> SUFFICES ASSUME App!Init PROVE AppInv
  OBVIOUS
<1>1. /\ desktop \in App!Colours /\ told = FALSE /\ fresh = TRUE /\ appPhase = "starting"
      /\ settings \in [theme : Themes, limit : Limits, mode : Modes,
                       startup : BOOLEAN, update : BOOLEAN]
      /\ system = desktop
      /\ rate = [limit |-> settings.limit, fps |-> 5, load |-> 0]
      /\ reading = App!NoLoad /\ usage = App!None
      /\ appMenu = settings /\ timers = {} /\ interval = 0
      /\ icon = App!Nothing
      /\ turn = [way |-> "none", load |-> 0]
  BY DEF App!Init
<1>2. settings \in App!Settings /\ Made
  <2>1. Themes \subseteq App!ThemePreference /\ Limits \subseteq App!FpsLimit
        /\ Modes \subseteq App!TrayDisplayMode
    BY DeskAssumption DEF App!ThemePreference, App!FpsLimit, App!TrayDisplayMode
  <2> QED
    BY <2>1, <1>1 DEF App!Settings, Made
<1>3. told \in BOOLEAN /\ fresh \in BOOLEAN
  BY <1>1
<1>4. Windows /\ State
  BY <1>1, <1>2, <1>3 DEF Windows, State
<1>5. Rated
  <2>1. settings.limit \in App!FpsLimit
    BY <1>2 DEF App!Settings
  <2>2. rate \in App!Rates /\ rate.limit = settings.limit /\ rate.fps = 5
    BY <2>1, <1>1 DEF App!Rates, App!Fps
  <2>3. Limiting
    BY <2>1, <2>2 DEF Limiting, App!FpsLimit
  <2>4. TurnTrue
    BY <1>1 DEF TurnTrue, Turns, Rose, Fell
  <2> QED
    BY <2>2, <2>3, <2>4 DEF Rated
<1>6. Timed /\ App!MenuTrue /\ Told /\ App!TimerTrue /\ App!Ended
  BY <1>1 DEF Timed, App!MenuTrue, Told, App!TimerTrue, App!Ended, App!running
<1> QED
  BY <1>1, <1>4, <1>5, <1>6 DEF AppInv

LEMMA AppRests == AppInv /\ UNCHANGED appVars => AppInv'
<1> SUFFICES ASSUME AppInv, UNCHANGED appVars PROVE AppInv'
  OBVIOUS
<1>1. UNCHANGED <<desktop, told, fresh, appPhase, settings, system, rate, reading, usage,
                  appMenu, timers, interval, icon, cache, image, turn>>
  BY DEF appVars
<1>2. Windows' /\ State'
  BY <1>1 DEF AppInv, Windows, State, Made
<1>3. Rated' /\ Timed'
  BY <1>1 DEF AppInv, Rated, Limiting, TurnTrue, Rose, Fell, Timed
<1>4. App!MenuTrue' /\ Told' /\ App!TimerTrue' /\ App!Ended'
  BY <1>1
  DEF AppInv, App!MenuTrue, Told, App!TimerTrue, App!Ended, App!ImageTrue, App!IconNow, App!running
<1> QED
  BY <1>1, <1>2, <1>3, <1>4 DEF AppInv

LEMMA AppInvariant == DeskSpec => []AppInv
<1>1. DeskInit => AppInv
  BY AppInitially DEF DeskInit
<1>2. AppInv /\ [DeskNext]_deskVars => AppInv'
  BY DeskSteps, AppStep, AppRests
<1> QED
  BY <1>1, <1>2, PTL DEF DeskSpec

LEMMA IconInvariant == DeskSpec => []IconInv
<1>1. DeskInit => IconInv
  BY IconInitially DEF DeskInit
<1>2. IconInv /\ [DeskNext]_deskVars => IconInv'
  BY DeskSteps, IconStep, IconRests
<1> QED
  BY <1>1, <1>2, PTL DEF DeskSpec

\* After each event the menu, the icon, its picture and the timers are those of
\* the settings and the samples in effect, whichever loads come and choices are
\* made, and no icon is left after the exit unless the shell was slow.
THEOREM TrayTold == DeskSpec => []AppTrue
<1>1. AppInv /\ IconInv => AppTrue
  <2> SUFFICES ASSUME AppInv, IconInv PROVE AppTrue
    OBVIOUS
  <2>1. App!TypeOK
    BY DEF AppInv, Windows, State, Rated, Timed, App!TypeOK
  <2>2. App!MenuTrue /\ App!TimerTrue /\ App!Ended
    BY DEF AppInv
  <2>3. App!IconTrue /\ App!ImageTrue
    BY DEF AppInv, Told, App!IconTrue, App!ImageTrue, App!running
  <2>4. Icon!TypeOK /\ Icon!NoGhost
    BY DEF IconInv
  <2> QED
    BY <2>1, <2>2, <2>3, <2>4 DEF AppTrue
<1> QED
  BY <1>1, AppInvariant, IconInvariant, PTL

LEMMA ValueStep ==
  ASSUME IconInv, Icon!Next \/ UNCHANGED iconVars, value = "hidden", value' # "hidden"
  PROVE  Icon!Choose
<1>1. CASE Icon!EndLook
  BY <1>1 DEF Icon!EndLook, IconInv, Looked
<1>2. CASE Icon!KeyCreated
  BY <1>2 DEF Icon!KeyCreated
<1>3. CASE value' = value
  BY <1>3
<1> QED
  BY <1>1, <1>2, <1>3
  DEF iconVars, Icon!Next, Icon!AddTray, Icon!ModifyTray, Icon!RemoveTray, Icon!PromoteTimer,
      Icon!Time, Icon!ShellEnds, Icon!ShellStarts, Icon!user

\* An icon that the user hid is shown again by nobody else, however often it is
\* promoted, as long as nobody acts between the look at the registry and the write.
THEOREM HiddenKept == DeskSpec => Icon!HiddenStays
<1>1. IconInv /\ [DeskNext]_deskVars
        => [value = "hidden" /\ value' # "hidden" => Icon!Choose]_(Icon!vars)
  BY DeskSteps, ValueStep
<1> QED
  BY <1>1, IconInvariant, PTL DEF DeskSpec, Icon!HiddenStays

\* What a step does to the last change of the rate.
LEMMA TurnStep ==
  ASSUME AppInv, App!Next \/ UNCHANGED appVars
  PROVE  \/ turn' = turn
         \/ turn'.way = "none"
         \/ turn'.way = "up" /\ (turn.way = "down" => turn'.load > turn.load + 2)
         \/ turn'.way = "down" /\ (turn.way = "up" => turn.load > turn'.load + 2)
<1>1. CASE App!CpuSample
  <2>t. /\ rate \in App!Rates /\ rate.fps <= rate.limit
        /\ turn \in Turns /\ Rose /\ Fell
    BY DEF AppInv, Rated, Limiting, TurnTrue
  <2>1. PICK load \in Loads :
        /\ App!SetRate(App!Updated(rate, load))
        /\ turn' = IF rate'.fps = rate.fps THEN turn
                   ELSE [way |-> IF rate'.fps > rate.fps THEN "up" ELSE "down", load |-> load]
    BY <1>1 DEF App!CpuSample
  <2>2. /\ rate' \in App!Rates
        /\ rate'.fps > rate.fps => rate'.fps <= rate.limit /\ load >= App!Band[rate'.fps] + 2
        /\ rate'.fps < rate.fps => load + 2 < App!Band[rate.fps]
    BY <2>1, <2>t, UpdatedIs DEF App!SetRate
  <2>n. /\ rate.fps \in App!Fps /\ rate'.fps \in App!Fps
        /\ rate.fps \in Nat /\ rate'.fps \in Nat /\ load \in Nat /\ turn.load \in Nat
        /\ App!Band[rate.fps] \in Nat /\ App!Band[rate'.fps] \in Nat
    BY <2>t, <2>2, BandIs, LoadIs DEF App!Rates, App!Fps, Turns
  <2>3. CASE rate'.fps = rate.fps
    BY <2>3, <2>1
  <2>4. CASE rate'.fps > rate.fps
    <3>1. turn' = [way |-> "up", load |-> load]
      BY <2>4, <2>n, <2>1
    <3>2. turn.way = "down" => turn.load < App!Band[rate'.fps]
      BY <2>2, <2>4, <2>n, <2>t DEF Fell
    <3>3. turn.way = "down" => load > turn.load + 2
      BY <3>2, <2>2, <2>4, <2>n
    <3> QED
      BY <3>1, <3>3
  <2>5. CASE rate'.fps < rate.fps
    <3>1. turn' = [way |-> "down", load |-> load]
      BY <2>5, <2>n, <2>1
    <3>2. turn.way = "up" => turn.load > load + 2
      BY <2>2, <2>5, <2>n, <2>t DEF Rose
    <3> QED
      BY <3>1, <3>2
  <2> QED
    BY <2>n, <2>3, <2>4, <2>5
<1>2. CASE \E field \in {"theme", "limit", "mode", "startup", "update"} : App!Select(field)
  BY <1>2 DEF App!Select, App!Commit
<1>3. CASE turn' = turn
  BY <1>3
<1> QED
  BY <1>1, <1>2, <1>3
  DEF appVars, App!Next, App!Start, App!AnimationTimerElapsed, App!SelectTheme,
      App!SelectFpsLimit, App!SelectDisplayMode, App!ToggleStartup, App!ToggleAutoUpdate,
      App!ChangeTheme, App!SystemThemeChanged, App!TickUsage, App!Expire,
      App!TaskbarRecreated, App!Exit

\* A load that wavers by two per cent or less does not turn the rate back and
\* forth, from whatever rate and limit, for all loads.
THEOREM RateSteady == DeskSpec => NoWobble
<1>1. AppInv /\ [DeskNext]_deskVars => App!Steady
  <2> SUFFICES ASSUME AppInv, [DeskNext]_deskVars, NEW b \in BOOLEAN,
                      turn.way \notin {"none", IF b THEN "up" ELSE "down"},
                      turn'.way = (IF b THEN "up" ELSE "down")
               PROVE  IF b THEN turn'.load > turn.load + 2 ELSE turn.load > turn'.load + 2
    BY DEF App!Steady
  <2>1. turn.way \in {"none", "up", "down"}
    BY DEF AppInv, Rated, TurnTrue, Turns
  <2>2. App!Next \/ UNCHANGED appVars
    BY DeskSteps
  <2> QED
    BY <2>1, <2>2, TurnStep
<1>2. AppInv /\ [DeskNext]_deskVars => [App!Steady]_(App!vars)
  BY <1>1
<1> QED
  BY <1>2, AppInvariant, PTL DEF DeskSpec, NoWobble, App!NoWobble

-----------------------------------------------------------------------------
(***************************************************************************)
(* The place of the card.                                                  *)
(***************************************************************************)
LEMMA PxIs ==
  ASSUME dpi \in Nat
  PROVE  /\ \A v \in Nat : Px(v) \in Nat
         /\ \A a, b \in Nat : Px(a) + Px(b) <= Px(a + b)
         /\ \A a, b \in Nat : a <= b => Px(a) <= Px(b)
<1>1. \A v \in Nat : v * dpi \in Nat
  OBVIOUS
<1>2. \A n \in Nat : n \div 96 \in Nat
  OBVIOUS
<1>3. \A v \in Nat : Px(v) \in Nat
  BY <1>1, <1>2 DEF Px
<1>4. ASSUME NEW a \in Nat, NEW b \in Nat PROVE Px(a) + Px(b) <= Px(a + b)
  <2>1. (a + b) * dpi = a * dpi + b * dpi
    OBVIOUS
  <2>2. \A m, n \in Nat : m \div 96 + n \div 96 <= (m + n) \div 96
    OBVIOUS
  <2> QED
    BY <1>1, <2>1, <2>2 DEF Px
<1>5. ASSUME NEW a \in Nat, NEW b \in Nat, a <= b PROVE Px(a) <= Px(b)
  <2>1. b - a \in Nat /\ a + (b - a) = b
    BY <1>5
  <2>2. Px(a) + Px(b - a) <= Px(b)
    BY <1>4, <2>1
  <2> QED
    BY <1>3, <2>1, <2>2
<1> QED
  BY <1>3, <1>4, <1>5

\* A content and a clock, as the layout reads them.
Given == dpi \in Nat /\ state \in Contents /\ now \in Nat

LEMMA GivenIs ==
  ASSUME Given
  PROVE  /\ state.gpu \in BOOLEAN /\ state.scanning \in BOOLEAN
         /\ \A p \in Provider : /\ state.of[p].fable \in BOOLEAN /\ state.of[p].banked \in BOOLEAN
                                /\ state.of[p].month \in BOOLEAN /\ state.of[p].until \in Nat
BY ContentsAssumption DEF Given

\* The room that the window has for a block is that of its rows and of the gap.
Block(p) == If(Visible(p), BlockHeight(p) + Gap)

LEMMA BlockFits ==
  ASSUME Given, NEW p \in Provider
  PROVE  /\ BlockUnits(p) \in Nat /\ Block(p) \in Int
         /\ Block(p) <= Px(BlockUnits(p))
<1>1. state.of[p].fable \in BOOLEAN /\ state.of[p].banked \in BOOLEAN /\ dpi \in Nat
  BY GivenIs DEF Given
<1>2. CASE ~Visible(p)
  BY <1>1, <1>2 DEF Block, BlockUnits, If, Px
<1>3. CASE Visible(p) /\ state.of[p].fable /\ state.of[p].banked
  BY <1>1, <1>3
  DEF Block, BlockUnits, Extra, If, Px, BlockHeight, Metrics, Title, Detail, Bar, Gap
<1>4. CASE Visible(p) /\ state.of[p].fable /\ ~state.of[p].banked
  BY <1>1, <1>4
  DEF Block, BlockUnits, Extra, If, Px, BlockHeight, Metrics, Title, Detail, Bar, Gap
<1>5. CASE Visible(p) /\ ~state.of[p].fable /\ state.of[p].banked
  BY <1>1, <1>5
  DEF Block, BlockUnits, Extra, If, Px, BlockHeight, Metrics, Title, Detail, Bar, Gap
<1>6. CASE Visible(p) /\ ~state.of[p].fable /\ ~state.of[p].banked
  BY <1>1, <1>6
  DEF Block, BlockUnits, Extra, If, Px, BlockHeight, Metrics, Title, Detail, Bar, Gap
<1> QED
  BY <1>1, <1>2, <1>3, <1>4, <1>5, <1>6

\* The rows above the blocks, and the last row.
HeadAt == StorageTop + StorageRow + Gap + SelfRow

LEMMA HeadFits ==
  ASSUME Given
  PROVE  /\ HeadAt \in Int
         /\ HeadAt <= Px(273 + If(state.gpu, 86))
<1>1. state.gpu \in BOOLEAN /\ dpi \in Nat
  BY GivenIs DEF Given
<1>2. CASE state.gpu
  BY <1>1, <1>2
  DEF HeadAt, If, Px, StorageTop, Pad, TextRow, Gap, StorageRow, SelfRow, Title, Detail, Bar
<1>3. CASE ~state.gpu
  BY <1>1, <1>3
  DEF HeadAt, If, Px, StorageTop, Pad, TextRow, Gap, StorageRow, SelfRow, Title, Detail, Bar
<1> QED
  BY <1>1, <1>2, <1>3

\* What is painted fits the size that is computed from the same content at the
\* same time: rounded sums are at most the rounded sum.
LEMMA PaintedFits ==
  ASSUME Given
  PROVE  Height \in Nat /\ SelfTop + SelfRow <= Height
<1> DEFINE base == 273 + If(state.gpu, 86)
           c == BlockUnits("claude")
           x == BlockUnits("codex")
<1>1. base \in Nat /\ c \in Nat /\ x \in Nat /\ dpi \in Nat
  BY BlockFits, GivenIs DEF Given, If, Provider
<1>2. Height = Px(base + c + x)
  BY DEF Height
<1>3. /\ Block("claude") \in Int /\ Block("claude") <= Px(c)
      /\ Block("codex") \in Int /\ Block("codex") <= Px(x)
      /\ HeadAt \in Int /\ HeadAt <= Px(base)
  BY BlockFits, HeadFits DEF Provider
<1>4. SelfTop + SelfRow \in Int /\ SelfTop + SelfRow <= HeadAt + Block("claude") + Block("codex")
  <2>1. SelfRow \in Int /\ StorageTop \in Int /\ StorageRow \in Int /\ Gap \in Int
    <3>1. \A v \in Nat : Px(v) \in Int
      BY <1>1, PxIs
    <3>2. If(state.gpu, 1) \in Int
      BY DEF If
    <3>3. /\ Title \in Int /\ Detail \in Int /\ Bar \in Int /\ Gap \in Int /\ Pad \in Int
          /\ TextRow \in Int /\ StorageRow \in Int
      BY <3>1 DEF Title, Detail, Bar, Gap, Pad, TextRow, StorageRow
    <3> QED
      BY <3>2, <3>3 DEF SelfRow, StorageTop
  <2>2. Px(9) - Px(8) \in Nat
    BY <1>1 DEF Px
  <2>3. BlocksEnd = StorageTop + StorageRow + Gap + Block("claude") + Block("codex")
    BY DEF BlocksEnd, CodexTop, ClaudeTop, Block
  <2>4. BlocksEnd \in Int
    BY <2>1, <2>3, <1>3
  <2>5. SelfTop \in Int /\ SelfTop <= BlocksEnd
    <3>1. CASE \E p \in Provider : Visible(p)
      <4>1. SelfTop = BlocksEnd - (Px(9) - Px(8))
        BY <3>1 DEF SelfTop, If
      <4> QED
        BY <4>1, <2>2, <2>4
    <3>2. CASE ~\E p \in Provider : Visible(p)
      <4>1. SelfTop = BlocksEnd - 0
        BY <3>2 DEF SelfTop, If
      <4> QED
        BY <4>1, <2>4
    <3> QED
      BY <3>1, <3>2
  <2> QED
    BY <2>1, <2>3, <2>4, <2>5, <1>3 DEF HeadAt
<1> HIDE DEF base, c, x
<1>5. \A a_, b_ \in Nat : Px(a_) \in Nat /\ Px(a_) + Px(b_) <= Px(a_ + b_)
  BY <1>1, PxIs
<1>6. base + c \in Nat /\ base + c + x \in Nat
  BY <1>1
<1>7. /\ Px(base + c + x) \in Nat /\ Px(base + c) \in Nat
      /\ Px(base) \in Nat /\ Px(c) \in Nat /\ Px(x) \in Nat
  BY <1>1, <1>5, <1>6
<1>8. Px(base) + Px(c) <= Px(base + c)
  BY <1>1, <1>5
<1>9. Px(base + c) + Px(x) <= Px(base + c + x)
  BY <1>1, <1>5, <1>6
<1> QED
  BY <1>2, <1>3, <1>4, <1>7, <1>8, <1>9

LEMMA RowsAre ==
  ASSUME Given
  PROVE  /\ SelfTop + SelfRow \in Int
         /\ \A p \in Provider :
              /\ BlockTop(p) \in Int /\ BlockDrawn(p) \in Int /\ Separator(p) \in Int
              /\ BlockTop(p) + BlockDrawn(p) <= Separator(p)
<1>1. \A v \in Nat : Px(v) \in Int
  BY PxIs DEF Given
<1>2. /\ Title \in Int /\ Detail \in Int /\ Bar \in Int /\ Gap \in Int /\ Pad \in Int
      /\ TextRow \in Int /\ StorageRow \in Int /\ SelfRow \in Int
  BY <1>1 DEF Title, Detail, Bar, Gap, Pad, TextRow, StorageRow, SelfRow
<1>3. ASSUME NEW p \in Provider
      PROVE  /\ BlockHeight(p) \in Int /\ BlockDrawn(p) \in Int
             /\ BlockDrawn(p) <= BlockHeight(p) + Px(8)
  <2>1. state.of[p].fable \in BOOLEAN /\ state.of[p].banked \in BOOLEAN /\ dpi \in Nat
    BY GivenIs DEF Given
  <2>2. CASE state.of[p].fable
    <3>1. Metrics(p) = 3
      BY <2>2 DEF Metrics, If
    <3> QED
      BY <2>1, <3>1
      DEF BlockHeight, BlockDrawn, MetricDrawn, Title, Detail, Bar, If, Px
  <2>3. CASE ~state.of[p].fable
    <3>1. Metrics(p) = 2
      BY <2>3 DEF Metrics, If
    <3> QED
      BY <2>1, <3>1
      DEF BlockHeight, BlockDrawn, MetricDrawn, Title, Detail, Bar, If, Px
  <2> QED
    BY <2>1, <2>2, <2>3
<1>4. StorageTop \in Int /\ ClaudeTop \in Int
  <2>1. If(state.gpu, 1) \in Int
    BY DEF If
  <2> QED
    BY <2>1, <1>2 DEF StorageTop, ClaudeTop
<1>5. Block("claude") \in Int /\ Block("codex") \in Int
  BY BlockFits DEF Provider
<1>6. CodexTop \in Int /\ BlocksEnd \in Int
  BY <1>4, <1>5 DEF CodexTop, BlocksEnd, Block
<1>7. SelfTop \in Int
  <2>1. Px(9) - Px(8) \in Int
    BY <1>1
  <2>2. SelfTop = BlocksEnd - (Px(9) - Px(8)) \/ SelfTop = BlocksEnd - 0
    BY DEF SelfTop, If
  <2> QED
    BY <2>1, <2>2, <1>6
<1>8. \A p \in Provider : BlockTop(p) \in Int
  BY <1>4, <1>6 DEF BlockTop
<1>9. Px(8) \in Int
  BY <1>1
<1> QED
  BY <1>2, <1>3, <1>7, <1>8, <1>9 DEF Separator

\* Time takes rows away and adds none.
LEMMA HeightFalls ==
  ASSUME Given, Given', dpi' = dpi, state' = state, now <= now'
  PROVE  Height' <= Height
<1>1. ASSUME NEW p \in Provider PROVE /\ BlockUnits(p) \in Nat /\ BlockUnits(p)' \in Nat
                                      /\ BlockUnits(p)' <= BlockUnits(p)
  <2>1. Visible(p)' => Visible(p)
    BY GivenIs DEF Visible, InUse, Given
  <2>2. Extra(p) \in Nat /\ Extra(p)' = Extra(p)
    BY DEF Extra, If
  <2> QED
    BY <2>1, <2>2 DEF BlockUnits, If
<1> DEFINE base == 273 + If(state.gpu, 86)
           units == base + BlockUnits("claude") + BlockUnits("codex")
<1>2. base \in Nat /\ base' = base
  BY DEF If
<1>3. Height = Px(units) /\ Height' = Px(units)'
  BY DEF Height
<1>4. units \in Nat /\ units' \in Nat /\ units' <= units
  BY <1>1, <1>2 DEF Provider
<1>5. Px(units)' = Px(units')
  BY DEF Px
<1> HIDE DEF units
<1> QED
  BY <1>3, <1>4, <1>5, PxIs DEF Given

\* A place within the work area, where the window fits, and not over the icon,
\* where there is room above or below it.
LEMMA PlacedInside ==
  ASSUME NEW w \in Nat, NEW h \in Nat, NEW area \in Rect, NEW icon_ \in Rect,
         NEW o1 \in Int, NEW o2 \in Int
  PROVE  /\ PositionX(<<o1, o2>>, w, area) \in Int /\ PositionY(<<o1, o2>>, icon_, h, area) \in Int
         /\ w + 2 * Margin <= area.right - area.left =>
              /\ area.left <= PositionX(<<o1, o2>>, w, area)
              /\ PositionX(<<o1, o2>>, w, area) + w <= area.right
         /\ h <= area.bottom - area.top =>
              /\ area.top <= PositionY(<<o1, o2>>, icon_, h, area)
              /\ PositionY(<<o1, o2>>, icon_, h, area) + h <= area.bottom
         /\ /\ icon_ # NoIcon /\ o2 = icon_.top
            /\ \/ icon_.top - h - Margin >= area.top
               \/ /\ icon_.bottom + Margin >= area.top
                  /\ icon_.bottom + Margin + h <= area.bottom
            => \/ PositionY(<<o1, o2>>, icon_, h, area) + h <= icon_.top
               \/ PositionY(<<o1, o2>>, icon_, h, area) >= icon_.bottom
<1>1. /\ area.left \in Int /\ area.right \in Int /\ area.top \in Int /\ area.bottom \in Int
      /\ icon_.top \in Int /\ icon_.bottom \in Int
  BY DEF Rect
<1>2. <<o1, o2>>[1] = o1 /\ <<o1, o2>>[2] = o2 /\ w \div 2 \in Int
  OBVIOUS
<1>3. /\ PositionX(<<o1, o2>>, w, area) \in Int
      /\ w + 2 * Margin <= area.right - area.left =>
           /\ area.left <= PositionX(<<o1, o2>>, w, area)
           /\ PositionX(<<o1, o2>>, w, area) + w <= area.right
  BY <1>1, <1>2 DEF PositionX, Clamp, Margin
<1>4. PositionY(<<o1, o2>>, icon_, h, area) \in Int
  BY <1>1, <1>2 DEF PositionY, Clamp, Margin
<1>5. h <= area.bottom - area.top =>
        /\ area.top <= PositionY(<<o1, o2>>, icon_, h, area)
        /\ PositionY(<<o1, o2>>, icon_, h, area) + h <= area.bottom
  BY <1>1, <1>2 DEF PositionY, Clamp, Margin
<1>6. ASSUME icon_ # NoIcon, o2 = icon_.top,
             \/ icon_.top - h - Margin >= area.top
             \/ /\ icon_.bottom + Margin >= area.top
                /\ icon_.bottom + Margin + h <= area.bottom
      PROVE  \/ PositionY(<<o1, o2>>, icon_, h, area) + h <= icon_.top
             \/ PositionY(<<o1, o2>>, icon_, h, area) >= icon_.bottom
  BY <1>1, <1>2, <1>6 DEF PositionY, Clamp, Margin
<1> QED
  BY <1>3, <1>4, <1>5, <1>6

LEMMA SizeIs == Given => Height \in Nat /\ Width \in Nat
<1> SUFFICES ASSUME Given PROVE Height \in Nat /\ Width \in Nat
  OBVIOUS
<1>1. \A v \in Nat : Px(v) \in Nat
  BY PxIs DEF Given
<1> QED
  BY <1>1, PaintedFits DEF Width

LEMMA SizeIsNext == (Given => Height \in Nat /\ Width \in Nat)'
BY SizeIs, PTL

\* The last size of a card that is shown holds what may be painted by now.
LayoutInv == TypeOK /\ Apart /\ (shown => Height <= window.h)

LEMMA TypedIsGiven == TypeOK => Given
BY DpisAssumption, MaxNowAssumption DEF TypeOK, Given

LEMMA TypedIsGivenNext == (TypeOK => Given)'
BY TypedIsGiven, PTL

LEMMA DeskIs ==
  ASSUME NEW d \in Desks
  PROVE  /\ d.icon \in Rect /\ d.area \in Rect
         /\ d.cursor \in Int \X Int
BY DesksAssumption

LEMMA OriginIs ==
  ASSUME desk \in Desks
  PROVE  /\ Origin = <<Origin[1], Origin[2]>> /\ Origin[1] \in Int /\ Origin[2] \in Int
         /\ desk.icon # NoIcon => Origin[2] = desk.icon.top
<1>1. CASE desk.icon # NoIcon
  <2>1. Origin = <<Half(desk.icon.left + desk.icon.right), desk.icon.top>>
    BY <1>1 DEF Origin
  <2>2. desk.icon.left \in Int /\ desk.icon.right \in Int /\ desk.icon.top \in Int
    BY DeskIs DEF Rect
  <2>3. Half(desk.icon.left + desk.icon.right) \in Int
    BY <2>2 DEF Half
  <2> QED
    BY <2>1, <2>2, <2>3
<1>2. CASE desk.icon = NoIcon
  BY <1>2, DeskIs DEF Origin
<1> QED
  BY <1>1, <1>2

\* What placing the card does, wherever it was.
LEMMA PlaceIs ==
  ASSUME desk \in Desks, desk' = desk, Given', Place
  PROVE  /\ shown' = TRUE /\ window' \in [x : Int, y : Int, w : Int, h : Int]
         /\ window'.h = Height'
         /\ WellPlaced
<1>1. Height' \in Nat /\ Width' \in Nat
  BY SizeIsNext
<1>2. shown' = TRUE /\ window' = PlacedAt(Width, Height)'
  BY DEF Place
<1> DEFINE o1 == Origin[1]
           o2 == Origin[2]
           px == PositionX(<<o1, o2>>, Width', desk.area)
           py == PositionY(<<o1, o2>>, desk.icon, Height', desk.area)
<1>3. /\ Origin = <<o1, o2>> /\ o1 \in Int /\ o2 \in Int
      /\ desk.icon # NoIcon => o2 = desk.icon.top
  BY OriginIs
<1>4. Origin' = Origin
  BY DEF Origin
<1>5. window' = [x |-> px, y |-> py, w |-> Width', h |-> Height']
  BY <1>2, <1>3, <1>4 DEF PlacedAt, WorkArea, PositionX, PositionY
<1>6. desk.icon \in Rect /\ desk.area \in Rect
  BY DeskIs
<1> HIDE DEF o1, o2
<1>7. /\ px \in Int /\ py \in Int
      /\ Width' + 2 * Margin <= desk.area.right - desk.area.left =>
           desk.area.left <= px /\ px + Width' <= desk.area.right
      /\ Height' <= desk.area.bottom - desk.area.top =>
           desk.area.top <= py /\ py + Height' <= desk.area.bottom
      /\ /\ desk.icon # NoIcon /\ o2 = desk.icon.top
         /\ \/ desk.icon.top - Height' - Margin >= desk.area.top
            \/ /\ desk.icon.bottom + Margin >= desk.area.top
               /\ desk.icon.bottom + Margin + Height' <= desk.area.bottom
         => py + Height' <= desk.icon.top \/ py >= desk.icon.bottom
  BY <1>1, <1>3, <1>6, PlacedInside
<1> HIDE DEF px, py
<1>8. /\ window'.x = px /\ window'.y = py /\ window'.w = Width' /\ window'.h = Height'
      /\ window' \in [x : Int, y : Int, w : Int, h : Int]
  BY <1>1, <1>5, <1>7
<1>9. FitsIn(desk.area)' =>
        /\ window'.x >= desk.area.left /\ window'.x + window'.w <= desk.area.right
        /\ window'.y >= desk.area.top /\ window'.y + window'.h <= desk.area.bottom
  <2>1. /\ desk.area.left \in Int /\ desk.area.right \in Int
        /\ desk.area.top \in Int /\ desk.area.bottom \in Int
    BY <1>6 DEF Rect
  <2>2. FitsIn(desk.area)' => /\ Width' + 2 * Margin <= desk.area.right - desk.area.left
                              /\ Height' <= desk.area.bottom - desk.area.top
    BY <1>8 DEF FitsIn
  <2> QED
    BY <2>1, <2>2, <1>1, <1>7, <1>8
<1>10. desk.icon # NoIcon /\ Room(desk.icon, desk.area)' => ~Overlap(window', desk.icon)
  <2> SUFFICES ASSUME desk.icon # NoIcon, Room(desk.icon, desk.area)'
               PROVE  ~Overlap(window', desk.icon)
    OBVIOUS
  <2>1. \/ desk.icon.top - Height' - Margin >= desk.area.top
        \/ /\ desk.icon.bottom + Margin >= desk.area.top
           /\ desk.icon.bottom + Margin + Height' <= desk.area.bottom
    BY <1>8 DEF Room
  <2>2. py + Height' <= desk.icon.top \/ py >= desk.icon.bottom
    BY <2>1, <1>3, <1>7
  <2>3. desk.icon.top \in Int /\ desk.icon.bottom \in Int
    BY <1>6 DEF Rect
  <2> QED
    BY <2>2, <2>3, <1>1, <1>7, <1>8 DEF Overlap
<1> QED
  BY <1>2, <1>8, <1>9, <1>10 DEF WellPlaced

LEMMA LayoutInitially == Init => LayoutInv
<1> SUFFICES ASSUME Init PROVE LayoutInv
  OBVIOUS
<1>1. /\ dpi \in Dpis /\ desk \in Desks /\ now = 0 /\ state \in Contents /\ shown = FALSE
      /\ window = [x |-> 0, y |-> 0, w |-> 0, h |-> 0]
      /\ painted = NothingPainted
  BY DEF Init
<1>2. 0 \in 0..MaxNow
  BY MaxNowAssumption
<1>3. /\ painted \in [self : Int, drawn : [Provider -> Int], line : [Provider -> Int]]
      /\ \A p \in Provider : painted.line[p] = 0
  BY <1>1 DEF NothingPainted
<1>4. shown \in BOOLEAN /\ window \in [x : Int, y : Int, w : Int, h : Int]
  <2>1. shown \in BOOLEAN
    BY <1>1
  <2>2. window \in [x : Int, y : Int, w : Int, h : Int]
    BY <1>1
  <2> QED
    BY <2>1, <2>2
<1>5. TypeOK
  BY <1>1, <1>2, <1>3, <1>4 DEF TypeOK
<1>6. Apart
  BY <1>3 DEF Apart
<1> QED
  BY <1>1, <1>5, <1>6 DEF LayoutInv

\* Each step places the card well, or does not move it.
LEMMA LayoutStep ==
  ASSUME LayoutInv, Next \/ UNCHANGED vars
  PROVE  LayoutInv' /\ WellPlaced
<1>t. /\ dpi \in Dpis /\ desk \in Desks /\ now \in 0..MaxNow /\ state \in Contents
      /\ shown \in BOOLEAN
      /\ window \in [x : Int, y : Int, w : Int, h : Int]
      /\ painted \in [self : Int, drawn : [Provider -> Int], line : [Provider -> Int]]
      /\ Apart
      /\ shown => Height <= window.h
      /\ Given
  BY TypedIsGiven DEF LayoutInv, TypeOK
<1>p. /\ dpi' \in Dpis /\ desk' \in Desks /\ now' \in 0..MaxNow /\ state' \in Contents
      /\ shown' \in BOOLEAN
      /\ window' \in [x : Int, y : Int, w : Int, h : Int]
      /\ painted' \in [self : Int, drawn : [Provider -> Int], line : [Provider -> Int]]
      /\ Apart'
      /\ shown' => Height' <= window'.h
      => LayoutInv'
  BY DEF LayoutInv, TypeOK
<1>a. painted' = painted => Apart'
  BY <1>t DEF Apart
<1>g. dpi' = dpi /\ now' \in 0..MaxNow /\ state' \in Contents => Given'
  BY <1>t, MaxNowAssumption DEF Given
<1>w. window' = window => WellPlaced
  BY DEF WellPlaced
<1>1. ASSUME UNCHANGED <<dpi, desk, now, painted>>, state' \in Contents, Place
      PROVE  LayoutInv' /\ WellPlaced
  <2>1. Given'
    BY <1>1, <1>g, <1>t
  <2>2. /\ shown' = TRUE /\ window' \in [x : Int, y : Int, w : Int, h : Int]
        /\ window'.h = Height' /\ WellPlaced
    BY <1>1, <2>1, <1>t, PlaceIs
  <2>3. Height' \in Nat
    BY <2>1, SizeIsNext
  <2> QED
    BY <1>1, <2>2, <2>3, <1>a, <1>t, <1>p
<1>2. ASSUME NEW c \in Contents, SetState(c) PROVE LayoutInv' /\ WellPlaced
  <2>1. state' = c /\ UNCHANGED <<dpi, desk, now, painted>>
    BY <1>2 DEF SetState
  <2>2. CASE shown = TRUE
    <3>1. Place
      BY <1>2, <2>2 DEF SetState
    <3> QED
      BY <2>1, <3>1, <1>1
  <2>3. CASE shown = FALSE
    <3>1. UNCHANGED <<shown, window>>
      BY <1>2, <2>3 DEF SetState
    <3> QED
      BY <2>1, <2>3, <3>1, <1>a, <1>t, <1>p, <1>w
  <2> QED
    BY <2>2, <2>3, <1>t
<1>3. CASE Show
  BY <1>3, <1>1, <1>t DEF Show
<1>4. CASE Hide
  <2>1. shown' = FALSE /\ UNCHANGED <<dpi, desk, now, state, window, painted>>
    BY <1>4 DEF Hide
  <2> QED
    BY <2>1, <1>a, <1>t, <1>p, <1>w
<1>5. CASE DiskTimer
  BY <1>5, <1>1, <1>t DEF DiskTimer
<1>6. CASE Paint
  <2>1. /\ painted' = [self |-> SelfTop + SelfRow,
                       drawn |-> [p \in Provider |-> If(Visible(p), BlockTop(p) + BlockDrawn(p))],
                       line |-> [p \in Provider |-> If(Visible(p), Separator(p))]]
        /\ UNCHANGED <<dpi, desk, now, state, shown, window>>
    BY <1>6 DEF Paint
  <2>2. /\ SelfTop + SelfRow \in Int
        /\ \A p \in Provider :
             /\ If(Visible(p), BlockTop(p) + BlockDrawn(p)) \in Int
             /\ If(Visible(p), Separator(p)) \in Int
             /\ If(Visible(p), BlockTop(p) + BlockDrawn(p)) <= If(Visible(p), Separator(p))
    BY <1>t, RowsAre DEF If
  <2>3. painted' \in [self : Int, drawn : [Provider -> Int], line : [Provider -> Int]] /\ Apart'
    BY <2>1, <2>2 DEF Apart
  <2>4. Height' = Height
    BY <2>1 DEF Height, If, BlockUnits, Visible, InUse, Extra, Px
  <2> QED
    BY <2>1, <2>3, <2>4, <1>t, <1>p, <1>w
<1>7. CASE Tick
  <2>1. now < MaxNow /\ now' = now + 1 /\ UNCHANGED <<dpi, desk, state, shown, window, painted>>
    BY <1>7 DEF Tick
  <2>2. now' \in 0..MaxNow /\ now <= now'
    BY <2>1, <1>t, MaxNowAssumption
  <2>3. Given'
    BY <2>1, <2>2, <1>g, <1>t
  <2>4. Height' <= Height
    BY <2>1, <2>2, <2>3, <1>t, HeightFalls
  <2>5. Height' \in Nat /\ Height \in Nat /\ window.h \in Int
    BY <2>3, <1>t, SizeIs, SizeIsNext
  <2>6. shown' => Height' <= window'.h
    BY <2>1, <2>4, <2>5, <1>t
  <2> QED
    BY <2>1, <2>2, <2>6, <1>a, <1>t, <1>p, <1>w
<1>8. CASE MoveTaskbar
  <2>1. desk' \in Desks /\ UNCHANGED <<dpi, now, state, shown, window, painted>>
    BY <1>8 DEF MoveTaskbar
  <2>2. Height' = Height
    BY <2>1 DEF Height, If, BlockUnits, Visible, InUse, Extra, Px
  <2> QED
    BY <2>1, <2>2, <1>a, <1>t, <1>p, <1>w
<1>9. CASE UNCHANGED vars
  <2>1. UNCHANGED <<dpi, desk, now, state, shown, window, painted>>
    BY <1>9 DEF vars
  <2>2. Height' = Height
    BY <2>1 DEF Height, If, BlockUnits, Visible, InUse, Extra, Px
  <2> QED
    BY <2>1, <2>2, <1>a, <1>t, <1>p, <1>w
<1> QED
  BY <1>2, <1>3, <1>4, <1>5, <1>6, <1>7, <1>8, <1>9 DEF Next

\* At every resolution, on every desk and for every content, what is painted fits
\* the window that was sized before, no row reaches into a separator, and the
\* window is put into the work area and beside the icon where there is room.
THEOREM CardPlaced == DeskSpec => CardFits
<1>1. DeskInit => LayoutInv
  BY LayoutInitially DEF DeskInit
<1>2. LayoutInv /\ [DeskNext]_deskVars => LayoutInv' /\ [WellPlaced]_vars
  BY DeskSteps, LayoutStep
<1>3. LayoutInv => TypeOK /\ Fits /\ Apart
  <2> SUFFICES ASSUME LayoutInv PROVE TypeOK /\ Fits /\ Apart
    OBVIOUS
  <2>1. Given /\ window.h \in Int
    BY TypedIsGiven DEF LayoutInv, TypeOK
  <2>2. /\ SelfTop + SelfRow \in Int /\ SelfTop + SelfRow <= Height /\ Height \in Nat
    BY <2>1, RowsAre, PaintedFits
  <2>3. Fits
    BY <2>1, <2>2 DEF LayoutInv, Fits
  <2> QED
    BY <2>3 DEF LayoutInv
<1> QED
  BY <1>1, <1>2, <1>3, PTL DEF DeskSpec, CardFits, PlacedWell
=============================================================================
