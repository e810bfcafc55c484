-------------------------------- MODULE Game --------------------------------
(***************************************************************************)
(* The game that runs as the user program (user.c): four threads of one    *)
(* process that share the agents, the flags and three semaphores.  The     *)
(* clock may switch threads between any two steps.  Every semaphore has    *)
(* one thread that waits on it, so it is the plain counter that Tasks      *)
(* shows it to be for a single waiter.                                     *)
(***************************************************************************)
EXTENDS Integers

CONSTANTS
    Cells,          \* <<x, y>>, of the whole screen
    Walls, Goals,   \* cells with '#' and with '['
    Enemies,        \* the number of enemies, 3
    Start,          \* init_agent, by agent: the player is 0
    Keys,           \* what getKey may answer
    MaxTurns        \* bound: turns that may be asked for at a time

Open == Cells \ Walls
Agents == 0..Enemies

\* The map of user.c is closed by a border of walls, so its corner <<0, 0>>, where
\* last_position points before the first turn, is one; init_agent puts the agents
\* on different open cells.
ASSUME MapAssumption ==
    /\ Cells \subseteq Int \X Int
    /\ \A c \in Open : \A dx, dy \in -1..1 : <<c[1] + dx, c[2] + dy>> \in Cells
    /\ <<0, 0>> \in Cells \cap Walls
    /\ Enemies \in Nat \ {0} /\ MaxTurns \in Nat \ {0}
    /\ Start \in [Agents -> Open]
    /\ \A a, b \in Agents : Start[a] = Start[b] => a = b

VARIABLES
    pc,             \* of each thread
    sem_update_screen, sem_screen_updated, sem_move_agent,
    move_player, move_enemy, key, last_enemy, game_state,
    agent, last_position,
    screen, i,      \* what print_screen drew, and the loop it is in
    press,          \* the last key: "read", "fresh", or "lost" unread
    erased,         \* cells of an enemy that another one left after it came there
    spoiled         \* perror printed into the drawing

sems == <<sem_update_screen, sem_screen_updated, sem_move_agent>>
flags == <<move_player, move_enemy, key, press>>
world == <<agent, last_position, last_enemy, game_state, erased>>
drawing == <<screen, i>>
vars == <<pc, sems, flags, world, drawing, spoiled>>

Threads == {"main", "key_read", "move_agent", "print_screen"}
goto(t, l) == pc' = [pc EXCEPT ![t] = l]

\* main has made the semaphores and the agents, and is about to create the
\* other threads.
Init ==
    /\ pc = [t \in Threads |-> IF t = "main" THEN "print_screen" ELSE "none"]
    /\ sem_update_screen = 1 /\ sem_screen_updated = 0 /\ sem_move_agent = 0
    /\ move_player = 0 /\ move_enemy = 0 /\ key = "none" /\ last_enemy = 0
    /\ game_state = "PLAY"
    /\ agent = Start /\ last_position = [a \in Agents |-> <<0, 0>>]
    /\ screen = [c \in Cells |-> "ground"] /\ i = 1
    /\ press = "read" /\ erased = {} /\ spoiled = FALSE
-----------------------------------------------------------------------------
(* main: creates the threads, then asks for an enemy's move at times. *)

create_thread(t, then) ==
    /\ pc["main"] = t
    /\ pc' = [pc EXCEPT ![t] = "begin", !["main"] = then]
    /\ UNCHANGED <<sems, flags, world, drawing, spoiled>>

\* It prints where the cursor is, which is print_screen's once that began.
perror ==
    /\ pc["main"] = "perror"
    /\ spoiled' = (pc["print_screen"] # "begin")
    /\ goto("main", "key_read")
    /\ UNCHANGED <<sems, flags, world, drawing>>

ENEMY_DELAY_over ==
    /\ pc["main"] = "loop" /\ sem_move_agent < MaxTurns
    /\ move_enemy' = 1
    /\ goto("main", "signal")
    /\ UNCHANGED <<sems, move_player, key, press, world, drawing, spoiled>>

\* Faulty: the turn is not asked for.
Asked_Not(n) == n
\* semSignal on sem_move_agent.
Asked(n) == n + 1

main_signal ==
    /\ pc["main"] = "signal" /\ sem_move_agent < MaxTurns
    /\ sem_move_agent' = Asked(sem_move_agent)
    /\ goto("main", "loop")
    /\ UNCHANGED <<sem_update_screen, sem_screen_updated, flags, world, drawing,
                   spoiled>>

main == \/ create_thread("print_screen", "perror") \/ perror
        \/ create_thread("key_read", "move_agent")
        \/ create_thread("move_agent", "loop")
        \/ ENEMY_DELAY_over \/ main_signal
-----------------------------------------------------------------------------
(* key_read: getKey writes the key before the flag says so. *)

getKey ==
    /\ pc["key_read"] = "begin" /\ sem_move_agent < MaxTurns
    /\ key' \in Keys /\ press' = "fresh"
    /\ goto("key_read", "flag")
    /\ UNCHANGED <<sems, move_player, move_enemy, world, drawing, spoiled>>

key_flag ==
    /\ pc["key_read"] = "flag"
    /\ move_player' = 1
    /\ goto("key_read", "signal")
    /\ UNCHANGED <<sems, move_enemy, key, press, world, drawing, spoiled>>

key_signal ==
    /\ pc["key_read"] = "signal" /\ sem_move_agent < MaxTurns
    /\ sem_move_agent' = Asked(sem_move_agent)
    /\ goto("key_read", "begin")
    /\ UNCHANGED <<sem_update_screen, sem_screen_updated, flags, world, drawing,
                   spoiled>>

key_read == getKey \/ key_flag \/ key_signal
-----------------------------------------------------------------------------
(* move_agent: one turn for each signal, the player's first. *)

\* Faulty: the signal is not used up.
Taken_Not(n) == n
\* semWait, with n > 0.
Taken(n) == n - 1

semWait_move ==
    /\ pc["move_agent"] = "begin" /\ sem_move_agent > 0
    /\ sem_move_agent' = Taken(sem_move_agent)
    /\ goto("move_agent", "semWait")
    /\ UNCHANGED <<sem_update_screen, sem_screen_updated, flags, world, drawing,
                   spoiled>>

semWait_updated ==
    /\ pc["move_agent"] = "semWait" /\ sem_screen_updated > 0
    /\ sem_screen_updated' = Taken(sem_screen_updated)
    /\ goto("move_agent", "positions")
    /\ UNCHANGED <<sem_update_screen, sem_move_agent, flags, world, drawing, spoiled>>

\* Faulty: only the player's position is kept.
Kept_Player == [last_position EXCEPT ![0] = agent[0]]
Kept == agent

positions ==
    /\ pc["move_agent"] = "positions"
    /\ last_position' = Kept
    /\ goto("move_agent", "choose")
    /\ UNCHANGED <<sems, flags, agent, last_enemy, game_state, erased, drawing,
                   spoiled>>

choose ==
    /\ pc["move_agent"] = "choose"
    /\ goto("move_agent", IF move_player = 1 THEN "player"
                          ELSE IF move_enemy = 1 THEN "enemy" ELSE "state")
    /\ UNCHANGED <<sems, flags, world, drawing, spoiled>>

Step(c, k) ==
    CASE k = "w" -> <<c[1], c[2] - 1>>
      [] k = "a" -> <<c[1] - 1, c[2]>>
      [] k = "s" -> <<c[1], c[2] + 1>>
      [] k = "d" -> <<c[1] + 1, c[2]>>
      [] OTHER -> c
Moved(c, k) == IF Step(c, k) \in Walls THEN c ELSE Step(c, k)

player ==
    /\ pc["move_agent"] = "player"
    /\ agent' = [agent EXCEPT ![0] = Moved(agent[0], key)]
    /\ press' = "read"
    /\ goto("move_agent", "moved")
    /\ UNCHANGED <<sems, move_player, move_enemy, key, last_position, last_enemy,
                   game_state, erased, drawing, spoiled>>

\* A key whose flag went up since the last one was read is lost here.
moved ==
    /\ pc["move_agent"] = "moved"
    /\ move_player' = 0
    /\ press' = IF press = "fresh" /\ pc["key_read"] # "flag" THEN "lost" ELSE press
    /\ goto("move_agent", "state")
    /\ UNCHANGED <<sems, move_enemy, key, world, drawing, spoiled>>

\* Faulty: a diagonal move that is blocked on both sides goes ahead.
Around_Two(e, t) ==
    IF t \notin Walls THEN t
    ELSE IF <<e[1], t[2]>> \notin Walls THEN <<e[1], t[2]>>
    ELSE IF <<t[1], e[2]>> \notin Walls THEN <<t[1], e[2]>>
    ELSE t

\* From e to t, or to the side of it that is free, first up or down.
Around(e, t) ==
    IF t \notin Walls THEN t
    ELSE IF <<e[1], t[2]>> \notin Walls THEN <<e[1], t[2]>>
    ELSE IF <<t[1], e[2]>> \notin Walls THEN <<t[1], e[2]>>
    ELSE e

Toward(e, p) == IF e - p > 0 THEN e - 1 ELSE e + 1

enemy ==
    LET n == last_enemy + 1
        e == agent[n]
        to == Around(e, <<Toward(e[1], agent[0][1]), Toward(e[2], agent[0][2])>>)
    IN  /\ pc["move_agent"] = "enemy"
        /\ last_enemy' = (last_enemy + 1) % Enemies
        /\ move_enemy' = 0
        /\ agent' = [agent EXCEPT ![n] = to]
        /\ erased' = IF to = e THEN erased
                     ELSE ((erased \ {to}) \cup {e}) \cap {agent[m] : m \in 1..Enemies \ {n}}
        /\ goto("move_agent", "state")
        /\ UNCHANGED <<sems, move_player, key, press, last_position, game_state,
                       drawing, spoiled>>

Caught == \E n \in 1..Enemies : agent[n] = agent[0]

state ==
    /\ pc["move_agent"] = "state"
    /\ game_state' = IF Caught THEN "LOSE"
                     ELSE IF agent[0] \in Goals THEN "WIN" ELSE game_state
    /\ goto("move_agent", "signal")
    /\ UNCHANGED <<sems, flags, agent, last_position, last_enemy, erased, drawing,
                   spoiled>>

update_signal ==
    /\ pc["move_agent"] = "signal"
    /\ sem_update_screen' = sem_update_screen + 1
    /\ goto("move_agent", "begin")
    /\ UNCHANGED <<sem_screen_updated, sem_move_agent, flags, world, drawing, spoiled>>

move_agent ==
    \/ semWait_move \/ semWait_updated \/ positions \/ choose
    \/ player \/ moved \/ enemy \/ state \/ update_signal
-----------------------------------------------------------------------------
(* print_screen: draws all, then what a turn has moved. *)

clrscr ==
    /\ pc["print_screen"] = "begin"
    /\ screen' = [c \in Cells |-> IF c = agent[0] THEN "P"
                                  ELSE IF \E n \in 1..Enemies : c = agent[n] THEN "E"
                                  ELSE "ground"]
    /\ goto("print_screen", "semWait")
    /\ UNCHANGED <<sems, flags, world, i, spoiled>>

semWait_update ==
    /\ pc["print_screen"] = "semWait" /\ sem_update_screen > 0
    /\ sem_update_screen' = Taken(sem_update_screen)
    /\ goto("print_screen", "player")
    /\ UNCHANGED <<sem_screen_updated, sem_move_agent, flags, world, drawing, spoiled>>

Redrawn(a, glyph) ==
    IF last_position[a] = agent[a] THEN screen
    ELSE [screen EXCEPT ![last_position[a]] = "ground", ![agent[a]] = glyph]

\* Faulty: the game goes on after the message.
Ended_Not(s) == FALSE
Ended(s) == game_state = s

draw_player ==
    /\ pc["print_screen"] = "player"
    /\ screen' = Redrawn(0, "P") /\ i' = 1
    /\ goto("print_screen", IF Ended("WIN") THEN "exited" ELSE "enemies")
    /\ UNCHANGED <<sems, flags, world, spoiled>>

draw_enemy ==
    /\ pc["print_screen"] = "enemies" /\ i <= Enemies
    /\ screen' = Redrawn(i, "E") /\ i' = i + 1
    /\ UNCHANGED <<pc, sems, flags, world, spoiled>>

drawn ==
    /\ pc["print_screen"] = "enemies" /\ i > Enemies
    /\ goto("print_screen", IF Ended("LOSE") THEN "exited" ELSE "signal")
    /\ UNCHANGED <<sems, flags, world, drawing, spoiled>>

updated_signal ==
    /\ pc["print_screen"] = "signal"
    /\ sem_screen_updated' = sem_screen_updated + 1
    /\ goto("print_screen", "semWait")
    /\ UNCHANGED <<sem_update_screen, sem_move_agent, flags, world, drawing, spoiled>>

print_screen ==
    clrscr \/ semWait_update \/ draw_player \/ draw_enemy \/ drawn \/ updated_signal
-----------------------------------------------------------------------------
\* getKey's timeout and main's clock may also answer that there is nothing yet.
nothing_yet ==
    /\ pc["key_read"] = "begin" \/ pc["main"] = "loop"
    /\ UNCHANGED vars

Next == main \/ key_read \/ move_agent \/ print_screen \/ nothing_yet

\* Round robin runs every thread that is ready; nothing makes keys come.
Fairness ==
    /\ WF_vars(main) /\ WF_vars(key_flag \/ key_signal)
    /\ WF_vars(move_agent) /\ WF_vars(print_screen)

Spec == Init /\ [][Next]_vars /\ Fairness
-----------------------------------------------------------------------------
One(b) == IF b THEN 1 ELSE 0

Labels == {"none", "begin", "semWait", "signal", "exited",      \* of all threads
           "print_screen", "perror", "key_read", "move_agent", "loop", "flag",
           "positions", "choose", "player", "moved", "enemy", "state", "enemies"}

\* Every variable keeps its type; no agent is ever in a wall or off the map.
TypeOK ==
    /\ pc \in [Threads -> Labels]
    /\ pc["main"] \in {"print_screen", "perror", "key_read", "move_agent", "loop", "signal"}
    /\ pc["key_read"] \in {"none", "begin", "flag", "signal"}
    /\ pc["move_agent"] \in {"none", "begin", "semWait", "positions", "choose", "player",
                             "moved", "enemy", "state", "signal"}
    /\ pc["print_screen"] \in {"none", "begin", "semWait", "player", "enemies", "signal",
                               "exited"}
    /\ sem_update_screen \in 0..1 /\ sem_screen_updated \in 0..1
    /\ sem_move_agent \in 0..MaxTurns
    /\ move_player \in 0..1 /\ move_enemy \in 0..1
    /\ key \in Keys \cup {"none"} /\ last_enemy \in 0..(Enemies - 1)
    /\ game_state \in {"PLAY", "WIN", "LOSE"}
    /\ agent \in [Agents -> Open] /\ last_position \in [Agents -> Cells]
    /\ screen \in [Cells -> {"ground", "P", "E"}] /\ i \in 1..(Enemies + 1)
    /\ press \in {"read", "fresh", "lost"} 
    /\ erased \subseteq Open /\ spoiled \in BOOLEAN

Moving == pc["move_agent"] \in
            {"positions", "choose", "player", "moved", "enemy", "state", "signal"}
Drawing == pc["print_screen"] \in {"player", "enemies", "signal"}

\* The two semaphores pass one turn to and fro: agents are never moved and
\* drawn at the same time, no turn is skipped, and after the end none is left.
OneTurn ==
    sem_update_screen + sem_screen_updated + One(Moving) + One(Drawing)
      = One(pc["print_screen"] # "exited")

\* A flag that is up has a turn coming that will look at it: requests may
\* coalesce, and turns be idle, but no request waits for another one to come.
TurnsOwed ==
    move_player + move_enemy <=
        sem_move_agent
        + One(pc["move_agent"] \in {"semWait", "positions", "choose", "player", "moved",
                                    "enemy"})
        + One(pc["key_read"] = "signal") + One(pc["main"] = "signal")

\* What is on the screen is what the last turn left.
Settled ==
    \/ sem_screen_updated = 1
    \/ pc["move_agent"] \in {"positions", "choose", "player", "enemy"}

\* An enemy stands there, and none has left the cell since it came.
Standing(c) == (\E n \in 1..Enemies : agent[n] = c) /\ c \notin erased

\* Between turns, unless main's perror printed into the drawing, the player is
\* where it shows and nowhere else; and enemies show in exactly the cells where one
\* stands, but for those that another enemy left after it came: leaving blanks the
\* cell, and who stays in it is not drawn again.
ScreenTrue ==
    Settled /\ ~spoiled =>
        \A c \in Cells : /\ screen[c] = "P" <=> c = agent[0]
                         /\ screen[c] = "E" <=> Standing(c)

\* The game ends once: the turn that decides it is the last.
EndStable ==
    [][game_state # "PLAY" => UNCHANGED <<game_state, agent>>]_vars

Over == game_state # "PLAY"

\* A key that is pressed is read, or overwritten by the flag's reset, unless
\* the game ends first.
PressServed == press = "fresh" ~> press # "fresh" \/ Over

\* Only the player's moves put off an enemy's.
EnemyMoves == move_enemy = 1 ~> move_enemy = 0 \/ move_player = 1 \/ Over

\* The end of the game is announced.
EndShown == Over ~> pc["print_screen"] = "exited"

\* What a thread asks for happens: keys and enemies are served, the end is
\* announced.
Progress == PressServed /\ EnemyMoves /\ EndShown
=============================================================================
