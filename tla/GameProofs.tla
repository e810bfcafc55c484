----------------------------- MODULE GameProofs -----------------------------
(***************************************************************************)
(* For every map and any number of enemies: the agents are never moved and *)
(* drawn at once, no request is left without a turn, no agent is ever in a *)
(* wall, the end of the game is final, and between turns the screen shows  *)
(* the agents where they are.                                              *)
(***************************************************************************)
EXTENDS Game, TLAPS

\* A thread that main has still to create has not begun.
Created ==
    /\ pc["main"] = "print_screen" => pc["print_screen"] = "none"
    /\ pc["main"] \in {"print_screen", "perror", "key_read"} => pc["key_read"] = "none"
    /\ pc["main"] \in {"print_screen", "perror", "key_read", "move_agent"}
         => pc["move_agent"] = "none"

\* The flag that move_agent serves is up until it resets it.
Chosen ==
    /\ pc["move_agent"] \in {"player", "moved"} => move_player = 1
    /\ pc["move_agent"] = "enemy" => move_enemy = 1

\* Once the game is over the turn goes no further than print_screen.
Halted ==
    game_state # "PLAY" =>
        /\ sem_screen_updated = 0
        /\ ~Moving \/ pc["move_agent"] = "signal"
        /\ pc["print_screen"] # "signal"
        /\ game_state = "WIN" => pc["print_screen"] # "enemies"

\* The control of the threads, and the whole invariant.
Control == OneTurn /\ TurnsOwed /\ Created /\ Chosen /\ Halted
Inv == TypeOK /\ Control

-----------------------------------------------------------------------------
\* A step of the player stays on the open cells.
LEMMA PlayerOpen ==
    ASSUME NEW c \in Open, NEW k PROVE Moved(c, k) \in Open
  <1>1. \A dx, dy \in -1..1 : <<c[1] + dx, c[2] + dy>> \in Cells
    BY MapAssumption
  <1>2. c \in Int \X Int BY MapAssumption DEF Open
  <1>3. c = <<c[1], c[2]>> /\ c[1] \in Int /\ c[2] \in Int BY <1>2
  <1>4. /\ <<c[1], c[2] - 1>> \in Cells /\ <<c[1] - 1, c[2]>> \in Cells
        /\ <<c[1], c[2] + 1>> \in Cells /\ <<c[1] + 1, c[2]>> \in Cells
    <2>1. /\ <<c[1] + 0, c[2] + (-1)>> \in Cells /\ <<c[1] + (-1), c[2] + 0>> \in Cells
          /\ <<c[1] + 0, c[2] + 1>> \in Cells /\ <<c[1] + 1, c[2] + 0>> \in Cells
      BY <1>1
    <2> QED BY <2>1, <1>3
  <1>5. Step(c, k) \in Cells BY <1>4 DEF Step, Open
  <1> QED BY <1>5 DEF Moved, Open

\* An enemy's step stays on the open cells, whatever it runs after.
LEMMA EnemyOpen ==
    ASSUME NEW e \in Open, NEW p \in Open
    PROVE  Around(e, <<Toward(e[1], p[1]), Toward(e[2], p[2])>>) \in Open
  <1> DEFINE x == Toward(e[1], p[1])
             y == Toward(e[2], p[2])
  <1>1. \A dx, dy \in -1..1 : <<e[1] + dx, e[2] + dy>> \in Cells
    BY MapAssumption
  <1>2. /\ e \in Int \X Int /\ p \in Int \X Int BY MapAssumption DEF Open
  <1>3. /\ e = <<e[1], e[2]>> /\ e[1] \in Int /\ e[2] \in Int
    BY <1>2
  <1>4. /\ x \in {e[1] + 1, e[1] + (-1)} /\ y \in {e[2] + 1, e[2] + (-1)}
        /\ e[1] = e[1] + 0 /\ e[2] = e[2] + 0
    BY <1>3 DEF Toward
  <1> HIDE DEF x, y
  <1>5. <<x, y>> \in Cells BY <1>1, <1>4
  <1>6. <<e[1], y>> \in Cells BY <1>1, <1>4
  <1>7. <<x, e[2]>> \in Cells BY <1>1, <1>4
  <1>8. /\ <<x, y>>[1] = x /\ <<x, y>>[2] = y OBVIOUS
  <1>9. Around(e, <<x, y>>) \in Open BY <1>5, <1>6, <1>7, <1>8 DEF Around, Open
  <1> QED BY <1>9 DEF x, y
-----------------------------------------------------------------------------
\* What the assumption says of the numbers.
LEMMA Sizes ==
    /\ Enemies \in Nat /\ Enemies >= 1 /\ MaxTurns \in Nat /\ MaxTurns >= 1
    /\ Agents = 0..Enemies
  BY MapAssumption DEF Agents

\* Drawing an agent again changes no more than glyphs of cells.
LEMMA RedrawnType ==
    ASSUME TypeOK, NEW a \in Agents, NEW glyph \in {"P", "E"}
    PROVE  Redrawn(a, glyph) \in [Cells -> {"ground", "P", "E"}]
  BY DEF TypeOK, Redrawn, Open

\* The game starts in the invariant.
LEMMA InitInv == Init => Inv
  <1> SUFFICES ASSUME Init PROVE Inv OBVIOUS
  <1>1. TypeOK
    <2>1. last_enemy \in 0..(Enemies - 1) /\ i \in 1..(Enemies + 1) BY Sizes DEF Init
    <2>2. pc \in [Threads -> Labels] BY DEF Init, Threads, Labels
    <2>3. /\ agent \in [Agents -> Open] /\ last_position \in [Agents -> Cells]
          /\ screen \in [Cells -> {"ground", "P", "E"}]
      BY MapAssumption DEF Init
    <2>4. sem_move_agent \in 0..MaxTurns BY Sizes DEF Init
    <2>5. erased \subseteq Open /\ spoiled \in BOOLEAN BY DEF Init
    <2>6. /\ pc["main"] = "print_screen"
          /\ \A t \in Threads \ {"main"} : pc[t] = "none"
      BY DEF Init, Threads
    <2> QED BY <2>1, <2>2, <2>3, <2>4, <2>5, <2>6 DEF Init, TypeOK, Threads
  <1>2. Control
    BY DEF Init, Threads, Control, OneTurn, TurnsOwed, Created, Chosen, Halted,
           Moving, Drawing, One
  <1> QED BY <1>1, <1>2 DEF Inv

\* Every step of every thread keeps the invariant.
LEMMA NextInv == Inv /\ [Next]_vars => Inv'
  <1> SUFFICES ASSUME Inv, [Next]_vars PROVE Inv' OBVIOUS
  <1> USE DEF Inv, goto, sems, flags, world, drawing, Threads
  <1>s. CASE UNCHANGED vars
    <2>1. TypeOK' BY <1>s DEF TypeOK, vars
    <2>2. Control'
      BY <1>s DEF vars, Control, OneTurn, TurnsOwed, Created, Chosen, Halted,
                  Moving, Drawing, One
    <2> QED BY <2>1, <2>2
  <1>1. CASE create_thread("print_screen", "perror")
    <2>1. TypeOK'
      BY <1>1, Sizes DEF TypeOK, Labels, create_thread
    <2>2. Control'
      BY <1>1 DEF TypeOK, create_thread, Control, OneTurn, TurnsOwed, Created, Chosen,
                  Halted, Moving, Drawing, One
    <2> QED BY <2>1, <2>2
  <1>2. CASE perror
    <2>1. TypeOK'
      BY <1>2, Sizes DEF TypeOK, Labels, perror
    <2>2. Control'
      BY <1>2 DEF TypeOK, perror, Control, OneTurn, TurnsOwed, Created, Chosen,
                  Halted, Moving, Drawing, One
    <2> QED BY <2>1, <2>2
  <1>3. CASE create_thread("key_read", "move_agent")
    <2>1. TypeOK'
      BY <1>3, Sizes DEF TypeOK, Labels, create_thread
    <2>2. Control'
      BY <1>3 DEF TypeOK, create_thread, Control, OneTurn, TurnsOwed, Created, Chosen,
                  Halted, Moving, Drawing, One
    <2> QED BY <2>1, <2>2
  <1>4. CASE create_thread("move_agent", "loop")
    <2>1. TypeOK'
      BY <1>4, Sizes DEF TypeOK, Labels, create_thread
    <2>2. Control'
      BY <1>4 DEF TypeOK, create_thread, Control, OneTurn, TurnsOwed, Created, Chosen,
                  Halted, Moving, Drawing, One
    <2> QED BY <2>1, <2>2
  <1>5. CASE ENEMY_DELAY_over
    <2>1. TypeOK'
      BY <1>5, Sizes DEF TypeOK, Labels, ENEMY_DELAY_over
    <2>2. Control'
      BY <1>5 DEF TypeOK, ENEMY_DELAY_over, Control, OneTurn, TurnsOwed, Created, Chosen,
                  Halted, Moving, Drawing, One
    <2> QED BY <2>1, <2>2
  <1>6. CASE main_signal
    <2>1. TypeOK'
      BY <1>6, Sizes DEF TypeOK, Labels, main_signal, Asked
    <2>2. Control'
      BY <1>6 DEF TypeOK, main_signal, Asked, Control, OneTurn, TurnsOwed, Created, Chosen,
                  Halted, Moving, Drawing, One
    <2> QED BY <2>1, <2>2
  <1>7. CASE getKey
    <2>1. TypeOK'
      BY <1>7, Sizes DEF TypeOK, Labels, getKey
    <2>2. Control'
      BY <1>7 DEF TypeOK, getKey, Control, OneTurn, TurnsOwed, Created, Chosen,
                  Halted, Moving, Drawing, One
    <2> QED BY <2>1, <2>2
  <1>8. CASE key_flag
    <2>1. TypeOK'
      BY <1>8, Sizes DEF TypeOK, Labels, key_flag
    <2>2. Control'
      BY <1>8 DEF TypeOK, key_flag, Control, OneTurn, TurnsOwed, Created, Chosen,
                  Halted, Moving, Drawing, One
    <2> QED BY <2>1, <2>2
  <1>9. CASE key_signal
    <2>1. TypeOK'
      BY <1>9, Sizes DEF TypeOK, Labels, key_signal, Asked
    <2>2. Control'
      BY <1>9 DEF TypeOK, key_signal, Asked, Control, OneTurn, TurnsOwed, Created, Chosen,
                  Halted, Moving, Drawing, One
    <2> QED BY <2>1, <2>2
  <1>10. CASE semWait_move
    <2>1. TypeOK'
      BY <1>10, Sizes DEF TypeOK, Labels, semWait_move, Taken
    <2>2. Control'
      BY <1>10 DEF TypeOK, semWait_move, Taken, Control, OneTurn, TurnsOwed, Created, Chosen,
                  Halted, Moving, Drawing, One
    <2> QED BY <2>1, <2>2
  <1>11. CASE semWait_updated
    <2>1. TypeOK'
      BY <1>11, Sizes DEF TypeOK, Labels, semWait_updated, Taken
    <2>2. Control'
      BY <1>11 DEF TypeOK, semWait_updated, Taken, Control, OneTurn, TurnsOwed, Created, Chosen,
                  Halted, Moving, Drawing, One
    <2> QED BY <2>1, <2>2
  <1>12. CASE positions
    <2>0. agent \in [Agents -> Cells] BY DEF TypeOK, Open
    <2>1. TypeOK'
      BY <1>12, <2>0, Sizes DEF TypeOK, Labels, positions, Kept
    <2>2. Control'
      BY <1>12 DEF TypeOK, positions, Kept, Control, OneTurn, TurnsOwed, Created, Chosen,
                  Halted, Moving, Drawing, One
    <2> QED BY <2>1, <2>2
  <1>13. CASE choose
    <2>1. TypeOK'
      BY <1>13, Sizes DEF TypeOK, Labels, choose
    <2>2. Control'
      BY <1>13 DEF TypeOK, choose, Control, OneTurn, TurnsOwed, Created, Chosen,
                  Halted, Moving, Drawing, One
    <2> QED BY <2>1, <2>2
  <1>14. CASE player
    <2>1. TypeOK'
      BY <1>14, PlayerOpen, Sizes DEF TypeOK, Labels, player
    <2>2. Control'
      BY <1>14 DEF TypeOK, player, Control, OneTurn, TurnsOwed, Created, Chosen,
                  Halted, Moving, Drawing, One
    <2> QED BY <2>1, <2>2
  <1>15. CASE moved
    <2>1. TypeOK'
      BY <1>15, Sizes DEF TypeOK, Labels, moved
    <2>2. Control'
      BY <1>15 DEF TypeOK, moved, Control, OneTurn, TurnsOwed, Created, Chosen,
                  Halted, Moving, Drawing, One
    <2> QED BY <2>1, <2>2
  <1>16. CASE enemy
    <2>1. TypeOK'
      BY <1>16, EnemyOpen, Sizes DEF TypeOK, Labels, enemy
    <2>2. Control'
      BY <1>16 DEF TypeOK, enemy, Control, OneTurn, TurnsOwed, Created, Chosen,
                  Halted, Moving, Drawing, One
    <2> QED BY <2>1, <2>2
  <1>17. CASE state
    <2>1. TypeOK'
      BY <1>17, Sizes DEF TypeOK, Labels, state
    <2>2. Control'
      BY <1>17 DEF TypeOK, state, Control, OneTurn, TurnsOwed, Created, Chosen,
                  Halted, Moving, Drawing, One
    <2> QED BY <2>1, <2>2
  <1>18. CASE update_signal
    <2>0. sem_update_screen = 0
      BY <1>18 DEF TypeOK, update_signal, Control, OneTurn, Moving, Drawing, One
    <2>1. TypeOK'
      BY <1>18, <2>0, Sizes DEF TypeOK, Labels, update_signal
    <2>2. Control'
      BY <1>18 DEF TypeOK, update_signal, Control, OneTurn, TurnsOwed, Created, Chosen,
                  Halted, Moving, Drawing, One
    <2> QED BY <2>1, <2>2
  <1>19. CASE clrscr
    <2>1. TypeOK'
      BY <1>19, Sizes DEF TypeOK, Labels, clrscr
    <2>2. Control'
      BY <1>19 DEF TypeOK, clrscr, Control, OneTurn, TurnsOwed, Created, Chosen,
                  Halted, Moving, Drawing, One
    <2> QED BY <2>1, <2>2
  <1>20. CASE semWait_update
    <2>1. TypeOK'
      BY <1>20, Sizes DEF TypeOK, Labels, semWait_update, Taken
    <2>2. Control'
      BY <1>20 DEF TypeOK, semWait_update, Taken, Control, OneTurn, TurnsOwed, Created, Chosen,
                  Halted, Moving, Drawing, One
    <2> QED BY <2>1, <2>2
  <1>21. CASE draw_player
    <2>0. Redrawn(0, "P") \in [Cells -> {"ground", "P", "E"}]
      BY Sizes, RedrawnType
    <2>1. TypeOK'
      BY <1>21, <2>0, Sizes DEF TypeOK, Labels, draw_player, Ended
    <2>2. Control'
      BY <1>21 DEF TypeOK, draw_player, Redrawn, Ended, Control, OneTurn, TurnsOwed, Created, Chosen,
                  Halted, Moving, Drawing, One
    <2> QED BY <2>1, <2>2
  <1>22. CASE draw_enemy
    <2>0. Redrawn(i, "E") \in [Cells -> {"ground", "P", "E"}]
      BY <1>22, Sizes, RedrawnType DEF TypeOK, draw_enemy
    <2>1. TypeOK'
      BY <1>22, <2>0, Sizes DEF TypeOK, Labels, draw_enemy
    <2>2. Control'
      BY <1>22 DEF TypeOK, draw_enemy, Redrawn, Control, OneTurn, TurnsOwed, Created, Chosen,
                  Halted, Moving, Drawing, One
    <2> QED BY <2>1, <2>2
  <1>23. CASE drawn
    <2>1. TypeOK'
      BY <1>23, Sizes DEF TypeOK, Labels, drawn, Ended
    <2>2. Control'
      BY <1>23 DEF TypeOK, drawn, Ended, Control, OneTurn, TurnsOwed, Created, Chosen,
                  Halted, Moving, Drawing, One
    <2> QED BY <2>1, <2>2
  <1>24. CASE updated_signal
    <2>0. sem_screen_updated = 0
      BY <1>24 DEF TypeOK, updated_signal, Control, OneTurn, Moving, Drawing, One
    <2>1. TypeOK'
      BY <1>24, <2>0, Sizes DEF TypeOK, Labels, updated_signal
    <2>2. Control'
      BY <1>24 DEF TypeOK, updated_signal, Control, OneTurn, TurnsOwed, Created, Chosen,
                  Halted, Moving, Drawing, One
    <2> QED BY <2>1, <2>2
  <1>25. CASE nothing_yet BY <1>25, <1>s DEF nothing_yet
  <1> QED
    BY <1>s, <1>1, <1>2, <1>3, <1>4, <1>5, <1>6, <1>7, <1>8, <1>9, <1>10, <1>11, <1>12, <1>13, <1>14, <1>15, <1>16, <1>17, <1>18, <1>19, <1>20, <1>21, <1>22, <1>23, <1>24, <1>25
       DEF Next, main, key_read, move_agent, print_screen
-----------------------------------------------------------------------------
(* The drawing.  A turn moves one agent at most.  Redrawing it blanks the   *)
(* cell it left, so the player's redraw never blanks an enemy, nor an       *)
(* enemy's the player; an enemy that was left behind is what it blanks.     *)

\* The agent has not been on the map in a turn yet: its last position is (0,0).
Undrawn(a) == last_position[a] \in Walls
HasMoved(a) == ~Undrawn(a) /\ last_position[a] # agent[a]

\* Where the agents show: as they are, once print_screen has come to them or
\* while no turn moved them since, and otherwise as the turn found them.
Done(a) ==
    \/ Settled \/ pc["print_screen"] = "signal"
    \/ pc["print_screen"] = "enemies" /\ a < i
Shown(a) == IF Done(a) \/ Undrawn(a) THEN agent[a] ELSE last_position[a]

\* The cells that still show an enemy where the turn found it.
Pending(n) == HasMoved(n) /\ ~Done(n)
Touched == {c \in Cells : \E n \in 1..Enemies :
                Pending(n) /\ (c = last_position[n] \/ c = agent[n])}

\* The screen has the player where it shows and nowhere else, and but for the
\* cells that are still to be redrawn, an enemy exactly where one stands.
Shows ==
    /\ \A c \in Cells : screen[c] = "P" <=> c = Shown(0)
    /\ \A c \in Cells \ Touched : screen[c] = "E" <=> Standing(c)

\* Before the first drawing, nobody has a last position.
FirstTurn ==
    /\ \A a, b \in Agents : Undrawn(a) => Undrawn(b)
    /\ pc["print_screen"] \in {"none", "begin"} =>
         sem_update_screen = 1 /\ \A a \in Agents : Undrawn(a)

\* A turn starts from the positions it has kept, and moves one agent.
KeptPlaces == pc["move_agent"] \in {"choose", "player", "enemy"} => last_position = agent
OneMover == \A a, b \in Agents : HasMoved(a) /\ HasMoved(b) => a = b

\* An enemy on the player's cell ends the game in the turn that brought it there.
NotCaught ==
    /\ Caught => pc["move_agent"] \in {"moved", "state"} \/ game_state = "LOSE"
    /\ \A n \in 1..Enemies : ~Undrawn(n) => last_position[n] # last_position[0]

\* Nothing has been left behind before the first turn; an enemy that moves leaves
\* its own cell in sight, and who stays where it was is erased.
ErasedTrue ==
    /\ Undrawn(0) => erased = {}
    /\ \A n \in 1..Enemies : HasMoved(n) =>
          /\ agent[n] \notin erased
          /\ \A m \in 1..Enemies : agent[m] = last_position[n] => last_position[n] \in erased

DrawnTrue ==
    /\ pc["print_screen"] \in {"semWait", "player", "enemies", "signal"}
    /\ game_state # "LOSE"
    => Shows

Places == FirstTurn /\ KeptPlaces /\ OneMover /\ NotCaught /\ ErasedTrue
DrawInv == Places /\ DrawnTrue

\* Nobody moves: the positions stay related as they were.
LEMMA PlacesStay ==
    ASSUME Places, UNCHANGED <<agent, last_position, erased>>,
           pc'["print_screen"] \in {"none", "begin"} =>
               pc["print_screen"] \in {"none", "begin"} /\ sem_update_screen' = 1,
           pc'["move_agent"] \in {"choose", "player", "enemy"} => last_position = agent,
           Caught => pc'["move_agent"] \in {"moved", "state"} \/ game_state' = "LOSE"
    PROVE  Places'
  <1>1. (\A a : Undrawn(a)' <=> Undrawn(a)) /\ (\A a : HasMoved(a)' <=> HasMoved(a))
        /\ (Caught' <=> Caught)
    BY DEF Undrawn, HasMoved, Caught
  <1>2. FirstTurn'
    BY <1>1 DEF Places, FirstTurn
  <1>3. KeptPlaces' /\ OneMover'
    BY <1>1 DEF Places, KeptPlaces, OneMover
  <1>4. NotCaught'
    BY <1>1 DEF Places, NotCaught
  <1>5. ErasedTrue'
    BY <1>1 DEF Places, ErasedTrue
  <1> QED BY <1>2, <1>3, <1>4, <1>5 DEF Places

\* Nothing is drawn, and everybody stands where they did, but for cells that are
\* now to be redrawn.
LEMMA DrawingStays ==
    ASSUME DrawnTrue, screen' = screen,
           pc'["print_screen"] \in {"semWait", "player", "enemies", "signal"} =>
               /\ pc["print_screen"] \in {"semWait", "player", "enemies", "signal"}
               /\ Shown(0)' = Shown(0) /\ Touched \subseteq Touched'
               /\ \A c \in Cells \ Touched' : Standing(c)' <=> Standing(c),
           game_state' # "LOSE" => game_state # "LOSE"
    PROVE  DrawnTrue'
  <1> SUFFICES ASSUME pc'["print_screen"] \in {"semWait", "player", "enemies", "signal"},
                      game_state' # "LOSE"
               PROVE  Shows'
    BY DEF DrawnTrue
  <1>1. Shows
    BY DEF DrawnTrue
  <1>2. \A c \in Cells \ Touched' : c \in Cells \ Touched
    OBVIOUS
  <1> QED BY <1>1, <1>2 DEF Shows

\* The same agents are done, with their positions as they were.
LEMMA ShownStay ==
    ASSUME UNCHANGED <<agent, last_position, erased>>,
           \A a \in Agents : (Done(a)' <=> Done(a)) \/ last_position[a] = agent[a]
    PROVE  /\ Shown(0)' = Shown(0) /\ Touched' = Touched
           /\ \A c : Standing(c)' <=> Standing(c)
  <1>1. Shown(0)' = Shown(0)
    BY Sizes DEF Shown, Undrawn
  <1>2. \A n \in 1..Enemies : Pending(n)' <=> Pending(n)
    BY Sizes DEF Pending, HasMoved, Undrawn
  <1>3. Touched' = Touched
    BY <1>2 DEF Touched
  <1>4. \A c : Standing(c)' <=> Standing(c)
    BY DEF Standing
  <1> QED BY <1>1, <1>3, <1>4

\* The turn is with one thread only, so agents are moved only when all of them
\* are drawn where they are, and drawn only when none of them moves.
LEMMA Turns ==
    ASSUME Inv
    PROVE  /\ Moving => /\ sem_update_screen = 0 /\ sem_screen_updated = 0
                        /\ pc["print_screen"] # "exited" /\ ~Drawing
           /\ Drawing => sem_update_screen = 0 /\ sem_screen_updated = 0 /\ ~Moving
           /\ sem_update_screen = 1 => sem_screen_updated = 0 /\ ~Moving /\ ~Drawing
           /\ sem_screen_updated = 1 => sem_update_screen = 0 /\ ~Moving /\ ~Drawing
  <1>1. sem_update_screen \in 0..1 /\ sem_screen_updated \in 0..1
    BY DEF Inv, TypeOK
  <1>2. Drawing => pc["print_screen"] # "exited"
    BY DEF Drawing
  <1> QED BY <1>1, <1>2 DEF Inv, Control, OneTurn, One

\* The steps of main, key_read and the semaphores, and the looks at the state,
\* that neither move nor draw anybody.
LEMMA QuietKeepsDrawn ==
    ASSUME Inv, DrawInv, Next,
           ~positions, ~player, ~enemy, ~clrscr, ~draw_player, ~draw_enemy
    PROVE  DrawInv'
  <1> USE DEF goto, sems, flags, world, drawing
  <1>0. /\ pc \in [Threads -> Labels] /\ sem_update_screen \in 0..1
        /\ sem_screen_updated \in 0..1 /\ "print_screen" \in Threads /\ "move_agent" \in Threads
        /\ "main" \in Threads /\ "key_read" \in Threads
    BY DEF Inv, TypeOK, Threads
  <1>1. ASSUME UNCHANGED <<agent, last_position, screen, i, game_state, sem_update_screen,
                           sem_screen_updated, erased>>,
               pc'["print_screen"] = pc["print_screen"]
                 \/ (pc["print_screen"] = "none" /\ pc'["print_screen"] = "begin"),
               pc'["move_agent"] = pc["move_agent"]
                 \/ (pc["move_agent"] \in {"none", "begin"}
                     /\ pc'["move_agent"] \in {"begin", "semWait"})
                 \/ (pc["move_agent"] = "moved" /\ pc'["move_agent"] = "state")
        PROVE  DrawInv'
    <2>1. Places'
      <3>1. pc["print_screen"] \in {"none", "begin"} => sem_update_screen = 1
        BY DEF DrawInv, Places, FirstTurn
      <3>2. Caught => pc["move_agent"] \in {"moved", "state"} \/ game_state = "LOSE"
        BY DEF DrawInv, Places, NotCaught
      <3>3. pc["move_agent"] \in {"choose", "player", "enemy"} => last_position = agent
        BY DEF DrawInv, Places, KeptPlaces
      <3> QED BY <1>1, <3>1, <3>2, <3>3, PlacesStay DEF DrawInv
    <2>2. ASSUME NEW a \in Agents,
                 pc'["print_screen"] \in {"semWait", "player", "enemies", "signal"}
          PROVE  Done(a)' <=> Done(a)
      BY <1>1, <2>2 DEF Done, Settled
    <2>3. DrawnTrue'
      BY <1>1, <2>2, ShownStay, DrawingStays DEF DrawInv
    <2> QED BY <2>1, <2>3 DEF DrawInv
  <1>2. CASE \/ create_thread("print_screen", "perror") \/ perror
             \/ create_thread("key_read", "move_agent") \/ create_thread("move_agent", "loop")
             \/ ENEMY_DELAY_over \/ main_signal \/ key_read \/ nothing_yet
    <2>1. Created
      BY DEF Inv, Control
    <2>2. CASE \E t, u : create_thread(t, u) /\ t \in {"print_screen", "key_read", "move_agent"}
      BY <1>0, <1>1, <2>1, <2>2 DEF create_thread, Created
    <2>3. CASE perror
      BY <1>0, <1>1, <2>3 DEF perror
    <2>4. CASE ENEMY_DELAY_over \/ main_signal
      BY <1>0, <1>1, <2>4 DEF ENEMY_DELAY_over, main_signal
    <2>5. CASE key_read
      BY <1>0, <1>1, <2>5 DEF key_read, getKey, key_flag, key_signal
    <2>6. CASE nothing_yet
      BY <1>1, <2>6 DEF nothing_yet, vars
    <2> QED BY <1>2, <2>2, <2>3, <2>4, <2>5, <2>6
  <1>3. CASE semWait_move \/ moved
    BY <1>0, <1>1, <1>3 DEF semWait_move, moved
  <1>4. CASE semWait_updated
    <2>1. /\ UNCHANGED <<agent, last_position, screen, i, game_state, sem_update_screen, erased>>
          /\ pc'["print_screen"] = pc["print_screen"] /\ pc'["move_agent"] = "positions"
          /\ sem_screen_updated = 1
      BY <1>0, <1>4 DEF semWait_updated
    <2>2. pc["move_agent"] = "semWait"
      BY <1>4 DEF semWait_updated
    <2>3. Places'
      BY <2>1, <2>2, PlacesStay DEF DrawInv, Places, FirstTurn, NotCaught
    <2>4. \A a \in Agents : Done(a) /\ Done(a)'
      BY <2>1 DEF Done, Settled
    <2>5. DrawnTrue'
      BY <2>1, <2>4, ShownStay, DrawingStays DEF DrawInv
    <2> QED BY <2>3, <2>5 DEF DrawInv
  <1>5. CASE choose
    <2>1. /\ UNCHANGED <<agent, last_position, screen, i, game_state, sem_update_screen, erased>>
          /\ pc'["print_screen"] = pc["print_screen"] /\ pc["move_agent"] = "choose"
          /\ pc'["move_agent"] \in {"player", "enemy", "state"}
      BY <1>0, <1>5 DEF choose
    <2>2. last_position = agent
      BY <2>1 DEF DrawInv, Places, KeptPlaces
    <2>3. Places'
      BY <2>1, <2>2, PlacesStay DEF DrawInv, Places, FirstTurn, NotCaught
    <2>4. DrawnTrue'
      BY <2>1, <2>2, ShownStay, DrawingStays DEF DrawInv
    <2> QED BY <2>3, <2>4 DEF DrawInv
  <1>6. CASE state \/ update_signal
    <2>1. /\ UNCHANGED <<agent, last_position, screen, i, sem_screen_updated, erased>>
          /\ pc'["print_screen"] = pc["print_screen"]
          /\ pc["move_agent"] \in {"state", "signal"}
          /\ pc'["move_agent"] \in {"signal", "begin"}
      BY <1>0, <1>6 DEF state, update_signal
    <2>2. Moving /\ pc["print_screen"] # "signal"
      BY <2>1, Turns DEF Moving, Drawing
    <2>3. /\ Caught => game_state' = "LOSE"
          /\ game_state' # "LOSE" => game_state # "LOSE"
      <3>1. CASE state
        <4>1. game_state = "PLAY"
          BY <2>2, <3>1 DEF Inv, Control, Halted, state, TypeOK
        <4> QED BY <3>1, <4>1 DEF state
      <3>2. CASE update_signal
        BY <3>2 DEF update_signal, DrawInv, Places, NotCaught
      <3> QED BY <1>6, <3>1, <3>2
    <2>4. sem_update_screen = 0 /\ pc["print_screen"] \notin {"none", "begin"}
      BY <2>2, Turns DEF DrawInv, Places, FirstTurn
    <2>5. Places'
      BY <2>1, <2>3, <2>4, PlacesStay DEF DrawInv
    <2>6. \A a \in Agents : Done(a)' <=> Done(a)
      BY <2>1 DEF Done, Settled
    <2>7. DrawnTrue'
      BY <2>1, <2>3, <2>6, ShownStay, DrawingStays DEF DrawInv
    <2> QED BY <2>5, <2>7 DEF DrawInv
  <1>7. CASE semWait_update \/ drawn \/ updated_signal
    <2>1. /\ UNCHANGED <<agent, last_position, screen, i, game_state, erased>>
          /\ pc'["move_agent"] = pc["move_agent"]
          /\ pc["print_screen"] \in {"semWait", "enemies", "signal"}
          /\ pc'["print_screen"] \in {"player", "signal", "exited", "semWait"}
      BY <1>0, <1>7 DEF semWait_update, drawn, updated_signal
    <2>2. Places'
      BY <2>1, PlacesStay DEF DrawInv, Places, FirstTurn, NotCaught, KeptPlaces
    <2>3. ASSUME NEW a \in Agents, pc'["print_screen"] # "exited" PROVE Done(a)' <=> Done(a)
      <3>1. CASE semWait_update
        <4>1. sem_update_screen = 1 /\ sem_screen_updated' = sem_screen_updated
              /\ pc["print_screen"] = "semWait" /\ pc'["print_screen"] = "player"
          BY <1>0, <3>1 DEF semWait_update
        <4> QED BY <2>1, <4>1 DEF Done, Settled
      <3>2. CASE drawn
        <4>1. a < i
          BY <3>2, Sizes DEF drawn, Inv, TypeOK
        <4>2. pc["print_screen"] = "enemies" /\ pc'["print_screen"] = "signal"
          BY <1>0, <2>3, <3>2 DEF drawn
        <4> QED BY <4>1, <4>2 DEF Done
      <3>3. CASE updated_signal
        <4>1. sem_screen_updated' = sem_screen_updated + 1 /\ pc["print_screen"] = "signal"
          BY <3>3 DEF updated_signal
        <4>2. sem_screen_updated = 0
          BY <4>1, Turns DEF Drawing
        <4> QED BY <4>1, <4>2 DEF Done, Settled
      <3> QED BY <1>7, <3>1, <3>2, <3>3
    <2>4. DrawnTrue'
      BY <2>1, <2>3, ShownStay, DrawingStays DEF DrawInv
    <2> QED BY <2>2, <2>4 DEF DrawInv
  <1> QED
    BY <1>2, <1>3, <1>4, <1>5, <1>6, <1>7 DEF Next, main, move_agent, print_screen

\* move_agent keeps the positions it is about to change.
LEMMA PositionsKeepsDrawn == ASSUME Inv, DrawInv, positions PROVE DrawInv'
  <1> USE DEF goto, sems, flags, world, drawing
  <1>1. /\ UNCHANGED <<agent, screen, i, game_state, sem_update_screen, sem_screen_updated, erased>>
        /\ last_position' = agent /\ pc["move_agent"] = "positions"
        /\ pc'["move_agent"] = "choose" /\ pc'["print_screen"] = pc["print_screen"]
    BY DEF positions, Kept, Inv, TypeOK, Threads
  <1>2. Moving /\ game_state # "LOSE" /\ agent \in [Agents -> Open]
    BY <1>1 DEF Moving, Inv, TypeOK, Control, Halted
  <1>3. pc["print_screen"] \notin {"none", "begin"}
    BY <1>2, Turns DEF DrawInv, Places, FirstTurn
  <1>4. \A a \in Agents : ~Undrawn(a)'
    BY <1>1, <1>2 DEF Undrawn, Open
  <1>5. ~Caught
    BY <1>1, <1>2 DEF DrawInv, Places, NotCaught
  <1>6. 1..Enemies \subseteq Agents
    BY Sizes
  <1>7. Places'
    <2>1. FirstTurn' /\ KeptPlaces' /\ OneMover'
      BY <1>1, <1>3, <1>4 DEF FirstTurn, KeptPlaces, OneMover, HasMoved
    <2>2. NotCaught'
      BY <1>1, <1>5 DEF NotCaught, Caught
    <2>3. ErasedTrue'
      BY <1>1, <1>4, Sizes DEF ErasedTrue, HasMoved
    <2> QED BY <2>1, <2>2, <2>3 DEF Places
  <1>8. Shown(0)' = Shown(0) /\ Touched = {} /\ \A c : Standing(c)' <=> Standing(c)
    <2>1. \A n \in Agents : Done(n)
      BY <1>1 DEF Done, Settled
    <2>2. Shown(0)' = agent[0] /\ Shown(0) = agent[0]
      BY <1>1, <2>1, Sizes DEF Shown
    <2>3. Touched = {}
      BY <1>6, <2>1 DEF Touched, Pending
    <2> QED BY <1>1, <2>2, <2>3 DEF Standing
  <1>9. DrawnTrue'
    BY <1>1, <1>8, DrawingStays DEF DrawInv
  <1> QED BY <1>7, <1>9 DEF DrawInv

\* One agent a moves; it shows where it was.
LEMMA MoveKeepsDrawn ==
    ASSUME Inv, DrawInv, NEW a \in Agents, NEW to \in Open,
           pc["move_agent"] \in {"player", "enemy"},
           agent' = [agent EXCEPT ![a] = to],
           UNCHANGED <<last_position, screen, i, game_state, sem_update_screen,
                       sem_screen_updated>>,
           pc'["print_screen"] = pc["print_screen"],
           pc'["move_agent"] \in {"moved", "state"},
           erased' = IF a = 0 \/ to = agent[a] THEN erased
                     ELSE ((erased \ {to}) \cup {agent[a]})
                             \cap {agent[m] : m \in 1..Enemies \ {a}}
    PROVE  DrawInv'
  <1>1. /\ Moving /\ agent \in [Agents -> Open] /\ last_position = agent
    BY DEF Moving, Inv, TypeOK, DrawInv, Places, KeptPlaces
  <1>2. ~Drawing /\ sem_screen_updated = 0
    BY <1>1, Turns
  <1>3. /\ 1..Enemies \subseteq Agents /\ 0 \in Agents /\ \A n \in 1..Enemies : n # 0
        /\ \A b \in Agents : b # a => agent'[b] = agent[b]
        /\ agent'[a] = to
    BY <1>1, Sizes
  <1>4. \A b \in Agents : ~Undrawn(b) /\ ~Undrawn(b)'
    BY <1>1 DEF Undrawn, Open
  <1>5. Places'
    <2>1. FirstTurn' /\ KeptPlaces'
      BY <1>4 DEF DrawInv, Places, FirstTurn, KeptPlaces
    <2>2. OneMover'
      BY <1>1, <1>3 DEF OneMover, HasMoved
    <2>3. NotCaught'
      BY <1>4, <1>3 DEF DrawInv, Places, NotCaught
    <2>4. ErasedTrue'
      <3>1. ~Undrawn(0)'
        BY <1>3, <1>4
      <3>2. ASSUME NEW n \in 1..Enemies, HasMoved(n)'
            PROVE  /\ agent'[n] \notin erased'
                   /\ \A m \in 1..Enemies : agent'[m] = last_position'[n]
                         => last_position'[n] \in erased'
        <4>1. n = a /\ a # 0 /\ to # agent[a] /\ last_position'[n] = agent[a] /\ agent'[n] = to
          BY <1>1, <1>3, <3>2 DEF HasMoved
        <4>2. erased' = ((erased \ {to}) \cup {agent[a]}) \cap {agent[m] : m \in 1..Enemies \ {a}}
          BY <4>1
        <4>3. ASSUME NEW m \in 1..Enemies, agent'[m] = agent[a] PROVE agent[a] \in erased'
          BY <1>3, <4>1, <4>2, <4>3
        <4> QED BY <4>1, <4>2, <4>3
      <3> QED BY <3>1, <3>2 DEF ErasedTrue
    <2> QED BY <2>1, <2>2, <2>3, <2>4 DEF Places
  <1>6. \A b \in Agents : ~Done(b)'
    BY <1>2 DEF Done, Settled, Drawing
  <1>7. Shown(0)' = Shown(0) /\ Touched = {}
    <2>1. Shown(0)' = last_position[0]
      BY <1>3, <1>4, <1>6 DEF Shown
    <2>2. Shown(0) = last_position[0]
      BY <1>1 DEF Shown
    <2>3. Touched = {}
      BY <1>1 DEF Touched, Pending, HasMoved
    <2> QED BY <2>1, <2>2, <2>3
  <1>8. ASSUME NEW c \in Cells \ Touched' PROVE Standing(c)' <=> Standing(c)
    <2>1. CASE a = 0 \/ to = agent[a]
      <3>1. erased' = erased /\ \A n \in 1..Enemies : agent'[n] = agent[n]
        BY <1>1, <1>3, <2>1
      <3> QED BY <3>1 DEF Standing
    <2>2. CASE a # 0 /\ to # agent[a]
      <3>1. a \in 1..Enemies /\ Pending(a)'
        BY <1>1, <1>3, <1>4, <1>6, <2>2, Sizes DEF Pending, HasMoved
      <3>2. c # agent[a] /\ c # to
        BY <1>1, <1>3, <3>1 DEF Touched
      <3>3. erased' = ((erased \ {to}) \cup {agent[a]}) \cap {agent[m] : m \in 1..Enemies \ {a}}
        BY <2>2
      <3>4. \A n \in 1..Enemies : agent'[n] = c <=> n # a /\ agent[n] = c
        BY <1>3, <3>2
      <3>5. \A n \in 1..Enemies : agent[n] = c => n # a
        BY <3>2
      <3>6. (\E n \in 1..Enemies : agent[n] = c) => (c \in erased' <=> c \in erased)
        BY <3>2, <3>3, <3>5
      <3> QED BY <3>4, <3>5, <3>6 DEF Standing
    <2> QED BY <2>1, <2>2
  <1>9. DrawnTrue'
    BY <1>7, <1>8, DrawingStays DEF DrawInv
  <1> QED BY <1>5, <1>9 DEF DrawInv

\* The first drawing shows everybody.
LEMMA ClrscrKeepsDrawn == ASSUME Inv, DrawInv, clrscr PROVE DrawInv'
  <1> USE DEF goto, sems, flags, world, drawing
  <1>1. /\ UNCHANGED <<agent, last_position, i, game_state, sem_update_screen, erased>>
        /\ pc["print_screen"] = "begin" /\ pc'["print_screen"] = "semWait"
        /\ pc'["move_agent"] = pc["move_agent"]
        /\ screen' = [c \in Cells |-> IF c = agent[0] THEN "P"
                                      ELSE IF \E n \in 1..Enemies : c = agent[n] THEN "E"
                                      ELSE "ground"]
    BY DEF clrscr, Inv, TypeOK, Threads
  <1>2. Places'
    BY <1>1, PlacesStay DEF DrawInv, Places, FirstTurn, NotCaught, KeptPlaces
  <1>3. sem_update_screen = 1 /\ \A a \in Agents : Undrawn(a)
    BY <1>1 DEF DrawInv, Places, FirstTurn
  <1>4. Shown(0)' = agent[0] /\ erased = {}
    BY <1>1, <1>3, Sizes DEF Shown, Undrawn, DrawInv, Places, ErasedTrue
  <1>5. DrawnTrue'
    <2> SUFFICES ASSUME game_state # "LOSE" PROVE Shows'
      BY <1>1 DEF DrawnTrue
    <2>1. ~Caught
      BY <1>3, Turns DEF DrawInv, Places, NotCaught, Moving
    <2>2. \A n \in 1..Enemies : agent[n] # agent[0]
      BY <2>1 DEF Caught
    <2>3. \A c \in Cells : screen'[c] = "P" <=> c = agent[0]
      BY <1>1
    <2>4. \A c \in Cells : screen'[c] = "E" <=> Standing(c)'
      BY <1>1, <1>4, <2>2 DEF Standing
    <2> QED BY <1>4, <2>3, <2>4 DEF Shows
  <1> QED BY <1>2, <1>5 DEF DrawInv

\* Drawing one agent again shows it where it is; the cell it left shows nobody,
\* and has nobody but who is erased.
LEMMA DrawKeepsDrawn ==
    ASSUME Inv, DrawInv, Drawing, NEW a \in Agents,
           \A b \in Agents : Done(b) <=> b < a,
           \A b \in Agents : Done(b)' <=> b < a + 1,
           NEW glyph, glyph = IF a = 0 THEN "P" ELSE "E", screen' = Redrawn(a, glyph),
           UNCHANGED <<agent, last_position, game_state, erased, sem_update_screen>>,
           pc'["move_agent"] = pc["move_agent"],
           pc["print_screen"] \in {"player", "enemies"},
           pc'["print_screen"] \in {"enemies", "exited"}
    PROVE  DrawInv'
  <1>1. Places'
    BY PlacesStay DEF DrawInv, Places, FirstTurn, NotCaught, KeptPlaces
  <1>2. DrawnTrue'
    <2> SUFFICES ASSUME game_state # "LOSE" PROVE Shows'
      BY DEF DrawnTrue
    <2> DEFINE l == last_position[a]
               g == agent[a]
    <2>1. /\ Shows /\ ~Moving /\ a \in Nat /\ 0 \in Agents
          /\ \A n \in 1..Enemies : n \in Agents /\ n # 0 /\ n \in Nat
          /\ a # 0 => a \in 1..Enemies
      BY Turns, Sizes DEF DrawInv, DrawnTrue
    <2>2. \A n \in 1..Enemies : agent[n] # agent[0]
      BY <2>1 DEF DrawInv, Places, NotCaught, Moving, Caught
    <2>3. /\ l \in Cells /\ g \in Open /\ agent[0] \in Open
          /\ \A n \in 1..Enemies : agent[n] \in Open
          /\ screen \in [Cells -> {"ground", "P", "E"}]
      BY <2>1 DEF Inv, TypeOK
    <2>4. \A c \in Cells : screen'[c] = IF l = g THEN screen[c]
                                         ELSE IF c = g THEN glyph
                                         ELSE IF c = l THEN "ground" ELSE screen[c]
      BY <2>3 DEF Redrawn, Open
    <2>5. /\ Shown(0)' = agent[0]
          /\ Shown(0) = IF a = 0 /\ ~Undrawn(a) THEN l ELSE agent[0]
      <3>1. Done(0)' /\ (Done(0) <=> a # 0)
        BY <2>1
      <3> QED BY <3>1 DEF Shown
    <2>6. HasMoved(a) => \A b \in Agents \ {a} : ~Undrawn(b) /\ last_position[b] = agent[b]
      BY DEF HasMoved, DrawInv, Places, OneMover, FirstTurn
    <2>7. l # g => HasMoved(a) \/ (Undrawn(a) /\ l \in Walls /\ erased = {})
      BY <2>1 DEF HasMoved, Undrawn, DrawInv, Places, FirstTurn, ErasedTrue
    <2>8. ASSUME l # g, a # 0 PROVE l # agent[0] /\ g # agent[0] /\ g \notin erased
      <3>1. g # agent[0]
        BY <2>1, <2>2, <2>8
      <3>2. l # agent[0]
        <4>1. CASE HasMoved(a)
          BY <2>1, <2>6, <2>8, <4>1 DEF HasMoved, DrawInv, Places, NotCaught
        <4>2. CASE Undrawn(a)
          BY <2>3, <4>2 DEF Undrawn, Open
        <4> QED BY <2>7, <2>8, <4>1, <4>2
      <3>3. g \notin erased
        BY <2>1, <2>7, <2>8 DEF DrawInv, Places, ErasedTrue
      <3> QED BY <3>1, <3>2, <3>3
    <2>9. ASSUME l # g PROVE ~Standing(l)
      <3> SUFFICES ASSUME NEW m \in 1..Enemies, agent[m] = l, l \notin erased PROVE FALSE
        BY DEF Standing
      <3>1. HasMoved(a)
        BY <2>3, <2>7, <2>9 DEF Open
      <3>2. CASE a = 0
        BY <2>1, <2>6, <3>1, <3>2 DEF DrawInv, Places, NotCaught
      <3>3. CASE a # 0
        BY <2>1, <3>1, <3>3 DEF DrawInv, Places, ErasedTrue
      <3> QED BY <3>2, <3>3
    <2>10. Touched \subseteq Touched' \cup (IF l = g THEN {} ELSE {l, g})
      <3> SUFFICES ASSUME NEW c \in Cells, NEW n \in 1..Enemies, Pending(n),
                          c = last_position[n] \/ c = agent[n]
                   PROVE  c \in Touched' \/ (l # g /\ c \in {l, g})
        BY DEF Touched
      <3>1. CASE n = a
        BY <3>1 DEF Pending, HasMoved
      <3>2. CASE n # a
        <4>1. ~(n < a + 1)
          BY <2>1, <3>2 DEF Pending
        <4>2. Pending(n)'
          BY <2>1, <4>1 DEF Pending, HasMoved, Undrawn
        <4> QED BY <4>2 DEF Touched
      <3> QED BY <3>1, <3>2
    <2> HIDE DEF l, g
    <2>11. ASSUME NEW c \in Cells PROVE screen'[c] = "P" <=> c = agent[0]
      <3>1. screen[c] = "P" <=> c = Shown(0)
        BY <2>1 DEF Shows
      <3>2. CASE a = 0
        <4>1. g = agent[0] /\ glyph = "P"
          BY <3>2 DEF g
        <4>2. Shown(0) = l \/ Shown(0) = g
          BY <2>5, <4>1
        <4>3. l = g => Shown(0) = g
          BY <4>2
        <4> QED BY <2>4, <3>1, <4>1, <4>2, <4>3
      <3>3. CASE a # 0
        <4>1. Shown(0) = agent[0] /\ glyph = "E"
          BY <2>5, <3>3
        <4> QED BY <2>4, <2>8, <3>1, <3>3, <4>1
      <3> QED BY <3>2, <3>3
    <2>12. ASSUME NEW c \in Cells \ Touched' PROVE screen'[c] = "E" <=> Standing(c)
      <3>1. CASE l = g \/ (c # g /\ c # l)
        <4>1. c \in Cells \ Touched
          BY <2>10, <3>1
        <4>2. screen'[c] = screen[c]
          BY <2>4, <3>1
        <4> QED BY <2>1, <4>1, <4>2 DEF Shows
      <3>2. CASE l # g /\ c = l
        BY <2>4, <2>9, <3>2
      <3>3. CASE l # g /\ c = g
        <4>1. screen'[c] = glyph
          BY <2>4, <3>3
        <4>2. CASE a = 0
          BY <2>2, <3>3, <4>1, <4>2 DEF Standing, g
        <4>3. CASE a # 0
          BY <2>1, <2>8, <3>3, <4>1, <4>3 DEF Standing, g
        <4> QED BY <4>2, <4>3
      <3> QED BY <3>1, <3>2, <3>3
    <2>13. \A c : Standing(c)' <=> Standing(c)
      BY DEF Standing
    <2> QED BY <2>5, <2>11, <2>12, <2>13 DEF Shows
  <1> QED BY <1>1, <1>2 DEF DrawInv

\* Every step keeps what is drawn true.
LEMMA NextDrawn == Inv /\ DrawInv /\ [Next]_vars => DrawInv'
  <1> SUFFICES ASSUME Inv, DrawInv, [Next]_vars PROVE DrawInv' OBVIOUS
  <1> USE DEF goto, sems, flags, world, drawing
  <1>0. /\ pc \in [Threads -> Labels] /\ "print_screen" \in Threads /\ "move_agent" \in Threads
        /\ agent \in [Agents -> Open]
    BY DEF Inv, TypeOK, Threads
  <1>1. CASE positions BY <1>1, PositionsKeepsDrawn
  <1>2. CASE player
    <2>1. Moved(agent[0], key) \in Open /\ 0 \in Agents
      BY <1>0, PlayerOpen, Sizes
    <2> QED BY <1>0, <1>2, <2>1, MoveKeepsDrawn DEF player
  <1>3. CASE enemy
    <2> DEFINE n == last_enemy + 1
               to == Around(agent[n], <<Toward(agent[n][1], agent[0][1]),
                                        Toward(agent[n][2], agent[0][2])>>)
    <2>1. n \in 1..Enemies /\ n \in Agents /\ 0 \in Agents /\ n # 0
      BY Sizes DEF Inv, TypeOK
    <2>2. to \in Open
      BY <1>0, <2>1, EnemyOpen
    <2>3. /\ pc["move_agent"] = "enemy" /\ agent' = [agent EXCEPT ![n] = to]
          /\ erased' = IF to = agent[n] THEN erased
                       ELSE ((erased \ {to}) \cup {agent[n]})
                               \cap {agent[m] : m \in 1..Enemies \ {n}}
          /\ pc' = [pc EXCEPT !["move_agent"] = "state"]
          /\ UNCHANGED <<last_position, screen, i, game_state, sem_update_screen,
                         sem_screen_updated>>
      BY <1>3 DEF enemy
    <2> HIDE DEF n, to
    <2> QED BY <1>0, <2>1, <2>2, <2>3, MoveKeepsDrawn
  <1>4. CASE clrscr BY <1>4, ClrscrKeepsDrawn
  <1>5. CASE draw_player
    <2>1. /\ screen' = Redrawn(0, "P") /\ i' = 1 /\ pc["print_screen"] = "player"
          /\ pc'["print_screen"] \in {"enemies", "exited"} /\ pc'["move_agent"] = pc["move_agent"]
          /\ UNCHANGED <<agent, last_position, game_state, erased, sem_update_screen,
                         sem_screen_updated>>
      BY <1>0, <1>5 DEF draw_player
    <2>2. Drawing /\ 0 \in Agents /\ \A b \in Agents : b \in Nat
      BY <2>1, Sizes DEF Drawing
    <2>3. \A b \in Agents : ~Done(b) /\ ~(b < 0)
      BY <2>1, <2>2, Turns DEF Done, Settled, Moving
    <2>4. CASE pc'["print_screen"] = "enemies"
      <3>1. \A b \in Agents : Done(b)' <=> b < 0 + 1
        BY <2>1, <2>2, <2>4, Turns DEF Done, Settled, Moving
      <3> QED BY <2>1, <2>2, <2>3, <3>1, DrawKeepsDrawn
    <2>5. CASE pc'["print_screen"] = "exited"
      <3>1. Places'
        BY <2>1, PlacesStay DEF DrawInv, Places, FirstTurn, NotCaught, KeptPlaces
      <3> QED BY <2>5, <3>1 DEF DrawInv, DrawnTrue
    <2> QED BY <2>1, <2>4, <2>5
  <1>6. CASE draw_enemy
    <2>1. /\ screen' = Redrawn(i, "E") /\ i' = i + 1 /\ i <= Enemies
          /\ pc["print_screen"] = "enemies" /\ pc' = pc
          /\ UNCHANGED <<agent, last_position, game_state, erased, sem_update_screen,
                         sem_screen_updated>>
      BY <1>6 DEF draw_enemy
    <2>2. Drawing /\ i \in Agents /\ i # 0
      BY <2>1, Sizes DEF Drawing, Inv, TypeOK
    <2>3. \A b \in Agents : (Done(b) <=> b < i) /\ (Done(b)' <=> b < i + 1)
      BY <2>1, <2>2, Turns DEF Done, Settled, Moving
    <2> QED BY <2>1, <2>2, <2>3, DrawKeepsDrawn
  <1>7. CASE UNCHANGED vars
    <2>1. Places'
      BY <1>7, PlacesStay DEF vars, DrawInv, Places, FirstTurn, NotCaught, KeptPlaces
    <2>2. DrawnTrue'
      BY <1>7, ShownStay, DrawingStays DEF vars, DrawInv, Done, Settled
    <2> QED BY <2>1, <2>2 DEF DrawInv
  <1>8. CASE Next /\ ~(positions \/ player \/ enemy \/ clrscr \/ draw_player \/ draw_enemy)
    BY <1>8, QuietKeepsDrawn
  <1> QED BY <1>1, <1>2, <1>3, <1>4, <1>5, <1>6, <1>7, <1>8

\* At the start nobody has moved, and nobody has been left behind.
LEMMA InitDrawn == Init => DrawInv
  <1> SUFFICES ASSUME Init PROVE DrawInv OBVIOUS
  <1>1. /\ agent = Start /\ last_position = [a \in Agents |-> <<0, 0>>]
        /\ pc = [t \in Threads |-> IF t = "main" THEN "print_screen" ELSE "none"]
        /\ sem_update_screen = 1 /\ erased = {}
    BY DEF Init
  <1>2. pc["print_screen"] = "none" /\ pc["move_agent"] = "none"
    BY <1>1 DEF Threads
  <1>3. \A a \in Agents : Undrawn(a)
    BY <1>1, MapAssumption DEF Undrawn
  <1>4. \A m, n \in Agents : agent[m] = agent[n] => m = n
    BY <1>1, MapAssumption
  <1>5. 0 \in Agents /\ 1..Enemies \subseteq Agents /\ \A n \in 1..Enemies : n # 0
    BY Sizes
  <1>6. ~Caught
    BY <1>4, <1>5 DEF Caught
  <1> QED
    BY <1>1, <1>2, <1>3, <1>4, <1>5, <1>6 DEF DrawInv, Places, DrawnTrue, FirstTurn, KeptPlaces,
       OneMover, HasMoved, NotCaught, ErasedTrue
-----------------------------------------------------------------------------
\* The agents are never moved and drawn at the same time, and no turn is lost or
\* doubled between move_agent and print_screen, on any map.
THEOREM AlwaysOneTurn == Spec => []OneTurn
  <1>1. Inv => OneTurn BY DEF Inv, Control
  <1> QED BY InitInv, NextInv, <1>1, PTL DEF Spec

\* Every flag that main or key_read raised has a turn of move_agent coming.
THEOREM AlwaysTurnsOwed == Spec => []TurnsOwed
  <1>1. Inv => TurnsOwed BY DEF Inv, Control
  <1> QED BY InitInv, NextInv, <1>1, PTL DEF Spec

\* No agent is ever in a wall or off the map, and the semaphores that pass the
\* turn never count more than one.
THEOREM AlwaysTypeOK == Spec => []TypeOK
  <1>1. Inv => TypeOK BY DEF Inv
  <1> QED BY InitInv, NextInv, <1>1, PTL DEF Spec

\* Won or lost, the game stays so and no agent moves again.
THEOREM AlwaysEndStable == Spec => EndStable
  <1>1. Inv /\ [Next]_vars => [game_state # "PLAY" => UNCHANGED <<game_state, agent>>]_vars
    <2> SUFFICES ASSUME Inv, Next, game_state # "PLAY"
                 PROVE  UNCHANGED <<game_state, agent>>
      BY DEF vars
    <2>1. pc["move_agent"] \notin {"player", "enemy", "state"}
      BY DEF Inv, Control, Halted, Moving
    <2>2. ~player /\ ~enemy /\ ~state BY <2>1 DEF player, enemy, state
    <2>3. UNCHANGED world \/ positions
      BY <2>2 DEF Next, main, key_read, move_agent, print_screen, create_thread, perror,
           ENEMY_DELAY_over, main_signal, getKey, key_flag, key_signal, semWait_move,
           semWait_updated, choose, moved, update_signal, clrscr, semWait_update,
           draw_player, draw_enemy, drawn, updated_signal, nothing_yet, vars
    <2> QED BY <2>3 DEF positions, world
  <1> QED BY InitInv, NextInv, <1>1, PTL DEF Spec, EndStable

\* Between turns, unless perror printed into the drawing, the player shows where
\* it is and nowhere else, and an enemy in exactly the cells where one stands that
\* no other enemy has left since: on every map, with any number of enemies.
THEOREM ScreenStaysTrue == Spec => []ScreenTrue
  <1>1. Inv /\ DrawInv => ScreenTrue
    <2> SUFFICES ASSUME Inv, DrawInv, Settled, NEW c \in Cells
                 PROVE  /\ screen[c] = "P" <=> c = agent[0]
                        /\ screen[c] = "E" <=> Standing(c)
      BY DEF ScreenTrue
    <2>1. sem_screen_updated = 1 \/ Moving
      BY DEF Settled, Moving
    <2>2. sem_update_screen = 0 /\ pc["print_screen"] # "exited"
      BY <2>1, Turns DEF Inv, Control, OneTurn, One, TypeOK
    <2>3. pc["print_screen"] \in {"semWait", "player", "enemies", "signal"}
      BY <2>2 DEF Inv, TypeOK, DrawInv, Places, FirstTurn
    <2>4. game_state # "LOSE"
      BY DEF Settled, Inv, Control, Halted, Moving
    <2>5. Shown(0) = agent[0] /\ Touched = {}
      BY DEF Shown, Touched, Pending, Done
    <2> QED BY <2>3, <2>4, <2>5 DEF DrawInv, DrawnTrue, Shows
  <1> QED BY InitInv, NextInv, InitDrawn, NextDrawn, <1>1, PTL DEF Spec
=============================================================================
