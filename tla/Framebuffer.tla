----------------------------- MODULE Framebuffer -----------------------------
(* low-level-graphics/sdl-framebuffer/main.c: resources of SDL are acquired *)
(* one on top of the other, any of which may fail; then frames are drawn    *)
(* until an event asks to quit.                                             *)
EXTENDS Integers, Sequences
CONSTANTS
  WIDTH, HEIGHT,
  UINT32_MAX,   \* where frame wraps around
  Background, Lit,
  MaxEvents     \* bound on the events of one run

FramebufferAssumption == {WIDTH, HEIGHT} \subseteq Nat \ {0} /\ UINT32_MAX \in Nat

VARIABLES
  pc,
  acquired,     \* the resources held, in the order of their acquisition
  events,       \* SDL's event queue
  posted,       \* events so far
  is_running, frame,
  framebuffer, texture  \* the pixels, before and after SDL_UpdateTexture

vars == <<pc, acquired, events, posted, is_running, frame, framebuffer, texture>>
loopVars == <<is_running, frame, framebuffer, texture>>

Ladder == <<"SDL", "window", "renderer", "texture">>
Pixels == 0 .. WIDTH * HEIGHT - 1
Blank  == [k \in Pixels |-> Background]

Init ==
  /\ pc = "acquire" /\ acquired = <<>> /\ events = <<>> /\ posted = 0
  /\ is_running = TRUE /\ frame = 0
  /\ framebuffer = [k \in Pixels |-> 0] /\ texture = framebuffer

Acquire ==
  /\ pc = "acquire" /\ Len(acquired) < Len(Ladder)
  /\ acquired' = Append(acquired, Ladder[Len(acquired) + 1])
  /\ pc' = IF Len(acquired') = Len(Ladder) THEN "poll" ELSE "acquire"
  /\ UNCHANGED <<events, posted, loopVars>>

\* A failed call goes down from the resource before it.
AcquireFails ==
  /\ pc = "acquire"
  /\ pc' = "release"
  /\ UNCHANGED <<acquired, events, posted, loopVars>>

Release_FromWindow ==
  /\ pc = "release"
  /\ IF acquired = <<>> THEN pc' = "exited" /\ UNCHANGED acquired
     ELSE acquired' = Tail(acquired) /\ UNCHANGED pc
  /\ UNCHANGED <<events, posted, loopVars>>

\* SDL_Destroy..., SDL_Quit: in reverse order on every path.
Release ==
  /\ pc = "release"
  /\ IF acquired = <<>> THEN pc' = "exited" /\ UNCHANGED acquired
     ELSE acquired' = SubSeq(acquired, 1, Len(acquired) - 1) /\ UNCHANGED pc
  /\ UNCHANGED <<events, posted, loopVars>>

\* One round of while (SDL_PollEvent): a quit is remembered, the others drop.
PollEvent ==
  /\ pc = "poll" /\ events # <<>>
  /\ events' = Tail(events)
  /\ is_running' = (is_running /\ Head(events) # "quit")
  /\ UNCHANGED <<pc, acquired, posted, frame, framebuffer, texture>>

put_pixel(x, y, color, pixels) ==
  IF x < 0 \/ x >= WIDTH \/ y < 0 \/ y >= HEIGHT THEN pixels
  ELSE [pixels EXCEPT ![WIDTH * y + x] = color]

\* The rest of the frame has no memory of the one before.
Draw_Uncleared ==
  /\ pc = "poll" /\ events = <<>>
  /\ framebuffer' = put_pixel(frame % WIDTH, HEIGHT \div 2, Lit, framebuffer)
  /\ texture' = framebuffer'
  /\ frame' = (frame + 1) % (UINT32_MAX + 1)
  /\ pc' = IF is_running THEN "poll" ELSE "release"
  /\ UNCHANGED <<acquired, events, posted, is_running>>

\* clear, put_pixel, SDL_UpdateTexture, SDL_Delay; a last frame is drawn after quit.
Draw ==
  /\ pc = "poll" /\ events = <<>>
  /\ framebuffer' = put_pixel(frame % WIDTH, HEIGHT \div 2, Lit, Blank)
  /\ texture' = framebuffer'
  /\ frame' = (frame + 1) % (UINT32_MAX + 1)
  /\ pc' = IF is_running THEN "poll" ELSE "release"
  /\ UNCHANGED <<acquired, events, posted, is_running>>

Program == Acquire \/ AcquireFails \/ Release \/ PollEvent \/ Draw

\* The user, from when there is a window.
Post(e) ==
  /\ "window" \in {acquired[k] : k \in DOMAIN acquired} /\ posted < MaxEvents
  /\ events' = Append(events, e) /\ posted' = posted + 1
  /\ UNCHANGED <<pc, acquired, loopVars>>

Finished == pc = "exited" /\ UNCHANGED vars

Next == Program \/ (\E e \in {"quit", "key"} : Post(e)) \/ Finished
Spec == Init /\ [][Next]_vars
-----------------------------------------------------------------------------
\* main.c:50, 57, 66, 120: nothing is released before what was made from it,
\* and nothing is held when main() returns, whichever call has failed.
ReleasedInOrder ==
  /\ acquired = SubSeq(Ladder, 1, Len(acquired))
  /\ pc = "exited" => acquired = <<>>

\* "A simple animation of a pixel" (Readme.md:3): every frame, the last one and
\* those around the wrap of the counter too, shows one lit pixel in the middle
\* row and nothing of the frames before.
ShowsOnePixel ==
  texture # [k \in Pixels |-> 0] =>
    \E k \in Pixels : texture = [Blank EXCEPT ![k] = Lit] /\ k \div WIDTH = HEIGHT \div 2

\* What main() must reach once it has been asked to quit (main.c:85).
Quits == "quit" \in {events[k] : k \in DOMAIN events} \/ ~is_running => pc = "exited"
=============================================================================
