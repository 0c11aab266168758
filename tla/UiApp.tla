------------------------------- MODULE UiApp -------------------------------
(***************************************************************************)
(* The user interface (userland/apps/test_app), which turns input events   *)
(* into cursor and window positions and repaints, and the draw_rect of its *)
(* host (userland/marshal).  The screen is observed at a set of pixels.    *)
(***************************************************************************)
EXTENDS Integers, Sequences, FiniteSetsExt

CONSTANTS FbWidth, FbHeight,  \* the framebuffer, in pixels
          Values32, Values64, \* how many values an i32 and a u64 have
          Pixels,             \* the pixels that are observed
          Deltas,             \* the bytes a mouse sends as movements
          Scancodes,          \* the bytes a keyboard sends
          MaxEvents           \* bound: events the interface handles

ASSUME UiAppAssumption ==
  /\ FbWidth \in Nat /\ FbWidth > 10 /\ FbHeight \in Nat /\ FbHeight > 10
  /\ Pixels \subseteq (0..FbWidth - 1) \X (0..FbHeight - 1)
  /\ Deltas \subseteq 0..255 /\ Scancodes \subseteq 0..255 /\ MaxEvents \in Nat

\* A screen is far smaller than what an i32 can count.
ASSUME WidthAssumption ==
  /\ Values32 \in Nat \ {0} /\ Values32 % 2 = 0
  /\ Values64 \in Nat \ {0} /\ Values64 % Values32 = 0
  /\ FbWidth + 1000 <= Values32 \div 2 /\ FbHeight + 1000 <= Values32 \div 2

VARIABLES mouse_x, mouse_y, win_x, win_y,
          is_dragging, drag_offset_x, drag_offset_y,
          win_color,
          screen,    \* pixel -> colour
          inside,    \* history: the window has never left the screen at the
                     \* left or at the top
          events     \* how many events have been handled

vars == <<mouse_x, mouse_y, win_x, win_y, is_dragging, drag_offset_x, drag_offset_y,
          win_color, screen, inside, events>>

win_w == 400
win_h == 250
desktop_color == 2241348     \* 0x223344

Rect(x, y, w, h, c) == [x |-> x, y |-> y, w |-> w, h |-> h, color |-> c]

\* The host's draw_rect: nothing if a coordinate is negative, else the extent is
\* cut at the right and at the bottom.  The limit is a u64, the rest i32; to the
\* right of the screen the subtraction wraps around.  No caller passes a negative
\* extent.
AsU64(n) == n % Values64
AsI32(n) ==
  LET m == n % Values32 IN IF m < Values32 \div 2 THEN m ELSE m - Values32

CutUnsigned(start, extent, limit) ==
  IF AsU64(AsU64(start) + AsU64(extent)) > limit THEN AsU64(limit - AsU64(start)) ELSE extent
Cut(start, extent, limit) ==
  IF AsU64(AsU64(start) + AsU64(extent)) > limit THEN AsI32(AsU64(limit - AsU64(start)))
                                                 ELSE extent

Drawn(r) == r.x >= 0 /\ r.y >= 0

Covers(r, p) ==
  /\ Drawn(r)
  /\ r.x <= p[1] /\ p[1] < r.x + Cut(r.x, r.w, FbWidth)
  /\ r.y <= p[2] /\ p[2] < r.y + Cut(r.y, r.h, FbHeight)

\* The screen after the rectangles are drawn one after the other.
Paint(s, rects) ==
  [p \in Pixels |->
     LET over == {i \in DOMAIN rects : Covers(rects[i], p)}
     IN  IF over = {} THEN s[p] ELSE rects[Max(over)].color]

draw_cursor(x, y) == <<Rect(x, y, 6, 6, 16777215), Rect(x + 1, y + 1, 4, 4, 0)>>

\* Shadow, frame, title bar, close button, content and four placeholders.
draw_window(x, y, w, h, title) ==
  << Rect(x + 6, y + 6, w, h, 1118481),
     Rect(x, y, w, h, 14540253),
     Rect(x, y, w, 24, title),
     Rect(x + w - 24, y + 4, 16, 16, 16729156),
     Rect(x + 10, y + 34, w - 20, h - 44, 16777215),
     Rect(x + 30, y + 60, 100, 20, 3368703),
     Rect(x + 30, y + 100, 200, 10, 11184810),
     Rect(x + 30, y + 120, 180, 10, 11184810),
     Rect(x + 30, y + 140, 220, 10, 11184810) >>

Scene(wx, wy, color, mx, my) ==
  draw_window(wx, wy, win_w, win_h, color) \o draw_cursor(mx, my)

\* Before the scene is drawn anew, its old cursor and window are painted over.
EraseWithoutShadow(wx, wy, mx, my) ==
  << Rect(mx, my, 6, 6, desktop_color), Rect(wx, wy, win_w, win_h, desktop_color) >>
Erase(wx, wy, mx, my) ==
  << Rect(mx, my, 6, 6, desktop_color),
     Rect(wx, wy, win_w + 6, win_h + 6, desktop_color) >>

Desktop == <<Rect(0, 0, FbWidth, FbHeight, desktop_color)>>
Blank == [p \in Pixels |-> 0]

Init ==
  /\ mouse_x = FbWidth \div 2 /\ mouse_y = FbHeight \div 2
  /\ win_x = 200 /\ win_y = 150
  /\ is_dragging = FALSE /\ drag_offset_x = 0 /\ drag_offset_y = 0
  /\ win_color = 21930       \* 0x0055AA
  /\ screen = Paint(Blank, Desktop \o Scene(win_x, win_y, win_color, mouse_x, mouse_y))
  /\ inside = TRUE
  /\ events = 0

Redraw ==
  /\ \E rects \in {Erase(win_x, win_y, mouse_x, mouse_y)
                     \o Scene(win_x', win_y', win_color', mouse_x', mouse_y')} :
       screen' = Paint(screen, rects)
  /\ inside' = (inside /\ win_x' >= 0 /\ win_y' >= 0)

\* The byte as a signed one.
AsI8(b) == IF b < 128 THEN b ELSE b - 256

Clamp(v, limit) == IF v < 0 THEN 0 ELSE IF v > limit - 6 THEN limit - 6 ELSE v

OnTitleBar(x, y) ==
  /\ win_x <= x /\ x <= win_x + win_w
  /\ win_y <= y /\ y <= win_y + 24

\* A press on the title bar starts a drag; while the button stays down the window
\* follows the cursor.
GripOfOldCursor(x, y) == <<mouse_x - win_x, mouse_y - win_y>>
Grip(x, y) == <<x - win_x, y - win_y>>

Grab(x, y) ==
  /\ is_dragging' = OnTitleBar(x, y)
  /\ IF OnTitleBar(x, y)
     THEN drag_offset_x' = Grip(x, y)[1] /\ drag_offset_y' = Grip(x, y)[2]
     ELSE UNCHANGED <<drag_offset_x, drag_offset_y>>
  /\ UNCHANGED <<win_x, win_y>>

Drag(x, y) ==
  /\ win_x' = x - drag_offset_x /\ win_y' = y - drag_offset_y
  /\ UNCHANGED <<is_dragging, drag_offset_x, drag_offset_y>>

Drop ==
  /\ is_dragging' = FALSE
  /\ UNCHANGED <<win_x, win_y, drag_offset_x, drag_offset_y>>

Button(left_click, x, y) ==
  \/ left_click /\ ~ is_dragging /\ Grab(x, y)
  \/ left_click /\ is_dragging /\ Drag(x, y)
  \/ ~ left_click /\ Drop

\* A mouse event (id 0x5E).
Mouse(left_click, dx, dy) ==
  /\ mouse_x' = Clamp(mouse_x + AsI8(dx), FbWidth)
  /\ mouse_y' = Clamp(mouse_y - AsI8(dy), FbHeight)
  /\ Button(left_click, mouse_x', mouse_y')
  /\ UNCHANGED win_color
  /\ Redraw

\* A keyboard event (id 0x11): the press of a key changes the title's colour, its
\* release does nothing.
KeyDown(scancode) ==
  /\ scancode < 128
  /\ win_color' = (win_color + 4403) % 16777216     \* + 0x001133, & 0xFFFFFF
  /\ UNCHANGED <<mouse_x, mouse_y, win_x, win_y, is_dragging, drag_offset_x,
                 drag_offset_y>>
  /\ Redraw

KeyUp(scancode) ==
  /\ scancode >= 128
  /\ UNCHANGED <<mouse_x, mouse_y, win_x, win_y, is_dragging, drag_offset_x,
                 drag_offset_y, win_color, screen, inside>>

Next ==
  /\ events < MaxEvents
  /\ events' = events + 1
  /\ \/ \E left \in BOOLEAN, dx, dy \in Deltas : Mouse(left, dx, dy)
     \/ \E c \in Scancodes : KeyDown(c) \/ KeyUp(c)

Spec == Init /\ [][Next]_vars
-----------------------------------------------------------------------------
\* While a drag lasts, the cursor holds the point of the title bar it grabbed,
\* also when movements are cut at the edges of the screen.
DragKeepsGrip ==
  is_dragging =>
    /\ mouse_x - win_x = drag_offset_x /\ drag_offset_x \in 0..win_w
    /\ mouse_y - win_y = drag_offset_y /\ drag_offset_y \in 0..24

\* No rectangle of a repaint reaches past the framebuffer, wherever the window
\* has been dragged to, also when the cut wraps around; and every pixel of it that
\* is on the screen is drawn.
Contains(r, p) ==
  /\ r.x <= p[1] /\ p[1] < r.x + r.w
  /\ r.y <= p[2] /\ p[2] < r.y + r.h
Rects == LET all == Erase(win_x, win_y, mouse_x, mouse_y)
                      \o Scene(win_x, win_y, win_color, mouse_x, mouse_y)
         IN  {all[i] : i \in DOMAIN all}
WritesInFramebuffer ==
  \A r \in Rects : Drawn(r) =>
    LET w == Cut(r.x, r.w, FbWidth)
        h == Cut(r.y, r.h, FbHeight)
    IN  /\ w > 0 /\ h > 0 => r.x + w <= FbWidth /\ r.y + h <= FbHeight
        /\ \A p \in Pixels : Covers(r, p) <=> Contains(r, p)

\* The screen is what drawing everything from scratch would show.
Clean ==
  \E rects \in {Desktop \o Scene(win_x, win_y, win_color, mouse_x, mouse_y)} :
    screen = Paint(Blank, rects)

\* As long as the window has not left the screen at the left or at the top, the
\* partial repaint leaves no trace of earlier positions.
CleanWhileInside == inside => Clean
=============================================================================
