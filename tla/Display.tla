---------------------------------- MODULE Display ----------------------------------
(***************************************************************************)
(* The display's events: the window is closed, the lidar's view is dragged *)
(* and zoomed, two keys switch things on and off. A position is one        *)
(* coordinate; the module Playground says when events are handled.         *)
(***************************************************************************)
EXTENDS Integers

CONSTANTS
    Width,                          \* bound: positions of the pointer
    ZoomStart, ZoomMin, ZoomMax     \* 10.0, 0.5 and 20.0 in the code, in tenths

ASSUME DisplayAssumption ==
    /\ Width \in Nat
    /\ ZoomStart \in Nat /\ ZoomMin \in Nat /\ ZoomMax \in Nat
    /\ ZoomMin <= ZoomStart /\ ZoomStart <= ZoomMax

Positions == 0 .. Width

VARIABLES
    open,            \* is the window open
    dragging,        \* mouse_drag
    dragStart,       \* mouse_drag_start
    zoom,            \* the static variable of _on_event
    viewZoom,        \* the factor between lidar_view and its viewport
    rendererZoom,    \* _zoom of the RenderLidar
    center,          \* the center of lidar_view, from where it was when the
                     \* button last went down or up
    debugText,       \* enable_debug_text
    rays,            \* _enable_rays of the RenderLidar
    pointer,         \* history: where the pointer is
    grip             \* history: where the button went down, the pointer if it is up

display == <<open, dragging, dragStart, zoom, viewZoom, rendererZoom, center,
             debugText, rays, pointer, grip>>

\* What _build_context sets.
ContextInit ==
    /\ viewZoom = ZoomStart /\ rendererZoom = ZoomStart /\ center = 0
    /\ debugText = TRUE /\ rays = TRUE

DisplayInit ==
    /\ open = TRUE
    /\ dragging = FALSE /\ dragStart = 0 /\ zoom = ZoomStart
    /\ ContextInit
    /\ pointer = 0 /\ grip = 0

----------------------------------------------------------------------------
(* The cases of _on_event.                                                 *)

Closed ==
    /\ open' = FALSE
    /\ UNCHANGED <<dragging, dragStart, zoom, viewZoom, rendererZoom, center,
                   debugText, rays, pointer, grip>>

\* The left button; the others are ignored.
ButtonPressed(at) ==
    /\ dragging' = TRUE /\ dragStart' = at
    /\ pointer' = at /\ grip' = at /\ center' = 0
    /\ UNCHANGED <<open, zoom, viewZoom, rendererZoom, debugText, rays>>

ButtonReleased ==
    /\ dragging' = FALSE
    /\ center' = 0 /\ grip' = pointer
    /\ UNCHANGED <<open, dragStart, zoom, viewZoom, rendererZoom,
                   debugText, rays, pointer>>

\* Mutants: the drag is measured from where it began; the displacement is kept
\* in place of the position.
MouseMovedFromStart(at) ==
    /\ pointer' = at
    /\ IF dragging
       THEN center' = center + (dragStart - at) * zoom /\ grip' = grip
       ELSE center' = center /\ grip' = at
    /\ UNCHANGED <<open, dragging, dragStart, zoom, viewZoom, rendererZoom,
                   debugText, rays>>

MouseMovedKeepsDelta(at) ==
    /\ pointer' = at
    /\ IF dragging
       THEN /\ center' = center + (dragStart - at) * zoom
            /\ dragStart' = dragStart - at /\ grip' = grip
       ELSE center' = center /\ dragStart' = dragStart /\ grip' = at
    /\ UNCHANGED <<open, dragging, zoom, viewZoom, rendererZoom, debugText, rays>>

MouseMoved(at) ==
    /\ pointer' = at
    /\ IF dragging
       THEN /\ center' = center + (dragStart - at) * zoom
            /\ dragStart' = at /\ grip' = grip
       ELSE center' = center /\ dragStart' = dragStart /\ grip' = at
    /\ UNCHANGED <<open, dragging, zoom, viewZoom, rendererZoom, debugText, rays>>

Larger(z)  == IF z + z \div 10 < ZoomMax THEN z + z \div 10 ELSE ZoomMax
Smaller(z) == IF z - z \div 10 > ZoomMin THEN z - z \div 10 ELSE ZoomMin

\* A mutant: the size of the view is not reset before view.zoom.
WheelScrolledOn ==
    /\ ~ dragging
    /\ zoom' \in {Larger(zoom), Smaller(zoom), zoom}
    /\ viewZoom' = (viewZoom * zoom') \div ZoomStart /\ rendererZoom' = zoom'
    /\ UNCHANGED <<open, dragging, dragStart, center, debugText, rays, pointer, grip>>

\* Up, down, or by less than a notch. While the view is dragged it is ignored.
WheelScrolled ==
    /\ ~ dragging
    /\ zoom' \in {Larger(zoom), Smaller(zoom), zoom}
    /\ viewZoom' = zoom' /\ rendererZoom' = zoom'
    /\ UNCHANGED <<open, dragging, dragStart, center, debugText, rays, pointer, grip>>

KeyF5 ==
    /\ debugText' = ~ debugText
    /\ UNCHANGED <<open, dragging, dragStart, zoom, viewZoom, rendererZoom, center,
                   rays, pointer, grip>>

KeyF6 ==
    /\ rays' = ~ rays
    /\ UNCHANGED <<open, dragging, dragStart, zoom, viewZoom, rendererZoom, center,
                   debugText, pointer, grip>>

\* Other keys, buttons and events, and the wheel during a drag.
Ignored == UNCHANGED display

OnEvent ==
    \/ Closed
    \/ \E at \in Positions : ButtonPressed(at) \/ MouseMoved(at)
    \/ ButtonReleased \/ WheelScrolled \/ KeyF5 \/ KeyF6 \/ Ignored

----------------------------------------------------------------------------
(* Properties.                                                             *)

DisplayTypeOK ==
    /\ open \in BOOLEAN /\ dragging \in BOOLEAN
    /\ debugText \in BOOLEAN /\ rays \in BOOLEAN
    /\ dragStart \in Positions /\ pointer \in Positions /\ grip \in Positions
    /\ zoom \in Int /\ viewZoom \in Int /\ rendererZoom \in Int /\ center \in Int

\* However the user mixes drags and zooms, the point of the lidar's view that was
\* under the pointer when the button went down stays under it until it goes up.
GripHolds == dragging => center = (grip - pointer) * zoom

\* The view, the renderer's line widths and the static variable, which start
\* from three literals, stay at the same zoom, and it stays in its bounds.
ZoomAgrees ==
    /\ viewZoom = zoom /\ rendererZoom = zoom
    /\ zoom \in ZoomMin .. ZoomMax
====================================================================================
